---------------------------- MODULE RowView_proofs ----------------------------
(***************************************************************************)
(* The way of a row, for any binlog, any chunk size and any number of      *)
(* crashes.                                                                *)
(***************************************************************************)
EXTENDS RowView, Lists_proofs, FiniteSetTheorems

(* A position that lies behind what was read is that of the rows event at  *)
(* hand, one of whose rows was acknowledged.                               *)
CutInv(o) == o > high => phase = "stream" /\ o = next /\ next = high + 1 /\ row > 0

(* Where the reader is.  Before it starts to stream it has read nothing.   *)
ReaderInv ==
    /\ phase # "stream" =>
          next = 1 /\ row = 0 /\ currentTx = NoTx /\ reported = NoReport
    /\ phase = "stream" => offset # -1 /\ committed # -1 /\ next - 1 <= high
    /\ offset # -1 => committed # -1
    /\ reported.event \in 0..Len(binlog)
    /\ reported.event <= next
    /\ row = 0 => reported.event < next
    /\ row > 0 => binlog[next].kind = "rows"
    /\ CutInv(offset) /\ CutInv(committed)

TypesInv == binlog \in Binlogs /\ TypeOK /\ ReaderInv

-----------------------------------------------------------------------------
(* The constants.                                                          *)
LEMMA BinlogType ==
    ASSUME NEW b \in Binlogs
    PROVE  Len(b) \in Nat /\ DOMAIN b = 1..Len(b)
<1>1. b \in Seq(Range(b))
  BY BinlogsAssumption
<1>. QED BY <1>1

LEMMA ChangesType ==
    ASSUME NEW b \in Binlogs, NEW i \in 1..Len(b)
    PROVE  /\ Len(b[i].changes) \in Nat
           /\ DOMAIN b[i].changes = 1..Len(b[i].changes)
           /\ b[i].kind = "rows" <=> Len(b[i].changes) > 0
<1>1. /\ b[i].changes \in Seq(Range(b[i].changes))
      /\ b[i].kind = "rows" <=> Range(b[i].changes) # {}
  BY BinlogType, ChangesAssumption
<1>2. /\ Len(b[i].changes) \in Nat
      /\ DOMAIN b[i].changes = 1..Len(b[i].changes)
  BY <1>1
<1>3. Range(b[i].changes) # {} <=> \E n \in DOMAIN b[i].changes : TRUE
  BY DEF Range
<1>4. (\E n \in 1..Len(b[i].changes) : TRUE) <=> 1 \in 1..Len(b[i].changes)
  BY <1>2
<1>5. 1 \in 1..Len(b[i].changes) <=> Len(b[i].changes) > 0
  BY <1>2
<1>. QED BY <1>1, <1>2, <1>3, <1>4, <1>5

LEMMA LargerOfTwo ==
    ASSUME NEW n \in Nat, NEW a \in 0..n, NEW b \in 0..n
    PROVE  /\ Max({a, b}) = IF a >= b THEN a ELSE b
           /\ Max({a, b}) \in 0..n /\ a <= Max({a, b}) /\ b <= Max({a, b})
<1>. DEFINE m == IF a >= b THEN a ELSE b
<1>1. m \in {a, b} /\ \A y \in {a, b} : m >= y
  OBVIOUS
<1>2. \A x \in {a, b} : (\A y \in {a, b} : x >= y) => x = m
  OBVIOUS
<1>3. Max({a, b}) = m
  BY <1>1, <1>2 DEF Max
<1>. QED BY <1>3

-----------------------------------------------------------------------------
LEMMA InitTypes == Init => TypesInv
<1>. SUFFICES ASSUME Init PROVE TypesInv
  OBVIOUS
<1>1. Len(binlog) \in Nat
  BY BinlogType DEF Init
<1>2. binlog \in Binlogs /\ run = 0 /\ next = 1 /\ row = 0 /\ currentTx = NoTx
      /\ phase = "new" /\ snapView = 0 /\ snapAt = 0 /\ high = 0 /\ offset = -1
      /\ committed = -1 /\ missed = {} /\ reported = NoReport /\ reported.event = 0
  BY DEF Init, NoReport
<1>3. DOMAIN view = PrimaryKeys
  BY DEF Init
<1>4. 0 \in 0..MaxCrashes
  BY RowViewAssumption
<1>5. TypeOK
  <2>1. interrupted \in BOOLEAN
    BY DEF Init
  <2>2. /\ next \in 1..Len(binlog) + 1 /\ snapAt \in 0..Len(binlog)
        /\ snapView \in 0..Len(binlog) /\ missed \subseteq (1..Len(binlog)) \X PrimaryKeys
        /\ high \in 0..Len(binlog) /\ offset \in -1..high + 1 /\ committed \in -1..high + 1
        /\ row \in Nat /\ ~(row > 0)
    BY <1>1, <1>2
  <2>. QED BY <1>2, <1>3, <1>4, <2>1, <2>2 DEF TypeOK
<1>. QED
  BY <1>1, <1>2, <1>5 DEF TypesInv, ReaderInv, CutInv

(* What the reader does with one event: it goes on to the next one, or to  *)
(* the next row of a rows event.                                           *)
LEMMA ReadSteps ==
    ASSUME TypesInv, phase = "stream", ReadEvent
    PROVE  /\ next \in DOMAIN binlog
           /\ \/ /\ next' = next + 1 /\ row' = 0
                 /\ binlog[next].kind = "rows" => row + 1 = Len(binlog[next].changes)
              \/ next' = next /\ row' = row + 1 /\ binlog[next].kind = "rows"
                 /\ row + 1 < Len(binlog[next].changes)
           /\ \/ reported' = reported /\ row = 0
              \/ reported'.event = next
           /\ \/ currentTx' \in {currentTx, NoTx}
              \/ currentTx' = <<next, run>>
<1>1. /\ next \in DOMAIN binlog /\ next \in 1..Len(binlog) /\ Len(binlog) \in Nat
      /\ row \in Nat
      /\ row > 0 => binlog[next].kind = "rows" /\ row < Len(binlog[next].changes)
  <2>1. next <= Len(binlog)
    BY DEF ReadEvent, QueryBegin, QueryCommit, QueryOther, Xid, Rows, Rotate, Reading
  <2>. QED BY <2>1, BinlogType DEF TypesInv, TypeOK, ReaderInv
<1>2. binlog[next].kind = "rows" => Len(binlog[next].changes) \in Nat /\ Len(binlog[next].changes) > 0
  BY <1>1, ChangesType DEF TypesInv
<1>3. CASE Rows
  BY <1>1, <1>2, <1>3 DEF Rows, EventDone, Event, Reading
<1>4. CASE QueryBegin \/ QueryOther \/ Xid
  <2>1. next' = next + 1 /\ row' = 0 /\ binlog[next].kind # "rows" /\ reported'.event = next
    BY <1>4 DEF QueryBegin, QueryOther, Xid, EventDone, Event, Reading, Report
  <2>2. currentTx' \in {currentTx, NoTx} \/ currentTx' = <<next, run>>
    BY <1>4 DEF QueryBegin, QueryOther, Xid, MakeTxId
  <2>. QED BY <1>1, <2>1, <2>2
<1>5. CASE QueryCommit \/ Rotate
  <2>1. next' = next + 1 /\ row' = 0 /\ binlog[next].kind # "rows"
        /\ (reported'.event = next \/ reported' = reported)
    BY <1>5 DEF QueryCommit, Rotate, EventDone, Event, Reading, Report
  <2>2. currentTx' \in {currentTx, NoTx}
    BY <1>5 DEF QueryCommit, Rotate
  <2>. QED BY <1>1, <2>1, <2>2
<1>. QED BY <1>3, <1>4, <1>5 DEF ReadEvent

LEMMA CollapseType ==
    ASSUME NEW v, DOMAIN v = PrimaryKeys, NEW k, NEW i, NEW val
    PROVE  DOMAIN Collapse(v, k, i, val) = PrimaryKeys
BY DEF Collapse

LEMMA StreamTypes == TypesInv /\ Stream => TypesInv'
<1>. SUFFICES ASSUME TypesInv, Stream PROVE TypesInv'
  OBVIOUS
<1>. DEFINE moved == next' = next + 1 /\ row' = 0
            stays == next' = next /\ row' = row + 1 /\ binlog[next].kind = "rows"
                     /\ row + 1 < Len(binlog[next].changes)
<1>1. /\ phase = "stream" /\ ReadEvent /\ Consume
      /\ UNCHANGED <<binlog, run, phase, snapView, snapAt, chunkAt, interrupted, missed,
                     committed, offset>>
      /\ high' = Max({high, next' - 1})
      /\ Len(binlog) \in Nat /\ next \in 1..Len(binlog)
      /\ moved \/ stays
      /\ (reported' = reported /\ row = 0) \/ reported'.event = next
      /\ currentTx' \in {currentTx, NoTx} \/ currentTx' = <<next, run>>
  <2>1. /\ phase = "stream" /\ ReadEvent /\ Consume
        /\ UNCHANGED <<binlog, run, phase, snapView, snapAt, chunkAt, interrupted, missed,
                       committed, offset>>
        /\ high' = Max({high, next' - 1})
    BY DEF Stream, snapVars, offsetVars
  <2>2. next \in DOMAIN binlog /\ Len(binlog) \in Nat /\ next \in 1..Len(binlog)
    BY <2>1, ReadSteps, BinlogType DEF TypesInv
  <2>3. /\ moved \/ stays
        /\ (reported' = reported /\ row = 0) \/ reported'.event = next
        /\ currentTx' \in {currentTx, NoTx} \/ currentTx' = <<next, run>>
    BY <2>1, ReadSteps
  <2>. QED BY <2>1, <2>2, <2>3
<1>. USE DEF TypesInv, TypeOK, ReaderInv
<1>2. next' \in 1..Len(binlog) + 1 /\ row' \in Nat
      /\ (row' > 0 => next' <= Len(binlog) /\ row' < Len(binlog[next'].changes)
                      /\ binlog[next'].kind = "rows")
  <2>1. CASE moved
    BY <1>1, <2>1
  <2>2. CASE stays
    BY <1>1, <2>2
  <2>. QED BY <1>1, <2>1, <2>2
<1>3. high' \in 0..Len(binlog) /\ next' - 1 <= high' /\ high <= high' /\ high \in 0..Len(binlog)
  <2>1. high \in 0..Len(binlog)
    OBVIOUS
  <2>. HIDE DEF TypesInv, TypeOK, ReaderInv
  <2>2. Len(binlog) \in Nat /\ next' \in 1..Len(binlog) + 1
    BY <1>1, <1>2
  <2>3. next' - 1 \in 0..Len(binlog)
    <3>. DEFINE n == Len(binlog)
                m == next'
    <3>1. n \in Nat /\ m \in 1..n + 1
      BY <2>2
    <3>. HIDE DEF n, m
    <3>2. m - 1 \in 0..n
      BY <3>1
    <3>. QED BY <3>2 DEF n, m
  <2>4. high' = Max({high, next' - 1})
    BY <1>1
  <2>. DEFINE d == next' - 1
  <2>. HIDE DEF d
  <2>5. d \in 0..Len(binlog)
    BY <2>3 DEF d
  <2>6. /\ Max({high, d}) \in 0..Len(binlog)
        /\ d <= Max({high, d}) /\ high <= Max({high, d})
    BY <2>1, <2>2, <2>5, LargerOfTwo
  <2>7. high' = Max({high, d})
    BY <2>4 DEF d
  <2>8. high' \in 0..Len(binlog) /\ d <= high' /\ high <= high'
    BY <2>6, <2>7
  <2>9. next' - 1 <= high'
    BY <2>8 DEF d
  <2>. QED BY <2>1, <2>8, <2>9
<1>4. currentTx' = NoTx \/ currentTx' \in (1..Len(binlog)) \X {run}
  BY <1>1
<1>5. DOMAIN view' = PrimaryKeys
  BY <1>1, CollapseType DEF Consume
<1>6. /\ reported'.event \in 0..Len(binlog) /\ reported'.event <= next'
      /\ row' = 0 => reported'.event < next'
  <2>1. CASE reported' = reported /\ row = 0
    <3>1. reported.event \in 0..Len(binlog) /\ reported.event < next
      BY <2>1
    <3>. QED BY <1>1, <2>1, <3>1
  <2>2. CASE reported'.event = next
    BY <1>1, <2>2
  <2>. QED BY <1>1, <2>1, <2>2
<1>7. next - 1 <= high /\ row \in Nat
  BY <1>1
<1>8. ASSUME NEW o \in -1..high + 1, o > high => o = next /\ next = high + 1 /\ row > 0
      PROVE  o \in -1..high' + 1 /\ (o > high' => o = next' /\ next' = high' + 1 /\ row' > 0)
  <2>. HIDE DEF TypesInv, TypeOK, ReaderInv
  <2>1. CASE moved
    BY <1>1, <1>3, <1>8, <2>1
  <2>2. CASE stays
    <3>1. next' - 1 <= high /\ next' - 1 \in 0..Len(binlog)
      <4>1. next - 1 \in 0..Len(binlog)
        BY <1>1
      <4>. QED BY <1>7, <2>2, <4>1
    <3>2. Max({high, next' - 1}) = IF high >= next' - 1 THEN high ELSE next' - 1
      BY <1>1, <1>3, <3>1, LargerOfTwo
    <3>3. high' = high
      BY <1>1, <1>3, <3>1, <3>2
    <3>. QED BY <1>3, <1>8, <1>7, <2>2, <3>3
  <2>. QED BY <1>1, <2>1, <2>2
<1>9. /\ committed' \in -1..high' + 1 /\ offset' \in -1..high' + 1
      /\ CutInv(committed)' /\ CutInv(offset)'
  BY <1>1, <1>8 DEF CutInv
<1>. QED BY <1>1, <1>2, <1>3, <1>4, <1>5, <1>6, <1>9

LEMMA KeysOfChanges ==
    ASSUME NEW b \in Binlogs, NEW e \in DOMAIN b, NEW c \in Range(b[e].changes)
    PROVE  Keys(c) \subseteq PrimaryKeys
<1>1. {c.old, c.new} \subseteq PrimaryKeys \cup {0}
  BY ChangesAssumption
<1>. QED BY <1>1 DEF Keys

LEMMA ChangedInType ==
    ASSUME binlog \in Binlogs, NEW m \in Nat, NEW n \in 0..Len(binlog)
    PROVE  ChangedIn(m + 1 .. n) \subseteq (1..Len(binlog)) \X PrimaryKeys
<1>1. Len(binlog) \in Nat /\ DOMAIN binlog = 1..Len(binlog)
  BY BinlogType
<1>. SUFFICES ASSUME NEW i \in m + 1 .. n, NEW c \in Range(binlog[i].changes)
              PROVE  {i} \X Keys(c) \subseteq (1..Len(binlog)) \X PrimaryKeys
  BY DEF ChangedIn
<1>2. i \in 1..Len(binlog)
  BY <1>1
<1>3. Keys(c) \subseteq PrimaryKeys
  BY <1>1, <1>2, KeysOfChanges
<1>. QED BY <1>2, <1>3

(* What a crash cuts off.                                                  *)
LEMMA CutOffIs ==
    ASSUME TypesInv
    PROVE  /\ CutOff \subseteq (1..Len(binlog)) \X PrimaryKeys
           /\ \A x \in CutOff : x[1] = offset /\ offset > high
           /\ offset > high =>
                 /\ offset \in DOMAIN binlog /\ offset = high + 1
                 /\ \A m \in row + 1 .. Len(binlog[offset].changes) :
                       \A k \in Keys(binlog[offset].changes[m]) : <<offset, k>> \in CutOff
<1>. DEFINE changes == binlog[offset].changes
<1>1. CASE ~(offset > high)
  BY <1>1 DEF CutOff
<1>2. CASE offset > high
  <2>1. /\ binlog \in Binlogs /\ Len(binlog) \in Nat /\ DOMAIN binlog = 1..Len(binlog)
        /\ offset = next /\ next = high + 1 /\ row > 0 /\ row \in Nat /\ next <= Len(binlog)
        /\ next \in 1..Len(binlog) + 1 /\ row < Len(changes)
    BY <1>2, BinlogType DEF TypesInv, TypeOK, ReaderInv, CutInv
  <2>2. offset \in DOMAIN binlog /\ offset \in 1..Len(binlog)
    BY <2>1
  <2>3. Len(changes) \in Nat /\ DOMAIN changes = 1..Len(changes)
    BY <2>1, <2>2, ChangesType
  <2>4. \A m \in row + 1 .. Len(changes) : Keys(changes[m]) \subseteq PrimaryKeys
    <3>. SUFFICES ASSUME NEW m \in row + 1 .. Len(changes)
                  PROVE  Keys(changes[m]) \subseteq PrimaryKeys
      OBVIOUS
    <3>1. m \in DOMAIN changes
      BY <2>1, <2>3
    <3>2. changes[m] \in Range(changes)
      BY <3>1 DEF Range
    <3>. QED BY <2>1, <2>2, <3>2, KeysOfChanges
  <2>5. CutOff = UNION {{offset} \X Keys(changes[m]) : m \in row + 1 .. Len(changes)}
    BY <1>2 DEF CutOff
  <2>6. \A x \in CutOff : \E m \in row + 1 .. Len(changes) : x \in {offset} \X Keys(changes[m])
    BY <2>5
  <2>7. \A m \in row + 1 .. Len(changes) : \A k \in Keys(changes[m]) : <<offset, k>> \in CutOff
    BY <2>5
  <2>8. \A x \in CutOff : x[1] = offset /\ x \in (1..Len(binlog)) \X PrimaryKeys
    BY <2>2, <2>4, <2>6
  <2>. QED BY <1>2, <2>1, <2>2, <2>7, <2>8
<1>. QED BY <1>1, <1>2

LEMMA NextTypes == TypesInv /\ [Next]_vars => TypesInv'
<1>. SUFFICES ASSUME TypesInv, [Next]_vars PROVE TypesInv'
  OBVIOUS
<1>1. Len(binlog) \in Nat /\ high \in 0..Len(binlog) /\ snapAt \in Int /\ binlog \in Binlogs
      /\ snapView \in 0..Len(binlog) /\ high \in Int
  BY BinlogType DEF TypesInv, TypeOK
<1>2. CASE Restart
  <2>1. /\ UNCHANGED <<binlog, view, snapView, snapAt, offset>>
        /\ run' = run + 1 /\ run < MaxCrashes /\ phase' = "new" /\ interrupted' \in BOOLEAN
        /\ high' = Max({high, offset}) /\ committed' = offset /\ missed' = missed \cup CutOff
        /\ next' = 1 /\ row' = 0 /\ currentTx' = NoTx /\ reported' = NoReport
    BY <1>2 DEF Restart, StartBehind, TypesInv, TypeOK
  <2>2. ASSUME offset = -1 PROVE high' \in 0..Len(binlog) /\ offset <= high'
    <3>1. high' = Max({high, -1})
      BY <2>1, <2>2
    <3>2. high' \in 0..Len(binlog) /\ offset <= high'
      <4>1. \A x \in {high, -1} : (\A y \in {high, -1} : x >= y) => x = high
        BY <1>1
      <4>2. high \in {high, -1} /\ \A y \in {high, -1} : high >= y
        BY <1>1
      <4>3. Max({high, -1}) = high
        BY <4>1, <4>2 DEF Max
      <4>. QED BY <1>1, <2>2, <3>1, <4>3
    <3>. QED BY <3>2
  <2>3. ASSUME offset # -1 PROVE high' \in 0..Len(binlog) /\ offset <= high'
    <3>1. offset \in -1..high + 1
      BY DEF TypesInv, TypeOK
    <3>2. offset > high => offset \in DOMAIN binlog
      BY CutOffIs
    <3>3. offset \in 0..Len(binlog)
      <4>1. CASE offset > high
        <5>1. DOMAIN binlog = 1..Len(binlog)
          BY <1>1, BinlogType
        <5>. QED BY <1>1, <3>2, <4>1, <5>1
      <4>2. CASE ~(offset > high)
        BY <1>1, <2>3, <3>1, <4>2
      <4>. QED BY <4>1, <4>2
    <3>4. Max({high, offset}) \in 0..Len(binlog) /\ offset <= Max({high, offset})
      BY <1>1, <3>3, LargerOfTwo
    <3>. QED BY <2>1, <3>4
  <2>4. high' \in 0..Len(binlog) /\ offset <= high'
    BY <2>2, <2>3
  <2>5. missed' \subseteq (1..Len(binlog)) \X PrimaryKeys
    BY <2>1, CutOffIs DEF TypesInv, TypeOK
  <2>6. offset \in Int /\ offset >= -1 /\ run \in Nat /\ MaxCrashes \in Nat
        /\ DOMAIN view = PrimaryKeys
    BY <1>1, RowViewAssumption DEF TypesInv, TypeOK
  <2>7. TypeOK'
    BY <1>1, <2>1, <2>4, <2>5, <2>6 DEF TypesInv, TypeOK
  <2>8. ReaderInv'
    BY <1>1, <2>1, <2>4, <2>6 DEF ReaderInv, CutInv, NoReport
  <2>. QED BY <1>1, <2>1, <2>7, <2>8 DEF TypesInv
<1>. USE DEF TypesInv, TypeOK, ReaderInv, CutInv
<1>3. CASE OpenView
  BY <1>1, <1>3 DEF OpenView, BetweenTransactions, parserVars, viewVars, offsetVars
<1>4. CASE ReadPosition
  <2>1. snapAt' \in 0..Len(binlog)
    BY <1>1, <1>4 DEF ReadPosition, BetweenTransactions
  <2>2. missed' \subseteq (1..Len(binlog)) \X PrimaryKeys
    BY <1>1, <1>4, <2>1, ChangedInType DEF ReadPosition
  <2>. QED BY <1>1, <1>4, <2>1, <2>2 DEF ReadPosition, parserVars, offsetVars
<1>5. CASE FetchChunk
  <2>1. DOMAIN view' = PrimaryKeys
    BY <1>5 DEF FetchChunk
  <2>. QED BY <1>5, <2>1 DEF FetchChunk, parserVars, offsetVars
<1>6. CASE SnapshotComplete
  <2>1. high' \in 0..Len(binlog) /\ high <= high' /\ snapAt <= high'
    BY <1>1, <1>6, LargerOfTwo DEF SnapshotComplete
  <2>. QED BY <1>1, <1>6, <2>1 DEF SnapshotComplete, StartBehind, NoReport
<1>7. CASE StartFromOffset
  BY <1>1, <1>7 DEF StartFromOffset, StartBehind, viewVars, offsetVars, NoReport
<1>8. CASE Acknowledge
  <2>1. /\ UNCHANGED <<binlog, run, next, row, currentTx, reported, view, high, missed,
                       phase, snapView, snapAt, interrupted>>
        /\ phase = "stream"
        /\ committed' \in {committed, reported.event} /\ offset' \in {offset, committed'}
    BY <1>8 DEF Acknowledge, parserVars, viewVars, snapVars
  <2>2. reported.event \in Int /\ reported.event <= high + 1 /\ reported.event >= 0
        /\ (reported.event > high => reported.event = next /\ next = high + 1 /\ row > 0)
    BY <1>1, <2>1
  <2>3. \A o \in {offset, committed, reported.event} :
           o \in -1..high + 1 /\ (o > high => o = next /\ next = high + 1 /\ row > 0)
    BY <1>1, <2>1, <2>2
  <2>4. committed' \in {offset, committed, reported.event}
        /\ offset' \in {offset, committed, reported.event}
    BY <2>1
  <2>5. offset' # -1 /\ committed' # -1
    BY <1>1, <2>1, <2>2
  <2>. QED BY <1>1, <2>1, <2>3, <2>4, <2>5
<1>9. CASE UNCHANGED vars
  BY <1>9 DEF vars, parserVars, viewVars, snapVars, offsetVars
<1>. QED
  BY <1>3, <1>4, <1>5, <1>6, <1>7, <1>8, <1>9, <1>2, StreamTypes DEF Next, ReaderStep

(* The reader stays within the binlog and within the rows of its event,    *)
(* and no position is further than one event ahead of what was read to the *)
(* end, over crashes and snapshots.                                        *)
THEOREM TypeCorrect == Spec => []TypeOK
<1>1. TypesInv => TypeOK
  BY DEF TypesInv
<1>. QED BY <1>1, InitTypes, NextTypes, PTL DEF Spec

-----------------------------------------------------------------------------
(* Transaction ids.                                                        *)
(*                                                                         *)
(* An id names the event at which it was made and the process that made    *)
(* it (IdInv).  That an event of a transaction whose BEGIN this process    *)
(* has read gets the id of the BEGIN needs more: until its end is read,    *)
(* the transaction is the open one and goes on with the next event         *)
(* (OpenInv).                                                              *)
MadeAt(id, e, r) == e \in DOMAIN binlog /\ id = <<e, r>>

IdInv ==
    /\ currentTx # NoTx =>
          \E e \in DOMAIN binlog :
              /\ MadeAt(currentTx, e, run)
              /\ e < next
              /\ binlog[e].tx # 0
              /\ next <= Len(binlog) => binlog[next].tx = binlog[e].tx
    /\ \A a \in tags :
          /\ a.run \in 0..run
          /\ a.id # NoTx => \E e \in DOMAIN binlog : MadeAt(a.id, e, a.run) /\ binlog[e].tx = a.tx

WasRead(e) == e < next \/ (e = next /\ row > 0)
ReadInv ==
    \A a \in tags :
        a.run = run =>
            phase = "stream" /\ \E e \in DOMAIN binlog : WasRead(e) /\ binlog[e].tx = a.tx

OpenInv ==
    \A b \in tags :
        b.run = run /\ b.type = "tx_begin" =>
            \/ b.id = currentTx /\ b.id # NoTx
            \/ \A e \in DOMAIN binlog : e >= next => binlog[e].tx # b.tx

TagsInv == IdInv /\ ReadInv /\ OpenInv /\ TransactionsTagged

LEMMA IdIsNotNone == \A e, r \in Nat : <<e, r>> # NoTx
BY RowViewAssumption

LEMMA InitTags == Init => TagsInv
BY DEF Init, TagsInv, IdInv, ReadInv, OpenInv, TransactionsTagged

(* The source's transactions. *)
LEMMA TransactionsOfBinlog ==
    ASSUME NEW b \in Binlogs
    PROVE  /\ \A i \in DOMAIN b :
                 /\ b[i].kind \in {"begin", "commit", "xid"} => b[i].tx # 0
                 /\ b[i].tx # 0 /\ b[i].kind \notin {"commit", "xid"} /\ i < Len(b) =>
                       b[i + 1].tx = b[i].tx
           /\ \A i, j \in DOMAIN b : i < j /\ b[i].tx = b[j].tx /\ b[i].tx # 0 =>
                 b[j].kind # "begin" /\ b[i].kind \notin {"commit", "xid"}
BY BinlogsAssumption

TagOf(id, type) == [run |-> run, id |-> id, type |-> type, tx |-> binlog[next].tx]

(* Which id the event at hand is given. *)
LEMMA Callbacks ==
    ASSUME TypesInv, Stream
    PROVE  \/ /\ binlog[next].kind = "begin"
              /\ currentTx' = <<next, run>>
              /\ tags' = tags \cup {TagOf(<<next, run>>, "tx_begin")}
           \/ /\ binlog[next].kind # "begin"
              /\ currentTx' = IF binlog[next].kind \in {"commit", "xid"} THEN NoTx ELSE currentTx
              /\ \/ tags' = tags
                 \/ \E type \in {"tx_commit", "schema", "row"} :
                       \/ tags' = tags \cup {TagOf(currentTx, type)}
                       \/ /\ currentTx = NoTx
                          /\ tags' = tags \cup {TagOf(<<next, run>>, type)}
<1>. USE DEF Tag, TagOf, Reported
<1>1. /\ ReadEvent /\ phase = "stream"
      /\ tags' = IF reported'.event = next THEN tags \cup {Tag} ELSE tags
  BY DEF Stream
<1>2. next \in DOMAIN binlog /\ reported.event <= next /\ (row = 0 => reported.event < next)
      /\ (row > 0 => binlog[next].kind = "rows") /\ row \in Nat /\ reported.event \in Int
  BY <1>1, ReadSteps, BinlogType DEF TypesInv, ReaderInv, TypeOK
<1>3. CASE QueryBegin
  <2>1. reported' = [type |-> "tx_begin", tx |-> <<next, run>>, event |-> next, row |-> row']
    BY <1>3 DEF QueryBegin, Report, MakeTxId
  <2>. QED BY <1>1, <1>3, <2>1 DEF QueryBegin, Reading, Event, MakeTxId
<1>4. CASE Rotate
  BY <1>1, <1>2, <1>4 DEF Rotate, Reading, Event
<1>5. CASE Rows
  BY <1>1, <1>5 DEF Rows, Reading, Event
<1>6. CASE QueryOther
  <2>1. reported' = [type |-> "schema", tx |-> currentTx, event |-> next, row |-> row']
    BY <1>6 DEF QueryOther, Report
  <2>. QED BY <1>1, <1>6, <2>1 DEF QueryOther, Reading, Event
<1>7. CASE QueryCommit
  <2>1. reported' = [type |-> "tx_commit", tx |-> currentTx, event |-> next, row |-> row']
        \/ reported' = reported
    BY <1>7 DEF QueryCommit, Report
  <2>. QED BY <1>1, <1>2, <1>7, <2>1 DEF QueryCommit, Reading, Event
<1>8. CASE Xid
  <2>1. reported' = [type |-> "tx_commit", tx |-> IF currentTx = NoTx THEN <<next, run>> ELSE currentTx,
                     event |-> next, row |-> row']
    BY <1>8 DEF Xid, Report, MakeTxId
  <2>. QED BY <1>1, <1>8, <2>1 DEF Xid, Reading, Event
<1>. QED BY <1>1, <1>3, <1>4, <1>5, <1>6, <1>7, <1>8 DEF ReadEvent

(* What is known when an event is read. *)
LEMMA StreamReads ==
    ASSUME TypesInv, Stream
    PROVE  /\ binlog \in Binlogs /\ Len(binlog) \in Nat /\ DOMAIN binlog = 1..Len(binlog)
           /\ binlog' = binlog /\ run' = run /\ run \in Nat
           /\ phase = "stream" /\ phase' = "stream"
           /\ next \in Nat /\ next \in DOMAIN binlog /\ row \in Nat
           /\ \/ next' = next + 1 /\ row' = 0
              \/ next' = next /\ row' = row + 1 /\ binlog[next].kind = "rows"
           /\ row > 0 => binlog[next].kind = "rows"
<1>1. phase = "stream" /\ ReadEvent /\ binlog' = binlog /\ run' = run /\ phase' = phase
  BY DEF Stream, snapVars
<1>2. /\ binlog \in Binlogs /\ Len(binlog) \in Nat /\ DOMAIN binlog = 1..Len(binlog)
      /\ next \in Nat /\ row \in Nat /\ (row > 0 => binlog[next].kind = "rows")
  BY BinlogType DEF TypesInv, TypeOK, ReaderInv
<1>3. run \in Nat
  BY RowViewAssumption DEF TypesInv, TypeOK
<1>. QED BY <1>1, <1>2, <1>3, ReadSteps

LEMMA StreamIds == TypesInv /\ IdInv /\ Stream => IdInv'
<1>. SUFFICES ASSUME TypesInv, IdInv, Stream PROVE IdInv'
  OBVIOUS
<1>1. /\ binlog \in Binlogs /\ Len(binlog) \in Nat /\ DOMAIN binlog = 1..Len(binlog)
      /\ binlog' = binlog /\ run' = run /\ run \in Nat /\ next \in Nat /\ next \in DOMAIN binlog
      /\ \/ next' = next + 1
         \/ next' = next /\ binlog[next].kind = "rows"
  BY StreamReads
<1>2. currentTx' # NoTx =>
          \E e \in DOMAIN binlog :
              /\ currentTx' = <<e, run>>
              /\ e < next'
              /\ binlog[e].tx # 0
              /\ next' <= Len(binlog) => binlog[next'].tx = binlog[e].tx
  <2>. SUFFICES ASSUME currentTx' # NoTx
                PROVE  \E e \in DOMAIN binlog :
                           /\ currentTx' = <<e, run>>
                           /\ e < next'
                           /\ binlog[e].tx # 0
                           /\ next' <= Len(binlog) => binlog[next'].tx = binlog[e].tx
    OBVIOUS
  <2>1. CASE binlog[next].kind = "begin"
    <3>1. binlog[next].tx # 0 /\ (next < Len(binlog) => binlog[next + 1].tx = binlog[next].tx)
      BY <1>1, <2>1, TransactionsOfBinlog
    <3>2. currentTx' = <<next, run>> /\ next' = next + 1
      BY <1>1, <2>1, Callbacks
    <3>. QED BY <1>1, <3>1, <3>2
  <2>2. CASE binlog[next].kind # "begin"
    <3>1. currentTx' = currentTx /\ binlog[next].kind \notin {"commit", "xid"}
      BY <2>2, Callbacks
    <3>2. PICK e \in DOMAIN binlog :
              /\ currentTx = <<e, run>> /\ e < next /\ binlog[e].tx # 0
              /\ next <= Len(binlog) => binlog[next].tx = binlog[e].tx
      BY <3>1 DEF IdInv, MadeAt
    <3>3. binlog[next].tx = binlog[e].tx
      BY <1>1, <3>2
    <3>4. next < Len(binlog) => binlog[next + 1].tx = binlog[next].tx
      BY <1>1, <3>1, <3>2, <3>3, TransactionsOfBinlog
    <3>. QED BY <1>1, <3>1, <3>2, <3>3, <3>4
  <2>. QED BY <2>1, <2>2
<1>3. ASSUME NEW a \in tags'
      PROVE  /\ a.run \in 0..run
             /\ a.id # NoTx => \E e \in DOMAIN binlog : a.id = <<e, a.run>> /\ binlog[e].tx = a.tx
  <2>1. CASE a \in tags
    BY <2>1 DEF IdInv, MadeAt
  <2>2. CASE a.run = run /\ a.id = <<next, run>> /\ a.tx = binlog[next].tx
    BY <1>1, <2>2
  <2>3. CASE a.run = run /\ a.id = currentTx /\ a.tx = binlog[next].tx
    BY <1>1, <2>3 DEF IdInv, MadeAt
  <2>4. \/ a \in tags
        \/ a.run = run /\ a.id = <<next, run>> /\ a.tx = binlog[next].tx
        \/ a.run = run /\ a.id = currentTx /\ a.tx = binlog[next].tx
    BY Callbacks DEF TagOf
  <2>. QED BY <2>1, <2>2, <2>3, <2>4
<1>. QED BY <1>1, <1>2, <1>3 DEF IdInv, MadeAt

LEMMA StreamReadsTags == TypesInv /\ ReadInv /\ Stream => ReadInv'
<1>. SUFFICES ASSUME TypesInv, ReadInv, Stream, NEW a \in tags', a.run = run'
              PROVE  phase' = "stream" /\ \E e \in DOMAIN binlog' : WasRead(e)' /\ binlog'[e].tx = a.tx
  BY DEF ReadInv
<1>1. /\ binlog' = binlog /\ run' = run /\ phase' = "stream"
      /\ next \in Nat /\ next \in DOMAIN binlog /\ row \in Nat /\ DOMAIN binlog \subseteq Int
      /\ \/ next' = next + 1 /\ row' = 0
         \/ next' = next /\ row' = row + 1
  BY StreamReads
<1>2. a \in tags \/ a.tx = binlog[next].tx
  BY Callbacks DEF TagOf
<1>3. \A e \in DOMAIN binlog : WasRead(e) \/ e = next => WasRead(e)'
  BY <1>1 DEF WasRead
<1>. QED BY <1>1, <1>2, <1>3 DEF ReadInv

(* A BEGIN is given an id that no event of the transaction had before, and *)
(* the events behind it get the same.                                      *)
LEMMA StreamOpen == TypesInv /\ IdInv /\ OpenInv /\ Stream => OpenInv'
<1>. SUFFICES ASSUME TypesInv, IdInv, OpenInv, Stream,
                     NEW b \in tags', b.run = run', b.type = "tx_begin"
              PROVE  \/ b.id = currentTx' /\ b.id # NoTx
                     \/ \A e \in DOMAIN binlog' : e >= next' => binlog'[e].tx # b.tx
  BY DEF OpenInv
<1>1. /\ binlog \in Binlogs /\ Len(binlog) \in Nat /\ DOMAIN binlog = 1..Len(binlog)
      /\ binlog' = binlog /\ run' = run /\ run \in Nat /\ next \in Nat /\ next \in DOMAIN binlog
      /\ \/ next' = next + 1
         \/ next' = next /\ binlog[next].kind = "rows"
  BY StreamReads
<1>2. CASE b \notin tags
  <2>1. b.id = <<next, run>> /\ currentTx' = <<next, run>>
    BY <1>2, Callbacks DEF TagOf
  <2>. QED BY <1>1, <2>1, IdIsNotNone
<1>3. CASE b \in tags /\ ~(b.id = currentTx /\ b.id # NoTx)
  <2>1. \A e \in DOMAIN binlog : e >= next => binlog[e].tx # b.tx
    BY <1>1, <1>3 DEF OpenInv
  <2>. QED BY <1>1, <2>1
<1>4. CASE b \in tags /\ b.id = currentTx /\ b.id # NoTx
  <2>1. PICK e \in DOMAIN binlog :
            /\ currentTx = <<e, run>> /\ e < next /\ binlog[e].tx # 0
            /\ binlog[next].tx = binlog[e].tx
    BY <1>1, <1>4 DEF IdInv, MadeAt
  <2>2. b.tx = binlog[e].tx
    BY <1>1, <1>4, <2>1 DEF IdInv, MadeAt
  <2>3. binlog[next].kind # "begin"
    BY <1>1, <2>1, TransactionsOfBinlog
  <2>4. CASE binlog[next].kind \in {"commit", "xid"}
    <3>1. next' = next + 1
      BY <1>1, <2>4
    <3>2. \A j \in DOMAIN binlog : j > next => binlog[j].tx # binlog[next].tx
      BY <1>1, <2>1, <2>4, TransactionsOfBinlog
    <3>3. \A j \in DOMAIN binlog : j >= next' => j > next
      BY <1>1, <3>1
    <3>. QED BY <1>1, <2>1, <2>2, <3>2, <3>3
  <2>5. CASE binlog[next].kind \notin {"commit", "xid"}
    BY <1>4, <2>3, <2>5, Callbacks
  <2>. QED BY <2>4, <2>5
<1>. QED BY <1>2, <1>3, <1>4

LEMMA StreamTagged ==
    TypesInv /\ IdInv /\ ReadInv /\ OpenInv /\ TransactionsTagged /\ Stream => TransactionsTagged'
<1>. SUFFICES ASSUME TypesInv, IdInv, ReadInv, OpenInv, TransactionsTagged, Stream,
                     NEW a \in tags', NEW b \in tags'
              PROVE  /\ a.id = b.id /\ a.id # NoTx => a.tx = b.tx
                     /\ b.type = "tx_begin" /\ a.run = b.run /\ a.tx = b.tx => a.id = b.id
  BY DEF TransactionsTagged
<1>1. /\ binlog \in Binlogs /\ Len(binlog) \in Nat /\ DOMAIN binlog = 1..Len(binlog)
      /\ binlog' = binlog /\ run' = run /\ run \in Nat /\ next \in Nat /\ next \in DOMAIN binlog
      /\ row > 0 => binlog[next].kind = "rows"
  BY StreamReads
<1>2. ASSUME a.id = b.id, a.id # NoTx PROVE a.tx = b.tx
  <2>1. IdInv'
    BY StreamIds
  <2>2. PICK e \in DOMAIN binlog : a.id = <<e, a.run>> /\ binlog[e].tx = a.tx
    BY <1>1, <1>2, <2>1 DEF IdInv, MadeAt
  <2>3. PICK f \in DOMAIN binlog : b.id = <<f, b.run>> /\ binlog[f].tx = b.tx
    BY <1>1, <1>2, <2>1 DEF IdInv, MadeAt
  <2>4. <<e, a.run>>[1] = <<f, b.run>>[1]
    BY <1>2, <2>2, <2>3
  <2>5. e = f
    BY <2>4
  <2>. QED BY <2>2, <2>3, <2>5
<1>3. ASSUME b.type = "tx_begin", a.run = b.run, a.tx = b.tx PROVE a.id = b.id
  <2>1. CASE a \in tags /\ b \in tags
    BY <1>3, <2>1 DEF TransactionsTagged
  <2>2. CASE a \notin tags /\ b \notin tags
    BY <2>2, <1>3, Callbacks DEF TagOf
  <2>3. CASE a \in tags /\ b \notin tags
    <3>1. binlog[next].kind = "begin" /\ b.run = run /\ b.tx = binlog[next].tx
      BY <2>3, <1>3, Callbacks DEF TagOf
    <3>2. PICK e \in DOMAIN binlog : WasRead(e) /\ binlog[e].tx = a.tx
      BY <1>3, <2>3, <3>1 DEF ReadInv
    <3>3. e < next
      BY <1>1, <3>1, <3>2 DEF WasRead
    <3>. QED BY <1>1, <1>3, <3>1, <3>2, <3>3, TransactionsOfBinlog
  <2>4. CASE a \notin tags /\ b \in tags
    <3>1. /\ a.run = run /\ a.tx = binlog[next].tx
          /\ a.id = currentTx \/ currentTx = NoTx \/ binlog[next].kind = "begin"
      BY <2>4, Callbacks DEF TagOf
    <3>2. b.id = currentTx /\ b.id # NoTx
      <4>1. next >= next /\ next \in DOMAIN binlog /\ binlog[next].tx = b.tx
        BY <1>1, <1>3, <3>1
      <4>2. b.run = run
        BY <1>3, <3>1
      <4>. QED BY <1>3, <2>4, <4>1, <4>2 DEF OpenInv
    <3>3. PICK e \in DOMAIN binlog :
              e < next /\ binlog[e].tx # 0 /\ binlog[next].tx = binlog[e].tx
      BY <1>1, <3>2 DEF IdInv, MadeAt
    <3>4. binlog[next].kind # "begin"
      BY <1>1, <3>3, TransactionsOfBinlog
    <3>. QED BY <3>1, <3>2, <3>4
  <2>. QED BY <2>1, <2>2, <2>3, <2>4
<1>. QED BY <1>2, <1>3

LEMMA NextTags == TypesInv /\ TagsInv /\ [Next]_vars => TagsInv'
<1>. SUFFICES ASSUME TypesInv, TagsInv, [Next]_vars PROVE TagsInv'
  OBVIOUS
<1>1. CASE Stream
  BY <1>1, StreamIds, StreamReadsTags, StreamOpen, StreamTagged DEF TagsInv
<1>2. CASE SnapshotComplete \/ StartFromOffset
  <2>1. /\ UNCHANGED <<tags, binlog, run>> /\ phase # "stream" /\ phase' = "stream"
        /\ currentTx' = NoTx
    BY <1>2 DEF SnapshotComplete, StartFromOffset, StartBehind, viewVars
  <2>2. \A a \in tags : a.run # run
    BY <2>1 DEF TagsInv, ReadInv
  <2>3. IdInv'
    BY <2>1 DEF TagsInv, IdInv, MadeAt
  <2>4. ReadInv' /\ OpenInv' /\ TransactionsTagged'
    BY <2>1, <2>2 DEF TagsInv, ReadInv, OpenInv, TransactionsTagged
  <2>. QED BY <2>3, <2>4 DEF TagsInv
<1>3. CASE Restart
  <2>1. UNCHANGED <<tags, binlog>> /\ run' = run + 1 /\ currentTx' = NoTx /\ run \in Nat
    BY <1>3, RowViewAssumption DEF Restart, StartBehind, viewVars, TypesInv, TypeOK
  <2>2. \A a \in tags : a.run \in 0..run /\ a.run # run + 1 /\ a.run \in 0..run + 1
    BY <2>1 DEF TagsInv, IdInv
  <2>3. IdInv'
    BY <2>1, <2>2 DEF TagsInv, IdInv, MadeAt
  <2>4. ReadInv' /\ OpenInv' /\ TransactionsTagged'
    BY <2>1, <2>2 DEF TagsInv, ReadInv, OpenInv, TransactionsTagged
  <2>. QED BY <2>3, <2>4 DEF TagsInv
<1>4. CASE OpenView \/ ReadPosition \/ FetchChunk \/ Acknowledge \/ UNCHANGED vars
  <2>1. UNCHANGED <<tags, binlog, run, next, row, currentTx>>
    BY <1>4 DEF OpenView, ReadPosition, FetchChunk, Acknowledge, vars, viewVars, parserVars
  <2>2. phase = "stream" => phase' = "stream"
    BY <1>4 DEF OpenView, ReadPosition, FetchChunk, Acknowledge, vars, snapVars
  <2>3. IdInv' /\ OpenInv' /\ TransactionsTagged'
    BY <2>1 DEF TagsInv, IdInv, MadeAt, OpenInv, TransactionsTagged
  <2>4. ReadInv'
    BY <2>1, <2>2 DEF TagsInv, ReadInv, WasRead
  <2>. QED BY <2>3, <2>4 DEF TagsInv
<1>. QED BY <1>1, <1>2, <1>3, <1>4 DEF Next, ReaderStep

(* Ids never mix transactions: whatever is read again after a crash, and   *)
(* wherever a process starts to read, events with one id are of one        *)
(* transaction of the source, and all that is read of a transaction behind *)
(* its BEGIN has the id of the BEGIN.                                      *)
THEOREM IdsSeparateTransactions == Spec => []TransactionsTagged
<1>1. TypesInv /\ TagsInv /\ [Next]_vars => (TypesInv /\ TagsInv)'
  BY NextTypes, NextTags
<1>2. TagsInv => TransactionsTagged
  BY DEF TagsInv
<1>. QED BY <1>1, <1>2, InitTypes, InitTags, PTL DEF Spec

-----------------------------------------------------------------------------
(* The view of the consumer.                                               *)
(*                                                                         *)
(* SameWidth: no file number of the binlog has more digits than the first. *)
(* Beyond that positions do not grow with the log, and a row may keep an   *)
(* old value.                                                              *)
SameWidth == \A b \in Binlogs : \A i \in DOMAIN b : b[i].file < Wrap <=> FirstFile < Wrap

LEMMA PositionsGrow ==
    ASSUME SameWidth, binlog \in Binlogs, NEW i \in 0..Len(binlog), NEW j \in 0..Len(binlog)
    PROVE  Before(i, j) <=> i < j
<1>. DEFINE p(n) == PositionOf(n)
<1>1. Len(binlog) \in Nat /\ DOMAIN binlog = 1..Len(binlog)
  BY BinlogType
<1>2. FirstFile \in Nat /\ Wrap \in Nat
  BY RowViewAssumption
<1>3. \A n \in 0..Len(binlog) :
          /\ p(n).file \in Nat /\ p(n).pos \in Nat
          /\ p(n).file < Wrap <=> FirstFile < Wrap
  <2>. TAKE n \in 0..Len(binlog)
  <2>1. CASE n = 0
    BY <1>2, <2>1 DEF PositionOf
  <2>2. CASE n # 0
    <3>1. n \in DOMAIN binlog
      BY <1>1, <2>2
    <3>2. /\ binlog[n].file \in Nat /\ binlog[n].pos \in Nat
          /\ binlog[n].file < Wrap <=> FirstFile < Wrap
      BY <3>1, BinlogsAssumption DEF SameWidth
    <3>. QED BY <2>2, <3>2 DEF PositionOf
  <2>. QED BY <2>1, <2>2
<1>4. \A m, n \in 0..Len(binlog) : m < n =>
          p(m).file < p(n).file \/ (p(m).file = p(n).file /\ p(m).pos < p(n).pos)
  <2>. SUFFICES ASSUME NEW m \in 0..Len(binlog), NEW n \in 0..Len(binlog), m < n
                PROVE  p(m).file < p(n).file \/ (p(m).file = p(n).file /\ p(m).pos < p(n).pos)
    OBVIOUS
  <2>1. n \in DOMAIN binlog /\ n # 0
    BY <1>1
  <2>2. CASE m = 0
    <3>1. binlog[n].file \in Nat /\ binlog[n].pos \in Nat \ {0} /\ binlog[n].file >= FirstFile
      BY <2>1, BinlogsAssumption
    <3>. QED BY <1>2, <2>1, <2>2, <3>1 DEF PositionOf
  <2>3. CASE m # 0
    <3>1. m \in DOMAIN binlog
      BY <1>1, <2>3
    <3>. QED BY <2>1, <2>3, <3>1, BinlogsAssumption DEF PositionOf
  <2>. QED BY <2>2, <2>3
<1>5. Before(i, j) <=> IF p(i).file = p(j).file THEN p(i).pos < p(j).pos
                       ELSE p(i).file < p(j).file
  <2>1. /\ (p(i).file < Wrap) = (p(j).file < Wrap)
        /\ ~(p(i).file < Wrap /\ p(j).file >= Wrap)
        /\ ~(p(i).file >= Wrap /\ p(j).file < Wrap)
    BY <1>2, <1>3
  <2>2. P!NameLess(p(i).file, p(j).file) <=> p(i).file < p(j).file
    BY <2>1 DEF P!NameLess
  <2>. QED BY <2>2 DEF Before, P!PositionLess
<1>. HIDE DEF p
<1>6. CASE i < j
  BY <1>3, <1>4, <1>5, <1>6
<1>7. CASE j < i
  BY <1>3, <1>4, <1>5, <1>7
<1>8. CASE i = j
  BY <1>3, <1>5, <1>8
<1>. QED BY <1>6, <1>7, <1>8

(* The table behind an event, and what the event does to it: its changes   *)
(* leave their values under their dedup keys, and of the other keys only   *)
(* those disappear that were changed into others.                          *)
TableOf(b, n) == IF n = 0 THEN [k \in PrimaryKeys |-> 0] ELSE b[n].table
ChangesOf(b, n) == Range(b[n].changes)
ChangesKey(b, n, k) == \E c \in ChangesOf(b, n) : k \in Keys(c)
MovesAway(c, k) == c.old = k /\ c.new \notin {0, k}

LEMMA ChangesOfBinlog ==
    ASSUME NEW b \in Binlogs, NEW n \in DOMAIN b
    PROVE  /\ \A c \in ChangesOf(b, n) :
                 /\ DedupKey(c) \in PrimaryKeys /\ DedupKey(c) \in Keys(c)
                 /\ TableOf(b, n)[DedupKey(c)] = c.val
           /\ \A k \in PrimaryKeys :
                 ~ChangesKey(b, n, k) => TableOf(b, n)[k] = TableOf(b, n - 1)[k]
           /\ \A k \in PrimaryKeys :
                 ChangesKey(b, n, k) /\ (\A c \in ChangesOf(b, n) : DedupKey(c) # k) =>
                     TableOf(b, n)[k] = 0 /\ \E c \in ChangesOf(b, n) : MovesAway(c, k)
<1>. DEFINE changes == ChangesOf(b, n)
            table == b[n].table
            before == IF n = 1 THEN [k \in PrimaryKeys |-> 0] ELSE b[n - 1].table
<1>1. /\ \A c \in changes :
            /\ {c.old, c.new} \subseteq PrimaryKeys \cup {0}
            /\ c.new = 0 => c.old # 0 /\ c.val = 0 /\ \A d \in changes : d.new = 0
            /\ c.new # 0 => table[c.new] = c.val
            /\ c.old # 0 /\ (\A d \in changes : d.new # c.old) => table[c.old] = 0
      /\ \A k \in PrimaryKeys :
            (\A c \in changes : k \notin {c.old, c.new}) => table[k] = before[k]
  BY ChangesAssumption DEF ChangesOf
<1>2. n \in Nat /\ n >= 1
  BY BinlogType
<1>3. TableOf(b, n) = table /\ TableOf(b, n - 1) = before
  BY <1>2 DEF TableOf
<1>4. 0 \notin PrimaryKeys
  BY RowViewAssumption
<1>. HIDE DEF changes, table, before
<1>5. ASSUME NEW c \in changes
      PROVE  /\ DedupKey(c) \in PrimaryKeys /\ DedupKey(c) \in Keys(c)
             /\ table[DedupKey(c)] = c.val
  <2>1. CASE c.new # 0
    BY <1>1, <1>4, <2>1 DEF DedupKey, Keys
  <2>2. CASE c.new = 0
    <3>1. c.old # 0 /\ c.val = 0 /\ \A d \in changes : d.new # c.old
      BY <1>1, <2>2
    <3>. QED BY <1>1, <2>2, <3>1 DEF DedupKey, Keys
  <2>. QED BY <2>1, <2>2
<1>6. ASSUME NEW k \in PrimaryKeys, \A c \in changes : k \notin Keys(c)
      PROVE  table[k] = before[k]
  <2>1. \A c \in changes : k \notin {c.old, c.new}
    BY <1>4, <1>6 DEF Keys
  <2>. QED BY <1>1, <2>1
<1>7. ASSUME NEW k \in PrimaryKeys, \A c \in changes : DedupKey(c) # k,
             NEW c \in changes, k \in Keys(c)
      PROVE  table[k] = 0 /\ MovesAway(c, k)
  <2>1. k # 0
    BY <1>4
  <2>2. \A d \in changes : d.new # k
    BY <1>7, <2>1 DEF DedupKey
  <2>3. c.old = k /\ c.new # k /\ c.new # 0
    BY <1>7, <2>1, <2>2 DEF DedupKey, Keys
  <2>. QED BY <1>1, <2>1, <2>2, <2>3 DEF MovesAway
<1>. QED BY <1>3, <1>5, <1>6, <1>7 DEF changes, ChangesKey

(* What can be wrong with a row, for any binlog b and set M of changes that *)
(* are missed.                                                             *)
FinalOf(b, e, k, n) == e <= n /\ \A i \in e + 1 .. n : ~ChangesKey(b, i, k)
MissedOf(b, M, k, n) == \E e \in 1..n : <<e, k>> \in M /\ FinalOf(b, e, k, n)
MovedOf(b, k, n) ==
    \E e \in 1..n : (\E c \in ChangesOf(b, e) : MovesAway(c, k)) /\ FinalOf(b, e, k, n)

LEMMA SameAsOf ==
    /\ \A n : TableAt(n) = TableOf(binlog, n)
    /\ \A k, n : Missed(k, n) <=> MissedOf(binlog, missed, k, n)
    /\ \A k, n : MovedAway(k, n) <=> MovedOf(binlog, k, n)
<1>1. \A e, k : Changes(e, k) <=> ChangesKey(binlog, e, k)
  BY DEF Changes, ChangesKey, ChangesOf
<1>2. \A e, k, n : LastChange(e, k, n) <=> FinalOf(binlog, e, k, n)
  BY <1>1 DEF LastChange, FinalOf
<1>3. \A n : TableAt(n) = TableOf(binlog, n)
  BY DEF TableAt, TableOf
<1>4. \A k, n : Missed(k, n) <=> MissedOf(binlog, missed, k, n)
  BY <1>2 DEF Missed, MissedOf
<1>5. \A k, n : MovedAway(k, n) <=> MovedOf(binlog, k, n)
  BY <1>2 DEF MovedAway, MovedOf, MovesAway, ChangesOf
<1>. QED BY <1>3, <1>4, <1>5

LEMMA MissedGrows ==
    ASSUME NEW b, NEW M, NEW N, M \subseteq N, NEW k, NEW n
    PROVE  MissedOf(b, M, k, n) => MissedOf(b, N, k, n)
BY DEF MissedOf

(* An event that does not change a row leaves its latest change as it was.  *)
LEMMA LastChangeStays ==
    ASSUME NEW b, NEW M, NEW k, NEW n \in Nat \ {0}, ~ChangesKey(b, n, k)
    PROVE  /\ MissedOf(b, M, k, n - 1) => MissedOf(b, M, k, n)
           /\ MovedOf(b, k, n - 1) => MovedOf(b, k, n)
<1>1. ASSUME NEW e \in 1..n - 1, FinalOf(b, e, k, n - 1)
      PROVE  e \in 1..n /\ FinalOf(b, e, k, n)
  <2>1. \A i \in e + 1 .. n : i \in e + 1 .. n - 1 \/ i = n
    OBVIOUS
  <2>2. e <= n /\ e \in 1..n
    OBVIOUS
  <2>. QED BY <1>1, <2>1, <2>2 DEF FinalOf
<1>. QED BY <1>1 DEF MissedOf, MovedOf

(* If a row differs behind two events, one between them was the last to    *)
(* change it.                                                              *)
LEMMA RowDiffers ==
    ASSUME NEW b \in Binlogs, NEW k \in PrimaryKeys, NEW m \in 0..Len(b), NEW n \in 0..Len(b),
           m <= n, TableOf(b, m)[k] # TableOf(b, n)[k]
    PROVE  \E e \in m + 1 .. n : ChangesKey(b, e, k) /\ FinalOf(b, e, k, n)
<1>1. Len(b) \in Nat /\ DOMAIN b = 1..Len(b) /\ m \in Nat /\ n \in Nat
  BY BinlogType
<1>. DEFINE Events == {i \in m + 1 .. n : ChangesKey(b, i, k)}
<1>2. Events # {}
  <2>. SUFFICES ASSUME Events = {} PROVE FALSE
    OBVIOUS
  <2>. DEFINE Others == {i \in m..n : TableOf(b, i)[k] # TableOf(b, m)[k]}
  <2>1. Others \subseteq Nat /\ n \in Others
    BY <1>1
  <2>2. PICK i \in Others : \A j \in Others : i <= j
    BY <2>1, LeastNumber
  <2>3. i \in m..n /\ TableOf(b, i)[k] # TableOf(b, m)[k]
    BY <2>2
  <2>4. i # m /\ i \in m + 1 .. n /\ i - 1 \in m..n /\ i \in DOMAIN b /\ ~(i <= i - 1)
    BY <1>1, <2>3
  <2>5. TableOf(b, i - 1)[k] = TableOf(b, m)[k]
    BY <2>2, <2>4
  <2>6. ~ChangesKey(b, i, k)
    BY <2>4
  <2>. QED BY <2>3, <2>4, <2>5, <2>6, ChangesOfBinlog
<1>. DEFINE Behind == {n - e : e \in Events}
<1>3. Behind \subseteq Nat /\ Behind # {}
  <2>1. \A e \in Events : n - e \in Nat
    BY <1>1
  <2>. QED BY <1>2, <2>1
<1>4. PICK d \in Behind : \A f \in Behind : d <= f
  BY <1>3, LeastNumber
<1>5. PICK e \in Events : d = n - e
  BY <1>4
<1>6. \A i \in Events : i <= e
  <2>1. \A i \in Events : n - e <= n - i
    BY <1>4, <1>5
  <2>2. \A i \in Events : i \in Int
    BY <1>1
  <2>. QED BY <1>1, <2>1, <2>2
<1>7. e \in m + 1 .. n /\ ChangesKey(b, e, k)
  BY <1>5
<1>8. \A i \in e + 1 .. n : i \in m + 1 .. n /\ ~(i <= e)
  BY <1>1, <1>7
<1>9. FinalOf(b, e, k, n)
  BY <1>1, <1>6, <1>7, <1>8 DEF FinalOf
<1>. QED BY <1>7, <1>9

-----------------------------------------------------------------------------
(* Paging through a finite set of keys leaves none out.                    *)
UpTo(K, k) == {j \in K : j <= k}
RankIn(K, k) == Cardinality(UpTo(K, k))

LEMMA Ranks ==
    ASSUME NEW K, K \subseteq Nat, IsFiniteSet(K)
    PROVE  /\ \A k \in K : IsFiniteSet(UpTo(K, k)) /\ RankIn(K, k) \in Nat /\ RankIn(K, k) >= 1
           /\ \A k \in K : RankIn(K, k) <= Cardinality(K)
           /\ \A j, k \in K : j < k => RankIn(K, j) < RankIn(K, k)
<1>1. ASSUME NEW k \in K
      PROVE  /\ IsFiniteSet(UpTo(K, k)) /\ RankIn(K, k) \in Nat
             /\ RankIn(K, k) >= 1 /\ RankIn(K, k) <= Cardinality(K)
  <2>1. UpTo(K, k) \subseteq K
    BY DEF UpTo
  <2>2. IsFiniteSet(UpTo(K, k)) /\ RankIn(K, k) <= Cardinality(K)
    BY <2>1, FS_Subset DEF RankIn
  <2>3. RankIn(K, k) \in Nat
    BY <2>2, FS_CardinalityType DEF RankIn
  <2>4. k \in UpTo(K, k)
    BY DEF UpTo
  <2>5. RankIn(K, k) # 0
    BY <2>2, <2>4, FS_EmptySet DEF RankIn
  <2>. QED BY <2>2, <2>3, <2>5
<1>2. ASSUME NEW j \in K, NEW k \in K, j < k
      PROVE  RankIn(K, j) < RankIn(K, k)
  <2>1. UpTo(K, j) \subseteq UpTo(K, k)
    <3>1. \A i \in K : i <= j => i <= k
      BY <1>2
    <3>. QED BY <3>1 DEF UpTo
  <2>2. UpTo(K, j) # UpTo(K, k)
    <3>1. j \in Nat /\ k \in Nat
      OBVIOUS
    <3>2. ~(k <= j) /\ k <= k
      BY <1>2, <3>1
    <3>. QED BY <3>2 DEF UpTo
  <2>3. /\ IsFiniteSet(UpTo(K, k))
        /\ RankIn(K, j) \in Nat /\ RankIn(K, k) \in Nat
    BY <1>1
  <2>4. RankIn(K, j) <= RankIn(K, k) /\ RankIn(K, j) # RankIn(K, k)
    BY <2>1, <2>2, <2>3, FS_Subset DEF RankIn
  <2>. QED BY <2>3, <2>4
<1>. QED BY <1>1, <1>2

LEMMA NoneLeftOut ==
    ASSUME NEW K, K \subseteq Nat, IsFiniteSet(K), NEW m \in Nat,
           \A k \in K : RankIn(K, k) # m + 1
    PROVE  \A k \in K : RankIn(K, k) <= m
<1>. SUFFICES ASSUME NEW k0 \in K, ~(RankIn(K, k0) <= m) PROVE FALSE
  OBVIOUS
<1>. DEFINE Late == {k \in K : ~(RankIn(K, k) <= m)}
<1>1. Late \subseteq Nat /\ Late # {}
  OBVIOUS
<1>2. PICK k \in Late : \A j \in Late : k <= j
  BY <1>1, LeastNumber
<1>3. k \in K /\ k \in Nat /\ ~(RankIn(K, k) <= m)
  BY <1>2
<1>. DEFINE Less == {j \in K : j < k}
<1>4. Less \subseteq K /\ k \notin Less /\ UpTo(K, k) = Less \cup {k}
  <2>1. \A j \in K : j <= k <=> j < k \/ j = k
    BY <1>3
  <2>2. ~(k < k)
    BY <1>3
  <2>. QED BY <1>3, <2>1, <2>2 DEF UpTo
<1>5. IsFiniteSet(Less) /\ Cardinality(Less) \in Nat
  BY <1>4, FS_Subset, FS_CardinalityType
<1>6. RankIn(K, k) = Cardinality(Less) + 1
  BY <1>4, <1>5, FS_AddElement DEF RankIn
<1>7. Cardinality(Less) <= m
  <2>1. CASE Less = {}
    BY <2>1, FS_EmptySet
  <2>2. CASE Less # {}
    <3>. DEFINE C == Cardinality(K)
                D == {C - RankIn(K, j) : j \in Less}
    <3>1. C \in Nat
      BY FS_CardinalityType
    <3>2. \A j \in Less : RankIn(K, j) \in Nat /\ RankIn(K, j) <= C
      BY Ranks
    <3>3. D \subseteq Nat /\ D # {}
      <4>1. \A j \in Less : C - RankIn(K, j) \in Nat
        BY <3>1, <3>2
      <4>. QED BY <2>2, <4>1
    <3>4. PICK d \in D : \A e \in D : d <= e
      BY <3>3, LeastNumber
    <3>5. PICK j \in Less : d = C - RankIn(K, j)
      BY <3>4
    <3>6. \A i \in Less : RankIn(K, i) <= RankIn(K, j)
      BY <3>1, <3>2, <3>4, <3>5
    <3>7. \A i \in Less : i <= j
      <4>. SUFFICES ASSUME NEW i \in Less, ~(i <= j) PROVE FALSE
        OBVIOUS
      <4>1. j < i /\ i \in K /\ j \in K
        OBVIOUS
      <4>2. RankIn(K, j) < RankIn(K, i)
        BY <4>1, Ranks
      <4>. QED BY <3>2, <3>6, <4>2
    <3>8. UpTo(K, j) = Less
      <4>1. j \in K /\ j < k
        OBVIOUS
      <4>2. \A i \in K : i <= j => i < k
        BY <1>3, <4>1
      <4>. QED BY <3>7, <4>2 DEF UpTo
    <3>9. j \notin Late
      BY <1>2, <1>3
    <3>. QED BY <3>8, <3>9 DEF RankIn
  <2>. QED BY <2>1, <2>2
<1>8. RankIn(K, k) = m + 1
  BY <1>3, <1>5, <1>6, <1>7
<1>. QED BY <1>3, <1>8

-----------------------------------------------------------------------------
(* What the consumer has for a key is what the table held behind the event *)
(* it came with, unless a change up to there was missed, or nothing.       *)
Valid(b, M, v, k) ==
    /\ v[k].event \in -1..Len(b)
    /\ v[k].event = -1 => v[k] = Nothing
    /\ v[k].event # -1 =>
          v[k].val = TableOf(b, v[k].event)[k] \/ MissedOf(b, M, k, v[k].event)
ValueInv == \A k \in PrimaryKeys : Valid(binlog, missed, view, k)

(* And with all up to event h read, it is what the table holds, or newer,  *)
(* or there is a reason.                                                   *)
RowOk(b, M, v, h, k) ==
    \/ v[k].val = TableOf(b, h)[k]
    \/ v[k].event > h
    \/ MissedOf(b, M, k, h)
    \/ TableOf(b, h)[k] = 0 /\ MovedOf(b, k, h)
ExplainedInv ==
    \A k \in PrimaryKeys :
        RowOk(binlog, missed, view, high, k) \/ (interrupted /\ TableOf(binlog, high)[k] = 0)

(* The offset is never behind the snapshot, which is completed once.       *)
ProgressInv ==
    /\ chunkAt \in Nat
    /\ offset = -1 => high = 0
    /\ offset # -1 => snapAt <= offset /\ phase \notin {"view", "snapshot"}
    /\ offset <= committed
    /\ phase = "stream" => snapAt < next
    /\ phase = "view" => snapAt <= snapView
    /\ phase = "snapshot" => snapView <= snapAt

(* What is missed lies behind the place where reading goes on.             *)
MissedInv ==
    /\ \A x \in missed :
          /\ IF offset = -1 THEN x[1] <= snapAt ELSE x[1] <= offset
          /\ phase = "stream" => x[1] < next
    /\ phase = "snapshot" => ChangedIn(snapView + 1 .. snapAt) \subseteq missed

(* What was streamed, and what was read of a snapshot, has been seen.      *)
Holds(c, n) == view[DedupKey(c)].event >= n
SnapKeys == {k \in PrimaryKeys : TableOf(binlog, snapView)[k] # 0}
StreamedInv ==
    /\ offset # -1 =>
          \A n \in DOMAIN binlog : snapAt < n /\ n <= high =>
              \A c \in ChangesOf(binlog, n) : Holds(c, n) \/ <<n, DedupKey(c)>> \in missed
    /\ phase = "stream" => \A m \in 1..row : Holds(binlog[next].changes[m], next)
ChunkInv ==
    phase = "snapshot" =>
        \A k \in SnapKeys : RankIn(SnapKeys, k) <= chunkAt => view[k].event >= snapAt

(* The consumer has rows of no other snapshot, if none was interrupted.    *)
FreshInv ==
    offset = -1 /\ ~interrupted =>
        \A k \in PrimaryKeys :
            view[k] = Nothing \/ (phase = "snapshot" /\ chunkAt > 0 /\ view[k].event = snapAt)

ViewInv ==
    /\ ValueInv /\ ExplainedInv /\ ProgressInv /\ MissedInv
    /\ StreamedInv /\ ChunkInv /\ FreshInv

LEMMA ValidGrows ==
    ASSUME NEW b, NEW M, NEW N, M \subseteq N, NEW v, NEW k
    PROVE  Valid(b, M, v, k) => Valid(b, N, v, k)
BY MissedGrows DEF Valid

LEMMA RowOkGrows ==
    ASSUME NEW b, NEW M, NEW N, M \subseteq N, NEW v, NEW h, NEW k
    PROVE  RowOk(b, M, v, h, k) => RowOk(b, N, v, h, k)
BY MissedGrows DEF RowOk

(* Before anything was streamed every row is newer, or as it should be.    *)
LEMMA RowOkAtStart ==
    ASSUME NEW b \in Binlogs, NEW M, NEW v, NEW k \in PrimaryKeys, Valid(b, M, v, k)
    PROVE  RowOk(b, M, v, 0, k)
<1>1. v[k].event \in -1..Len(b) /\ Len(b) \in Nat
  BY BinlogType DEF Valid
<1>2. TableOf(b, 0)[k] = 0
  BY DEF TableOf
<1>3. CASE v[k].event = -1
  BY <1>2, <1>3 DEF Valid, RowOk, Nothing
<1>4. CASE v[k].event = 0
  BY <1>4 DEF Valid, RowOk
<1>5. CASE v[k].event > 0
  BY <1>5 DEF RowOk
<1>. QED BY <1>1, <1>3, <1>4, <1>5

(* One more event n was read to its end, or the rest of it was cut off.    *)
LEMMA NextEvent ==
    ASSUME NEW b \in Binlogs, NEW n \in DOMAIN b, NEW M, NEW N, M \subseteq N,
           NEW v, NEW w, NEW k \in PrimaryKeys,
           Valid(b, N, w, k),
           w[k] = v[k] \/ w[k].event = n,
           \A c \in ChangesOf(b, n) :
               \/ w[DedupKey(c)].event >= n
               \/ \A j \in Keys(c) : <<n, j>> \in N
    PROVE  /\ RowOk(b, M, v, n - 1, k) => RowOk(b, N, w, n, k)
           /\ TableOf(b, n - 1)[k] = 0 => RowOk(b, N, w, n, k) \/ TableOf(b, n)[k] = 0
<1>1. Len(b) \in Nat /\ n \in 1..Len(b) /\ n \in Nat \ {0} /\ w[k].event \in Int
  BY BinlogType DEF Valid
<1>2. CASE w[k].event >= n
  <2>1. CASE w[k].event = n
    BY <1>1, <2>1 DEF Valid, RowOk
  <2>2. CASE w[k].event # n
    BY <1>1, <1>2, <2>2 DEF RowOk
  <2>. QED BY <2>1, <2>2
<1>3. CASE ~(w[k].event >= n) /\ ~ChangesKey(b, n, k)
  <2>1. w[k] = v[k] /\ ~(v[k].event > n - 1)
    BY <1>1, <1>3
  <2>2. TableOf(b, n)[k] = TableOf(b, n - 1)[k]
    BY <1>3, ChangesOfBinlog
  <2>3. /\ MissedOf(b, M, k, n - 1) => MissedOf(b, N, k, n)
        /\ MovedOf(b, k, n - 1) => MovedOf(b, k, n)
    BY <1>1, <1>3, LastChangeStays, MissedGrows
  <2>. QED BY <2>1, <2>2, <2>3 DEF RowOk
<1>4. CASE ~(w[k].event >= n) /\ ChangesKey(b, n, k)
  <2>1. FinalOf(b, n, k, n) /\ n \in 1..n
    BY <1>1 DEF FinalOf
  <2>2. CASE <<n, k>> \in N
    BY <2>1, <2>2 DEF RowOk, MissedOf
  <2>3. CASE <<n, k>> \notin N
    <3>1. \A c \in ChangesOf(b, n) : DedupKey(c) # k
      <4>. SUFFICES ASSUME NEW c \in ChangesOf(b, n), DedupKey(c) = k PROVE FALSE
        OBVIOUS
      <4>1. k \in Keys(c)
        BY ChangesOfBinlog
      <4>. QED BY <1>4, <2>3, <4>1
    <3>2. TableOf(b, n)[k] = 0 /\ \E c \in ChangesOf(b, n) : MovesAway(c, k)
      BY <1>4, <3>1, ChangesOfBinlog
    <3>3. MovedOf(b, k, n)
      BY <2>1, <3>2 DEF MovedOf
    <3>. QED BY <3>2, <3>3 DEF RowOk
  <2>. QED BY <2>2, <2>3
<1>. QED BY <1>2, <1>3, <1>4

LEMMA InitView == Init => ViewInv
<1>. SUFFICES ASSUME Init PROVE ViewInv
  OBVIOUS
<1>1. /\ binlog \in Binlogs /\ phase = "new" /\ snapAt = 0 /\ chunkAt = 0 /\ high = 0
      /\ committed = -1 /\ offset = -1 /\ missed = {}
      /\ \A k \in PrimaryKeys : view[k] = Nothing
  BY DEF Init
<1>2. Len(binlog) \in Nat
  BY <1>1, BinlogType
<1>3. Nothing.event = -1 /\ Nothing.val = 0
  BY DEF Nothing
<1>4. ValueInv
  BY <1>1, <1>2, <1>3 DEF ValueInv, Valid
<1>5. ProgressInv /\ MissedInv /\ StreamedInv /\ ChunkInv /\ FreshInv
  BY <1>1 DEF ProgressInv, MissedInv, StreamedInv, ChunkInv, FreshInv
<1>6. ExplainedInv
  BY <1>1, <1>4, RowOkAtStart DEF ExplainedInv, ValueInv
<1>. QED BY <1>4, <1>5, <1>6 DEF ViewInv

(* A delivery replaces what the consumer has for its key, unless that is   *)
(* as recent.                                                              *)
LEMMA Collapsed ==
    ASSUME SameWidth, TypesInv, ValueInv,
           NEW k \in PrimaryKeys, NEW i \in 0..Len(binlog), NEW val,
           val = TableOf(binlog, i)[k] \/ MissedOf(binlog, missed, k, i)
    PROVE  LET v == Collapse(view, k, i, val)
           IN  /\ \A j \in PrimaryKeys :
                      Valid(binlog, missed, v, j) /\ v[j].event >= view[j].event
               /\ \A j \in PrimaryKeys \ {k} : v[j] = view[j]
               /\ v[k].event >= i
               /\ v[k] = view[k] \/ v[k].event = i
               /\ view[k].event >= i => v = view
<1>. DEFINE v == Collapse(view, k, i, val)
            new == [event |-> i, val |-> val]
<1>1. DOMAIN view = PrimaryKeys /\ binlog \in Binlogs /\ Len(binlog) \in Nat
  BY BinlogType DEF TypesInv, TypeOK
<1>2. /\ \A j \in PrimaryKeys : view[j].event \in -1..Len(binlog)
      /\ \A j \in PrimaryKeys : view[j] = Nothing <=> view[j].event = -1
  BY DEF ValueInv, Valid, Nothing
<1>3. view[k].event # -1 => (Before(view[k].event, i) <=> view[k].event < i)
  BY <1>1, <1>2, PositionsGrow
<1>4. CASE view[k].event < i
  <2>1. v = [view EXCEPT ![k] = new]
    BY <1>2, <1>3, <1>4 DEF Collapse
  <2>2. v[k] = new /\ \A j \in PrimaryKeys \ {k} : v[j] = view[j]
    BY <1>1, <2>1
  <2>3. new.event = i /\ new.val = val
    OBVIOUS
  <2>. HIDE DEF v, new
  <2>4. Valid(binlog, missed, v, k)
    BY <1>1, <2>2, <2>3 DEF Valid
  <2>5. \A j \in PrimaryKeys \ {k} :
            Valid(binlog, missed, v, j) /\ v[j].event >= view[j].event
    BY <1>2, <2>2 DEF ValueInv, Valid
  <2>6. v[k].event >= view[k].event /\ v[k].event >= i /\ ~(view[k].event >= i)
    BY <1>2, <1>4, <2>2, <2>3
  <2>7. v[k].event = i
    BY <2>2, <2>3
  <2>. QED BY <2>2, <2>4, <2>5, <2>6, <2>7 DEF v
<1>5. CASE ~(view[k].event < i)
  <2>1. view[k].event # -1
    BY <1>5
  <2>2. v = view
    BY <1>2, <1>3, <1>5, <2>1 DEF Collapse
  <2>3. view[k].event >= i /\ \A j \in PrimaryKeys : view[j].event >= view[j].event
    BY <1>2, <1>5
  <2>. HIDE DEF v, new
  <2>. QED BY <2>2, <2>3 DEF ValueInv, v
<1>. QED BY <1>4, <1>5

-----------------------------------------------------------------------------
(* Streaming.                                                              *)
LEMMA HighSteps ==
    ASSUME TypesInv, Stream
    PROVE  /\ high \in Nat /\ next <= high + 1
           /\ \/ next' = next + 1 /\ next <= high /\ high' = high
              \/ next' = next + 1 /\ next = high + 1 /\ high' = next
              \/ next' = next /\ high' = high
<1>1. /\ phase = "stream" /\ next \in Nat /\ next \in DOMAIN binlog
      /\ Len(binlog) \in Nat /\ DOMAIN binlog = 1..Len(binlog)
      /\ next' = next + 1 \/ next' = next
  BY StreamReads
<1>2. high \in 0..Len(binlog)
  BY DEF TypesInv, TypeOK
<1>3. next - 1 <= high
  BY <1>1 DEF TypesInv, ReaderInv
<1>4. high' = Max({high, next' - 1})
  BY DEF Stream
<1>5. next' - 1 \in 0..Len(binlog)
  BY <1>1
<1>6. high' = IF high >= next' - 1 THEN high ELSE next' - 1
  BY <1>1, <1>2, <1>4, <1>5, LargerOfTwo
<1>7. CASE next' = next
  BY <1>1, <1>2, <1>3, <1>6, <1>7
<1>8. CASE next' = next + 1 /\ next <= high
  BY <1>1, <1>2, <1>6, <1>8
<1>9. CASE next' = next + 1 /\ ~(next <= high)
  BY <1>1, <1>2, <1>3, <1>6, <1>9
<1>10. next <= high + 1
  BY <1>1, <1>2, <1>3
<1>. QED BY <1>1, <1>2, <1>7, <1>8, <1>9, <1>10

(* What a row does to the view: nothing if it was seen before. *)
LEMMA StreamViews ==
    ASSUME SameWidth, TypesInv, ViewInv, Stream
    PROVE  LET n == next IN
           /\ \A k \in PrimaryKeys :
                 /\ Valid(binlog, missed, view', k)
                 /\ view'[k].event \in Int /\ view[k].event \in Int
                 /\ view'[k].event >= view[k].event
                 /\ view'[k] = view[k] \/ view'[k].event = n
                 /\ (\A c \in ChangesOf(binlog, n) : DedupKey(c) # k) => view'[k] = view[k]
           /\ n <= high => view' = view
           /\ \A m \in 1..Len(binlog[n].changes) :
                 m <= row + 1 => /\ DedupKey(binlog[n].changes[m]) \in PrimaryKeys
                                 /\ view'[DedupKey(binlog[n].changes[m])].event >= n
<1>. DEFINE n == next
            changes == binlog[n].changes
            c == changes[row + 1]
<1>1. /\ binlog \in Binlogs /\ Len(binlog) \in Nat /\ DOMAIN binlog = 1..Len(binlog)
      /\ binlog' = binlog /\ phase = "stream" /\ n \in Nat /\ n \in DOMAIN binlog /\ row \in Nat
  BY StreamReads
<1>2. Len(changes) \in Nat /\ DOMAIN changes = 1..Len(changes)
      /\ (binlog[n].kind = "rows" <=> Len(changes) > 0)
  BY <1>1, ChangesType
<1>3. /\ \A m \in 1..Len(changes) :
            changes[m] \in ChangesOf(binlog, n) /\ DedupKey(changes[m]) \in PrimaryKeys
      /\ \A d \in ChangesOf(binlog, n) : TableOf(binlog, n)[DedupKey(d)] = d.val
  BY <1>1, <1>2, ChangesOfBinlog DEF ChangesOf, Range
<1>4. \A k \in PrimaryKeys : view[k].event \in Int /\ Valid(binlog, missed, view, k)
  BY <1>1 DEF ViewInv, ValueInv, Valid
<1>5. CASE binlog[n].kind # "rows"
  <2>1. view' = view
    BY <1>5 DEF Stream, Consume
  <2>2. \A k \in PrimaryKeys : Valid(binlog, missed, view', k)
    BY <1>4, <2>1
  <2>3. \A m \in 1..Len(changes) : FALSE
    BY <1>2, <1>5
  <2>. QED BY <1>4, <2>1, <2>2, <2>3
<1>6. CASE binlog[n].kind = "rows"
  <2>1. row + 1 \in 1..Len(changes)
    <3>1. row + 1 <= Len(changes)
      BY <1>1, <1>2, <1>6, ReadSteps DEF Stream
    <3>. QED BY <1>1, <1>2, <3>1
  <2>2. c \in ChangesOf(binlog, n) /\ DedupKey(c) \in PrimaryKeys
        /\ c.val = TableOf(binlog, n)[DedupKey(c)] /\ n \in 0..Len(binlog)
    BY <1>1, <1>3, <2>1
  <2>3. view' = Collapse(view, DedupKey(c), n, c.val)
    BY <1>6 DEF Stream, Consume
  <2>. HIDE DEF n, changes, c
  <2>4. /\ \A j \in PrimaryKeys :
              Valid(binlog, missed, view', j) /\ view'[j].event >= view[j].event
        /\ \A j \in PrimaryKeys \ {DedupKey(c)} : view'[j] = view[j]
        /\ view'[DedupKey(c)].event >= n
        /\ view'[DedupKey(c)] = view[DedupKey(c)] \/ view'[DedupKey(c)].event = n
        /\ view[DedupKey(c)].event >= n => view' = view
    BY <2>2, <2>3, Collapsed DEF ViewInv
  <2>5. \A j \in PrimaryKeys : view'[j].event \in Int
    BY <1>1, <2>4 DEF Valid
  <2>6. n <= high => view' = view
    <3>. SUFFICES ASSUME n <= high PROVE view[DedupKey(c)].event >= n
      BY <2>4
    <3>1. offset # -1 /\ snapAt < n
      BY <1>1 DEF n, TypesInv, ReaderInv, ViewInv, ProgressInv
    <3>2. <<n, DedupKey(c)>> \notin missed
      <4>. SUFFICES ASSUME <<n, DedupKey(c)>> \in missed PROVE FALSE
        OBVIOUS
      <4>1. <<n, DedupKey(c)>>[1] < n
        BY <1>1 DEF n, ViewInv, MissedInv
      <4>. QED BY <1>1, <4>1
    <3>. QED BY <1>1, <2>2, <3>1, <3>2 DEF ViewInv, StreamedInv, Holds
  <2>7. ASSUME NEW m \in 1..Len(changes), m <= row + 1
        PROVE  view'[DedupKey(changes[m])].event >= n
    <3>1. CASE m = row + 1
      BY <2>4, <3>1 DEF c
    <3>2. CASE m # row + 1
      <4>1. m \in 1..row
        BY <1>1, <1>2, <2>7, <3>2
      <4>2. view[DedupKey(changes[m])].event >= n
        BY <1>1, <4>1 DEF n, changes, ViewInv, StreamedInv, Holds
      <4>3. view'[DedupKey(changes[m])].event >= view[DedupKey(changes[m])].event
        BY <1>3, <2>4, <2>7
      <4>4. view'[DedupKey(changes[m])].event \in Int /\ view[DedupKey(changes[m])].event \in Int
        BY <1>3, <1>4, <2>5, <2>7
      <4>. QED BY <1>1, <4>2, <4>3, <4>4
    <3>. QED BY <3>1, <3>2
  <2>8. \A k \in PrimaryKeys : (\A d \in ChangesOf(binlog, n) : DedupKey(d) # k) => view'[k] = view[k]
    BY <2>2, <2>4
  <2>. QED BY <1>3, <1>4, <2>4, <2>5, <2>6, <2>7, <2>8 DEF n, changes
<1>. QED BY <1>5, <1>6

(* The event at hand has been delivered when the reader goes on. *)
LEMMA EventDelivered ==
    ASSUME SameWidth, TypesInv, ViewInv, Stream, next' = next + 1
    PROVE  \A c \in ChangesOf(binlog, next) : view'[DedupKey(c)].event >= next
<1>. DEFINE changes == binlog[next].changes
<1>1. /\ binlog \in Binlogs /\ Len(binlog) \in Nat /\ DOMAIN binlog = 1..Len(binlog)
      /\ phase = "stream" /\ next \in Nat /\ next \in DOMAIN binlog /\ row \in Nat
  BY StreamReads
<1>2. Len(changes) \in Nat /\ DOMAIN changes = 1..Len(changes)
      /\ (binlog[next].kind = "rows" <=> Len(changes) > 0)
  BY <1>1, ChangesType
<1>3. binlog[next].kind = "rows" => row + 1 = Len(changes)
  BY <1>1, ReadSteps DEF Stream
<1>4. \A m \in 1..Len(changes) : m <= row + 1
  BY <1>1, <1>2, <1>3
<1>. QED BY <1>2, <1>4, StreamViews DEF ChangesOf, Range

LEMMA StreamStreamed ==
    SameWidth /\ TypesInv /\ ViewInv /\ Stream =>
        ProgressInv' /\ MissedInv' /\ StreamedInv' /\ ChunkInv' /\ FreshInv'
<1>. SUFFICES ASSUME SameWidth, TypesInv, ViewInv, Stream
              PROVE  ProgressInv' /\ MissedInv' /\ StreamedInv' /\ ChunkInv' /\ FreshInv'
  OBVIOUS
<1>1. /\ binlog \in Binlogs /\ Len(binlog) \in Nat /\ DOMAIN binlog = 1..Len(binlog)
      /\ binlog' = binlog /\ phase = "stream" /\ phase' = "stream"
      /\ next \in Nat /\ next \in DOMAIN binlog /\ row \in Nat
      /\ \/ next' = next + 1 /\ row' = 0
         \/ next' = next /\ row' = row + 1 /\ binlog[next].kind = "rows"
  BY StreamReads
<1>2. /\ UNCHANGED <<snapView, snapAt, chunkAt, missed, committed, offset>>
      /\ offset # -1 /\ snapAt < next /\ snapAt \in Nat
      /\ chunkAt \in Nat /\ snapAt <= offset /\ offset <= committed
  BY <1>1 DEF Stream, snapVars, offsetVars, TypesInv, TypeOK, ReaderInv, ViewInv, ProgressInv
<1>3. ProgressInv' /\ MissedInv'
  <2>1. ProgressInv'
    BY <1>1, <1>2 DEF ProgressInv
  <2>2. \A x \in missed : x[1] \in Int
    BY <1>1 DEF TypesInv, TypeOK
  <2>. QED BY <1>1, <1>2, <2>1, <2>2 DEF ViewInv, MissedInv
<1>4. ChunkInv' /\ FreshInv'
  BY <1>1, <1>2 DEF ChunkInv, FreshInv
<1>5. ASSUME NEW j \in DOMAIN binlog, snapAt < j, j <= high', NEW c \in ChangesOf(binlog, j)
      PROVE  view'[DedupKey(c)].event >= j \/ <<j, DedupKey(c)>> \in missed
  <2>1. DedupKey(c) \in PrimaryKeys
    BY <1>1, ChangesOfBinlog
  <2>2. CASE j <= high
    <3>1. view[DedupKey(c)].event >= j \/ <<j, DedupKey(c)>> \in missed
      BY <1>2, <1>5, <2>2 DEF ViewInv, StreamedInv, Holds
    <3>2. /\ view'[DedupKey(c)].event >= view[DedupKey(c)].event
          /\ view[DedupKey(c)].event \in Int /\ view'[DedupKey(c)].event \in Int
      BY <2>1, StreamViews
    <3>. QED BY <1>1, <3>1, <3>2
  <2>3. CASE ~(j <= high)
    <3>1. j = next /\ next' = next + 1
      BY <1>1, <1>5, <2>3, HighSteps
    <3>. QED BY <3>1, <1>5, EventDelivered
  <2>. QED BY <2>2, <2>3
<1>6. ASSUME NEW m \in 1..row'
      PROVE  view'[DedupKey(binlog[next'].changes[m])].event >= next'
  <2>1. next' = next /\ row' = row + 1 /\ binlog[next].kind = "rows"
    BY <1>1
  <2>2. row + 1 <= Len(binlog[next].changes) /\ Len(binlog[next].changes) \in Nat
    BY <1>1, <2>1, ReadSteps, ChangesType DEF Stream
  <2>3. m \in 1..Len(binlog[next].changes) /\ m <= row + 1
    BY <1>1, <2>1, <2>2
  <2>. QED BY <2>1, <2>3, StreamViews
<1>7. StreamedInv'
  BY <1>1, <1>2, <1>5, <1>6 DEF StreamedInv, Holds, ChangesOf
<1>. QED BY <1>3, <1>4, <1>7

(* Unless the reader gets past the last event that was read, no row        *)
(* changes but for an event behind that.                                   *)
LEMMA StreamExplained == SameWidth /\ TypesInv /\ ViewInv /\ Stream => ExplainedInv'
<1>. SUFFICES ASSUME SameWidth, TypesInv, ViewInv, Stream PROVE ExplainedInv'
  OBVIOUS
<1>0. binlog' = binlog /\ interrupted' = interrupted /\ missed' = missed
  BY StreamReads DEF Stream, snapVars
<1>. SUFFICES ASSUME NEW k \in PrimaryKeys
              PROVE  \/ RowOk(binlog, missed, view', high', k)
                     \/ interrupted /\ TableOf(binlog, high')[k] = 0
  BY <1>0 DEF ExplainedInv
<1>1. binlog \in Binlogs /\ next \in Nat /\ next \in DOMAIN binlog
  BY StreamReads
<1>2. /\ high \in Nat /\ next <= high + 1
      /\ \/ next' = next + 1 /\ next <= high /\ high' = high
         \/ next' = next + 1 /\ next = high + 1 /\ high' = next
         \/ next' = next /\ high' = high
  BY HighSteps
<1>3. /\ Valid(binlog, missed, view', k) /\ view'[k].event \in Int
      /\ view'[k] = view[k] \/ view'[k].event = next
      /\ next <= high => view' = view
  BY StreamViews
<1>4. RowOk(binlog, missed, view, high, k) \/ (interrupted /\ TableOf(binlog, high)[k] = 0)
  BY DEF ViewInv, ExplainedInv
<1>5. CASE high' = high
  <2>1. CASE view'[k] = view[k]
    BY <1>4, <1>5, <2>1 DEF RowOk
  <2>2. CASE view'[k] # view[k]
    <3>1. view'[k].event > high
      BY <1>1, <1>2, <1>3, <2>2
    <3>. QED BY <1>5, <3>1 DEF RowOk
  <2>. QED BY <2>1, <2>2
<1>6. CASE next' = next + 1 /\ next = high + 1 /\ high' = next
  <2>1. \A c \in ChangesOf(binlog, next) : view'[DedupKey(c)].event >= next
    BY <1>6, EventDelivered
  <2>2. next - 1 = high
    BY <1>2, <1>6
  <2>. QED BY <1>1, <1>3, <1>4, <1>6, <2>1, <2>2, NextEvent
<1>. QED BY <1>2, <1>5, <1>6

-----------------------------------------------------------------------------
(* The snapshot.                                                           *)
LEMMA KeysType ==
    ASSUME TypesInv
    PROVE  SnapKeys \subseteq Nat /\ IsFiniteSet(SnapKeys) /\ SnapKeys \subseteq PrimaryKeys
<1>1. SnapKeys \subseteq PrimaryKeys
  BY DEF SnapKeys
<1>. QED BY <1>1, RowViewAssumption, FS_Subset

LEMMA ChunkIs ==
    Chunk = {k \in SnapKeys : RankIn(SnapKeys, k) \in chunkAt + 1 .. chunkAt + ChunkSize}
BY SameAsOf DEF Chunk, SnapKeys, RankIn, UpTo

(* A row that is not the same in the read view and at the position was     *)
(* changed in between, and that is missed.                                 *)
LEMMA GapMissed ==
    ASSUME TypesInv, ViewInv, phase = "snapshot", NEW k \in PrimaryKeys
    PROVE  \/ TableOf(binlog, snapView)[k] = TableOf(binlog, snapAt)[k]
           \/ MissedOf(binlog, missed, k, snapAt)
<1>. SUFFICES ASSUME TableOf(binlog, snapView)[k] # TableOf(binlog, snapAt)[k]
              PROVE  MissedOf(binlog, missed, k, snapAt)
  OBVIOUS
<1>1. /\ binlog \in Binlogs /\ snapView \in 0..Len(binlog) /\ snapAt \in 0..Len(binlog)
      /\ Len(binlog) \in Nat /\ snapView <= snapAt
  BY BinlogType DEF TypesInv, TypeOK, ViewInv, ProgressInv
<1>2. PICK e \in snapView + 1 .. snapAt :
          ChangesKey(binlog, e, k) /\ FinalOf(binlog, e, k, snapAt)
  BY <1>1, RowDiffers
<1>3. PICK c \in ChangesOf(binlog, e) : k \in Keys(c)
  BY <1>2 DEF ChangesKey
<1>4. <<e, k>> \in {e} \X Keys(c)
  BY <1>3
<1>5. <<e, k>> \in ChangedIn(snapView + 1 .. snapAt)
  BY <1>3, <1>4 DEF ChangedIn, ChangesOf
<1>6. <<e, k>> \in missed
  BY <1>5 DEF ViewInv, MissedInv
<1>7. e \in 1..snapAt
  BY <1>1
<1>. QED BY <1>2, <1>6, <1>7 DEF MissedOf

LEMMA OpenViewView == TypesInv /\ ViewInv /\ OpenView => ViewInv'
<1>. SUFFICES ASSUME TypesInv, ViewInv, OpenView PROVE ViewInv'
  OBVIOUS
<1>1. /\ UNCHANGED <<binlog, view, high, missed, snapAt, chunkAt, interrupted, committed, offset,
                     next, row>>
      /\ phase = "new" /\ phase' = "view" /\ offset = -1 /\ snapAt <= snapView'
  <2>1. snapAt <= snapView'
    BY BinlogType DEF OpenView, BetweenTransactions, TypesInv, TypeOK
  <2>. QED BY <2>1 DEF OpenView, viewVars, parserVars, offsetVars
<1>2. ValueInv' /\ ExplainedInv'
  BY <1>1 DEF ViewInv, ValueInv, ExplainedInv
<1>3. ProgressInv' /\ MissedInv' /\ StreamedInv'
  BY <1>1 DEF ViewInv, ProgressInv, MissedInv, StreamedInv
<1>4. ChunkInv' /\ FreshInv'
  BY <1>1 DEF ViewInv, ChunkInv, FreshInv
<1>. QED BY <1>2, <1>3, <1>4 DEF ViewInv

LEMMA ReadPositionView == TypesInv /\ ViewInv /\ ReadPosition => ViewInv'
<1>. SUFFICES ASSUME TypesInv, ViewInv, ReadPosition PROVE ViewInv'
  OBVIOUS
<1>1. /\ UNCHANGED <<binlog, view, high, snapView, interrupted, committed, offset, next, row>>
      /\ phase = "view" /\ phase' = "snapshot" /\ chunkAt' = 0
      /\ missed' = missed \cup ChangedIn(snapView + 1 .. snapAt')
      /\ snapAt' \in snapView..Len(binlog)
  BY DEF ReadPosition, BetweenTransactions, parserVars, offsetVars
<1>2. offset = -1 /\ high = 0 /\ snapAt <= snapView
  BY <1>1 DEF ViewInv, ProgressInv
<1>3. snapAt \in Int /\ snapView \in Int /\ snapAt' \in Int /\ snapView <= snapAt'
      /\ snapAt <= snapAt'
  BY <1>1, <1>2, BinlogType DEF TypesInv, TypeOK
<1>4. ValueInv' /\ ExplainedInv'
  BY <1>1, ValidGrows, RowOkGrows DEF ViewInv, ValueInv, ExplainedInv
<1>5. ProgressInv'
  BY <1>1, <1>2, <1>3 DEF ViewInv, ProgressInv
<1>6. MissedInv'
  <2>1. \A x \in missed : x[1] \in Int /\ x[1] <= snapAt
    BY <1>2, BinlogType DEF ViewInv, MissedInv, TypesInv, TypeOK
  <2>2. \A x \in ChangedIn(snapView + 1 .. snapAt') : x[1] <= snapAt'
    <3>1. \A x \in ChangedIn(snapView + 1 .. snapAt') : x[1] \in snapView + 1 .. snapAt'
      BY DEF ChangedIn
    <3>. QED BY <1>3, <3>1
  <2>3. \A x \in missed' : x[1] <= snapAt'
    BY <1>1, <1>3, <2>1, <2>2
  <2>4. ChangedIn(snapView + 1 .. snapAt)' \subseteq missed'
    BY <1>1 DEF ChangedIn
  <2>5. offset' = -1 /\ phase' = "snapshot"
    BY <1>1, <1>2
  <2>. QED BY <2>3, <2>4, <2>5 DEF MissedInv
<1>7. StreamedInv' /\ FreshInv'
  BY <1>1, <1>2 DEF ViewInv, StreamedInv, FreshInv
<1>8. ChunkInv'
  <2>1. \A k \in SnapKeys : ~(RankIn(SnapKeys, k) <= 0)
    <3>1. \A k \in SnapKeys : RankIn(SnapKeys, k) \in Nat /\ RankIn(SnapKeys, k) >= 1
      BY KeysType, Ranks
    <3>. QED BY <3>1
  <2>. QED BY <1>1, <2>1 DEF ChunkInv, SnapKeys, RankIn, UpTo
<1>. QED BY <1>4, <1>5, <1>6, <1>7, <1>8 DEF ViewInv

LEMMA FetchChunkView == SameWidth /\ TypesInv /\ ViewInv /\ FetchChunk => ViewInv'
<1>. SUFFICES ASSUME SameWidth, TypesInv, ViewInv, FetchChunk PROVE ViewInv'
  OBVIOUS
<1>1. /\ UNCHANGED <<binlog, phase, snapView, snapAt, high, missed, committed, offset,
                     interrupted, next, row>>
      /\ phase = "snapshot" /\ chunkAt' = chunkAt + ChunkSize
      /\ view' = [k \in PrimaryKeys |->
                    IF k \in Chunk THEN Collapse(view, k, snapAt, TableAt(snapView)[k])[k]
                    ELSE view[k]]
  BY DEF FetchChunk, parserVars, offsetVars
<1>2. /\ chunkAt \in Nat /\ ChunkSize \in Nat /\ ChunkSize > 0 /\ offset = -1 /\ high = 0
      /\ snapAt \in 0..Len(binlog) /\ Len(binlog) \in Nat /\ binlog \in Binlogs
  BY <1>1, RowViewAssumption, BinlogType DEF ViewInv, ProgressInv, TypesInv, TypeOK
<1>3. ASSUME NEW k \in PrimaryKeys
      PROVE  /\ Valid(binlog, missed, view', k) /\ view'[k].event >= view[k].event
             /\ view'[k] = view[k] \/ (view'[k].event = snapAt /\ k \in Chunk)
             /\ k \in Chunk => view'[k].event >= snapAt
  <2>1. CASE k \notin Chunk
    <3>1. view'[k] = view[k]
      BY <1>1, <2>1
    <3>2. Valid(binlog, missed, view, k) /\ view[k].event \in Int
      BY <1>2 DEF ViewInv, ValueInv, Valid
    <3>. QED BY <2>1, <3>1, <3>2 DEF Valid
  <2>2. CASE k \in Chunk
    <3>. DEFINE v == Collapse(view, k, snapAt, TableAt(snapView)[k])
    <3>1. view'[k] = v[k]
      BY <1>1, <2>2
    <3>2. \/ TableAt(snapView)[k] = TableOf(binlog, snapAt)[k]
          \/ MissedOf(binlog, missed, k, snapAt)
      BY <1>1, GapMissed, SameAsOf
    <3>3. /\ Valid(binlog, missed, v, k) /\ v[k].event >= view[k].event
          /\ v[k].event >= snapAt /\ (v[k] = view[k] \/ v[k].event = snapAt)
      BY <1>2, <3>2, Collapsed DEF ViewInv
    <3>. HIDE DEF v
    <3>. QED BY <2>2, <3>1, <3>3 DEF Valid
  <2>. QED BY <2>1, <2>2
<1>4. ValueInv' /\ ExplainedInv'
  BY <1>1, <1>2, <1>3, RowOkAtStart DEF ValueInv, ExplainedInv
<1>5. ProgressInv' /\ MissedInv' /\ StreamedInv'
  <2>1. ProgressInv' /\ StreamedInv'
    BY <1>1, <1>2 DEF ViewInv, ProgressInv, StreamedInv
  <2>2. ChangedIn(snapView + 1 .. snapAt)' = ChangedIn(snapView + 1 .. snapAt)
    BY <1>1 DEF ChangedIn
  <2>3. MissedInv'
    BY <1>1, <1>2, <2>2 DEF ViewInv, MissedInv
  <2>. QED BY <2>1, <2>3
<1>6. ChunkInv'
  <2>. SUFFICES ASSUME NEW k \in SnapKeys, RankIn(SnapKeys, k) <= chunkAt + ChunkSize
                PROVE  view'[k].event >= snapAt
    BY <1>1 DEF ChunkInv, SnapKeys, RankIn, UpTo
  <2>1. k \in PrimaryKeys /\ RankIn(SnapKeys, k) \in Nat
    BY KeysType, Ranks
  <2>2. CASE RankIn(SnapKeys, k) <= chunkAt
    <3>1. view[k].event >= snapAt /\ view'[k].event >= view[k].event
      BY <1>1, <1>3, <2>1, <2>2 DEF ViewInv, ChunkInv
    <3>2. view[k].event \in Int /\ view'[k].event \in Int
      BY <1>2, <1>3, <2>1 DEF ViewInv, ValueInv, Valid
    <3>. QED BY <1>2, <3>1, <3>2
  <2>3. CASE ~(RankIn(SnapKeys, k) <= chunkAt)
    <3>1. RankIn(SnapKeys, k) \in chunkAt + 1 .. chunkAt + ChunkSize
      BY <1>2, <2>1, <2>3
    <3>2. k \in Chunk
      BY <3>1, ChunkIs
    <3>. QED BY <1>3, <2>1, <3>2
  <2>. QED BY <2>2, <2>3
<1>7. FreshInv'
  <2>1. chunkAt' > 0
    BY <1>1, <1>2
  <2>2. \A k \in PrimaryKeys : view'[k] = view[k] \/ view'[k].event = snapAt
    BY <1>3
  <2>. QED BY <1>1, <1>2, <2>1, <2>2 DEF ViewInv, FreshInv
<1>. QED BY <1>4, <1>5, <1>6, <1>7 DEF ViewInv

(* When no chunk is left, the consumer has the whole table of the read     *)
(* view.                                                                   *)
LEMMA SnapshotCompleteView == TypesInv /\ ViewInv /\ SnapshotComplete => ViewInv'
<1>. SUFFICES ASSUME TypesInv, ViewInv, SnapshotComplete PROVE ViewInv'
  OBVIOUS
<1>1. /\ UNCHANGED <<binlog, view, missed, snapView, snapAt, chunkAt, interrupted>>
      /\ phase = "snapshot" /\ phase' = "stream" /\ Chunk = {}
      /\ committed' = snapAt /\ offset' = snapAt
      /\ next' = snapAt + 1 /\ row' = 0 /\ high' = Max({high, snapAt})
  BY DEF SnapshotComplete, StartBehind
<1>2. /\ chunkAt \in Nat /\ ChunkSize \in Nat \ {0} /\ offset = -1 /\ high = 0
      /\ snapAt \in 0..Len(binlog) /\ Len(binlog) \in Nat /\ binlog \in Binlogs
  BY <1>1, RowViewAssumption, BinlogType DEF ViewInv, ProgressInv, TypesInv, TypeOK
<1>3. high' = snapAt
  <2>1. 0 \in 0..Len(binlog)
    BY <1>2
  <2>2. Max({0, snapAt}) = IF 0 >= snapAt THEN 0 ELSE snapAt
    BY <1>2, <2>1, LargerOfTwo
  <2>. QED BY <1>1, <1>2, <2>2
<1>4. \A k \in SnapKeys : view[k].event >= snapAt
  <2>1. \A k \in SnapKeys : RankIn(SnapKeys, k) # chunkAt + 1
    <3>1. chunkAt + 1 \in chunkAt + 1 .. chunkAt + ChunkSize
      BY <1>2
    <3>. QED BY <1>1, <3>1, ChunkIs
  <2>2. \A k \in SnapKeys : RankIn(SnapKeys, k) <= chunkAt
    BY <1>2, <2>1, KeysType, NoneLeftOut
  <2>. QED BY <1>1, <2>2 DEF ViewInv, ChunkInv
<1>5. \A k \in PrimaryKeys : Valid(binlog, missed, view, k) /\ view[k].event \in Int
  BY <1>2 DEF ViewInv, ValueInv, Valid
<1>6. ValueInv'
  BY <1>1, <1>5 DEF ValueInv
<1>7. ProgressInv'
  BY <1>1, <1>2 DEF ViewInv, ProgressInv
<1>8. MissedInv'
  <2>1. \A x \in missed : x[1] \in Int /\ x[1] <= snapAt
    BY <1>2 DEF ViewInv, MissedInv, TypesInv, TypeOK
  <2>2. \A x \in missed : x[1] < snapAt + 1
    BY <1>2, <2>1
  <2>. QED BY <1>1, <1>2, <2>1, <2>2 DEF MissedInv
<1>9. StreamedInv'
  BY <1>1, <1>2, <1>3, BinlogType DEF StreamedInv
<1>10. ChunkInv' /\ FreshInv'
  BY <1>1, <1>2 DEF ChunkInv, FreshInv
<1>11. ExplainedInv'
  <2>. SUFFICES ASSUME NEW k \in PrimaryKeys
                PROVE  \/ RowOk(binlog, missed, view, snapAt, k)
                       \/ interrupted /\ TableOf(binlog, snapAt)[k] = 0
    BY <1>1, <1>3 DEF ExplainedInv
  <2>1. CASE view[k].event >= snapAt
    <3>1. CASE view[k].event = snapAt
      BY <1>2, <1>5, <3>1 DEF Valid, RowOk
    <3>2. CASE view[k].event # snapAt
      BY <1>2, <1>5, <2>1, <3>2 DEF RowOk
    <3>. QED BY <3>1, <3>2
  <2>2. CASE ~(view[k].event >= snapAt)
    <3>1. TableOf(binlog, snapView)[k] = 0
      BY <1>4, <2>2 DEF SnapKeys
    <3>2. CASE TableOf(binlog, snapAt)[k] # 0
      BY <1>1, <3>1, <3>2, GapMissed DEF RowOk
    <3>3. CASE TableOf(binlog, snapAt)[k] = 0 /\ ~interrupted
      <4>1. view[k] = Nothing
        BY <1>2, <2>2, <3>3 DEF ViewInv, FreshInv
      <4>. QED BY <3>3, <4>1 DEF RowOk, Nothing
    <3>. QED BY <3>2, <3>3
  <2>. QED BY <2>1, <2>2
<1>. QED BY <1>6, <1>7, <1>8, <1>9, <1>10, <1>11 DEF ViewInv

LEMMA StartFromOffsetView == TypesInv /\ ViewInv /\ StartFromOffset => ViewInv'
<1>. SUFFICES ASSUME TypesInv, ViewInv, StartFromOffset PROVE ViewInv'
  OBVIOUS
<1>1. /\ UNCHANGED <<binlog, view, high, missed, snapView, snapAt, chunkAt, interrupted,
                     committed, offset>>
      /\ phase' = "stream" /\ offset # -1 /\ next' = offset + 1 /\ row' = 0
  BY DEF StartFromOffset, StartBehind, viewVars, offsetVars
<1>2. offset \in Int /\ snapAt \in Int /\ snapAt <= offset
  <2>1. offset \in Int /\ snapAt \in Int
    BY BinlogType DEF TypesInv, TypeOK
  <2>. QED BY <1>1, <2>1 DEF ViewInv, ProgressInv
<1>3. ProgressInv'
  BY <1>1, <1>2 DEF ViewInv, ProgressInv
<1>4. MissedInv'
  <2>1. \A x \in missed : x[1] \in Int /\ x[1] <= offset
    BY <1>1, BinlogType DEF ViewInv, MissedInv, TypesInv, TypeOK
  <2>2. \A x \in missed : x[1] < offset + 1
    BY <1>2, <2>1
  <2>. QED BY <1>1, <2>1, <2>2 DEF MissedInv
<1>5. StreamedInv'
  BY <1>1 DEF ViewInv, StreamedInv, Holds, ChangesOf
<1>6. ValueInv' /\ ExplainedInv' /\ ChunkInv' /\ FreshInv'
  BY <1>1 DEF ViewInv, ValueInv, ExplainedInv, ChunkInv, FreshInv
<1>. QED BY <1>3, <1>4, <1>5, <1>6 DEF ViewInv

LEMMA AcknowledgeView == SameWidth /\ TypesInv /\ ViewInv /\ Acknowledge => ViewInv'
<1>. SUFFICES ASSUME SameWidth, TypesInv, ViewInv, Acknowledge PROVE ViewInv'
  OBVIOUS
<1>1. /\ UNCHANGED <<binlog, view, high, missed, snapView, snapAt, chunkAt, interrupted, phase,
                     next, row>>
      /\ phase = "stream"
      /\ committed' = IF Before(committed, reported.event) THEN reported.event ELSE committed
      /\ offset' \in {offset, committed'}
  BY DEF Acknowledge, parserVars, viewVars, snapVars
<1>2. /\ binlog \in Binlogs /\ Len(binlog) \in Nat /\ reported.event \in 0..Len(binlog)
      /\ snapAt \in Int /\ snapAt <= offset /\ offset \in Int /\ offset # -1
      /\ offset <= committed
    BY <1>1, BinlogType DEF TypesInv, TypeOK, ReaderInv, ViewInv, ProgressInv
<1>3. committed \in 0..Len(binlog)
  <2>1. /\ committed \in -1..high + 1 /\ high \in 0..Len(binlog) /\ committed # -1
        /\ committed > high => committed = next /\ next <= Len(binlog)
    BY <1>1, <1>2 DEF TypesInv, TypeOK, ReaderInv, CutInv
  <2>. QED BY <1>2, <2>1
<1>4. committed' \in Int /\ committed <= committed'
  BY <1>1, <1>2, <1>3, PositionsGrow
<1>5. offset' \in Int /\ offset <= offset' /\ offset' <= committed' /\ offset' # -1
  <2>1. offset <= committed' /\ offset >= -1
    BY <1>2, <1>3, <1>4 DEF TypesInv, TypeOK
  <2>. QED BY <1>1, <1>2, <1>3, <1>4, <2>1
<1>6. ProgressInv'
  BY <1>1, <1>2, <1>5 DEF ViewInv, ProgressInv
<1>7. MissedInv'
  <2>1. \A x \in missed : x[1] \in Int /\ x[1] <= offset
    BY <1>2, BinlogType DEF ViewInv, MissedInv, TypesInv, TypeOK
  <2>2. \A x \in missed : x[1] <= offset'
    BY <1>2, <1>5, <2>1
  <2>. QED BY <1>1, <1>5, <2>2 DEF ViewInv, MissedInv
<1>8. StreamedInv'
  BY <1>1, <1>2 DEF ViewInv, StreamedInv, Holds, ChangesOf
<1>9. ValueInv' /\ ExplainedInv' /\ ChunkInv' /\ FreshInv'
  BY <1>1, <1>5 DEF ViewInv, ValueInv, ExplainedInv, ChunkInv, FreshInv
<1>. QED BY <1>6, <1>7, <1>8, <1>9 DEF ViewInv

(* The rows of the event that was acknowledged in parts are seen, or cut   *)
(* off.                                                                    *)
LEMMA RestartView == TypesInv /\ ViewInv /\ Restart => ViewInv'
<1>. SUFFICES ASSUME TypesInv, ViewInv, Restart PROVE ViewInv'
  OBVIOUS
<1>1. /\ UNCHANGED <<binlog, view, snapView, snapAt, chunkAt, offset>>
      /\ phase' = "new" /\ row' = 0 /\ committed' = offset
      /\ interrupted' = (interrupted \/ (phase = "snapshot" /\ chunkAt > 0))
      /\ missed' = missed \cup CutOff /\ high' = Max({high, offset})
  BY DEF Restart, StartBehind
<1>2. /\ binlog \in Binlogs /\ Len(binlog) \in Nat /\ DOMAIN binlog = 1..Len(binlog)
      /\ high \in 0..Len(binlog) /\ offset \in -1..high + 1 /\ row \in Nat
      /\ next \in 1..Len(binlog) + 1 /\ snapAt \in Int
  BY BinlogType DEF TypesInv, TypeOK
<1>3. /\ high' = IF offset > high THEN high + 1 ELSE high
      /\ offset > high => phase = "stream" /\ offset = high + 1 /\ offset = next
                          /\ offset \in DOMAIN binlog
  <2>1. offset > high => phase = "stream" /\ offset = high + 1 /\ offset = next
                         /\ offset \in DOMAIN binlog
    BY CutOffIs DEF TypesInv, ReaderInv, CutInv
  <2>2. ASSUME offset > high PROVE high' = high + 1
    <3>1. offset \in 0..Len(binlog)
      BY <1>2, <2>1, <2>2
    <3>2. Max({high, offset}) = IF high >= offset THEN high ELSE offset
      BY <1>2, <3>1, LargerOfTwo
    <3>. QED BY <1>1, <1>2, <2>1, <2>2, <3>2
  <2>3. ASSUME ~(offset > high) PROVE high' = high
    <3>1. high \in {high, offset} /\ \A y \in {high, offset} : high >= y
      BY <1>2, <2>3
    <3>2. \A x \in {high, offset} : (\A y \in {high, offset} : x >= y) => x = high
      BY <1>2, <2>3
    <3>3. Max({high, offset}) = high
      BY <3>1, <3>2 DEF Max
    <3>. QED BY <1>1, <3>3
  <2>. QED BY <2>1, <2>2, <2>3
<1>4. ValueInv'
  BY <1>1, ValidGrows DEF ViewInv, ValueInv
<1>5. ProgressInv' /\ ChunkInv' /\ FreshInv'
  <2>1. offset = -1 => high' = 0
    BY <1>2, <1>3 DEF ViewInv, ProgressInv
  <2>2. offset <= offset
    BY <1>2
  <2>3. ProgressInv'
    BY <1>1, <2>1, <2>2 DEF ViewInv, ProgressInv
  <2>. QED BY <1>1, <2>3 DEF ViewInv, ChunkInv, FreshInv
<1>6. MissedInv'
  <2>1. \A x \in CutOff : offset # -1 /\ x[1] <= offset
    BY <1>2, CutOffIs
  <2>. QED BY <1>1, <2>1 DEF ViewInv, MissedInv
<1>7. ASSUME offset > high, NEW c \in ChangesOf(binlog, offset)
      PROVE  Holds(c, offset) \/ \A k \in Keys(c) : <<offset, k>> \in missed'
  <2>. DEFINE changes == binlog[offset].changes
  <2>1. Len(changes) \in Nat /\ DOMAIN changes = 1..Len(changes)
    BY <1>2, <1>3, <1>7, ChangesType
  <2>2. PICK m \in DOMAIN changes : c = changes[m]
    BY DEF ChangesOf, Range
  <2>3. CASE m \in 1..row
    BY <1>3, <1>7, <2>2, <2>3 DEF ViewInv, StreamedInv
  <2>4. CASE m \in row + 1 .. Len(changes)
    BY <1>1, <1>7, <2>2, <2>4, CutOffIs
  <2>. QED BY <1>2, <2>1, <2>3, <2>4
<1>8. StreamedInv'
  <2>. SUFFICES ASSUME offset # -1, NEW n \in DOMAIN binlog, snapAt < n, n <= high',
                       NEW c \in ChangesOf(binlog, n)
                PROVE  Holds(c, n) \/ <<n, DedupKey(c)>> \in missed'
    BY <1>1 DEF StreamedInv, Holds, ChangesOf
  <2>1. CASE n <= high
    BY <1>1, <2>1 DEF ViewInv, StreamedInv
  <2>2. CASE ~(n <= high)
    <3>1. offset > high /\ n = offset
      BY <1>2, <1>3, <2>2
    <3>2. DedupKey(c) \in Keys(c)
      BY <1>2, ChangesOfBinlog
    <3>. QED BY <1>7, <3>1, <3>2
  <2>. QED BY <2>1, <2>2
<1>9. ExplainedInv'
  <2>. SUFFICES ASSUME NEW k \in PrimaryKeys
                PROVE  \/ RowOk(binlog, missed', view, high', k)
                       \/ interrupted /\ TableOf(binlog, high')[k] = 0
    BY <1>1 DEF ExplainedInv
  <2>1. RowOk(binlog, missed, view, high, k) \/ (interrupted /\ TableOf(binlog, high)[k] = 0)
    BY DEF ViewInv, ExplainedInv
  <2>2. missed \subseteq missed'
    BY <1>1
  <2>3. CASE ~(offset > high)
    BY <1>3, <2>1, <2>2, <2>3, RowOkGrows
  <2>4. CASE offset > high
    <3>1. /\ offset \in DOMAIN binlog /\ high' = offset /\ offset - 1 = high
          /\ \A c \in ChangesOf(binlog, offset) :
                 \/ view[DedupKey(c)].event >= offset
                 \/ \A j \in Keys(c) : <<offset, j>> \in missed'
      BY <1>2, <1>3, <1>7, <2>4 DEF Holds
    <3>2. Valid(binlog, missed', view, k)
      BY <2>2, ValidGrows DEF ViewInv, ValueInv
    <3>3. /\ RowOk(binlog, missed, view, offset - 1, k) => RowOk(binlog, missed', view, offset, k)
          /\ TableOf(binlog, offset - 1)[k] = 0 =>
                RowOk(binlog, missed', view, offset, k) \/ TableOf(binlog, offset)[k] = 0
      BY <1>2, <2>2, <3>1, <3>2, NextEvent
    <3>. QED BY <2>1, <3>1, <3>3
  <2>. QED BY <2>3, <2>4
<1>. QED BY <1>4, <1>5, <1>6, <1>8, <1>9 DEF ViewInv

LEMMA NextView == SameWidth /\ TypesInv /\ ViewInv /\ [Next]_vars => ViewInv'
<1>. SUFFICES ASSUME SameWidth, TypesInv, ViewInv, [Next]_vars PROVE ViewInv'
  OBVIOUS
<1>1. CASE Stream
  <2>1. binlog' = binlog /\ missed' = missed
    BY <1>1 DEF Stream
  <2>2. ValueInv'
    BY <1>1, <2>1, StreamViews DEF ValueInv
  <2>. QED BY <1>1, <2>2, StreamStreamed, StreamExplained DEF ViewInv
<1>2. CASE UNCHANGED vars
  <2>1. UNCHANGED <<binlog, next, row, phase, snapView, snapAt, chunkAt, view, high, missed,
                    committed, offset, interrupted>>
    BY <1>2 DEF vars, parserVars, viewVars, snapVars, offsetVars
  <2>2. ValueInv' /\ ExplainedInv' /\ ProgressInv'
    BY <2>1 DEF ViewInv, ValueInv, ExplainedInv, ProgressInv
  <2>3. StreamedInv'
    BY <2>1 DEF ViewInv, StreamedInv, Holds, ChangesOf
  <2>4. MissedInv' /\ ChunkInv' /\ FreshInv'
    BY <2>1 DEF ViewInv, MissedInv, ChangedIn, ChunkInv, SnapKeys, FreshInv
  <2>. QED BY <2>2, <2>3, <2>4 DEF ViewInv
<1>. QED
  BY <1>1, <1>2, OpenViewView, ReadPositionView, FetchChunkView, SnapshotCompleteView,
     StartFromOffsetView, AcknowledgeView, RestartView DEF Next, ReaderStep

LEMMA ViewInvHolds == SameWidth => (Spec => [](TypesInv /\ ViewInv))
<1>. SUFFICES ASSUME SameWidth PROVE Spec => [](TypesInv /\ ViewInv)
  OBVIOUS
<1>1. TypesInv /\ ViewInv /\ [Next]_vars => (TypesInv /\ ViewInv)'
  BY NextTypes, NextView
<1>. QED BY <1>1, InitTypes, InitView, PTL DEF Spec

LEMMA ViewInvImplies == ViewInv => ViewCoversSource /\ GhostsExplained
<1>. SUFFICES ASSUME ViewInv PROVE ViewCoversSource /\ GhostsExplained
  OBVIOUS
<1>1. \A k \in PrimaryKeys :
          \/ view[k].val = TableAt(high)[k] \/ view[k].event > high \/ Missed(k, high)
          \/ TableAt(high)[k] = 0 /\ MovedAway(k, high)
          \/ interrupted /\ TableAt(high)[k] = 0
  BY SameAsOf DEF ViewInv, ExplainedInv, RowOk
<1>2. ViewCoversSource
  BY <1>1 DEF ViewCoversSource
<1>3. GhostsExplained
  BY <1>1 DEF GhostsExplained
<1>. QED BY <1>2, <1>3

(* "Collapsing snapshot + incremental overlap into a single final version  *)
(* of each row" (latest_by_dedup_key): whatever the chunks of the snapshot,*)
(* wherever the process died, and while events are delivered again, every  *)
(* row the source has is in the view with its latest value, unless its     *)
(* latest change fell between a snapshot's read view and its position, or  *)
(* behind an acknowledged row of its event when the process died.          *)
THEOREM ViewHasEveryRow ==
    ASSUME SameWidth PROVE Spec => []ViewCoversSource
<1>. QED BY ViewInvHolds, ViewInvImplies, PTL

(* A row of the view that the source does not have was left there because  *)
(* the row got another key, or its deletion is one of the changes above,   *)
(* or a snapshot was interrupted.  No other deletion is lost.              *)
THEOREM GhostsAreAccountedFor ==
    ASSUME SameWidth PROVE Spec => []GhostsExplained
<1>. QED BY ViewInvHolds, ViewInvImplies, PTL
===============================================================================
