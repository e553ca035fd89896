-------------------------------- MODULE RowView --------------------------------
(***************************************************************************)
(* What a consumer makes of the events of one table: the way of a row from *)
(* the source database through the initial snapshot, the binlog parser and *)
(* the transformer's keys to the collapsed view of the consumer            *)
(* (latest_by_dedup_key in cdc_pipeline/downstream/consumer.py).           *)
(*                                                                         *)
(* The source has written binlog; a change of it is [old, new, val]: the   *)
(* primary key of the row before and after it, 0 if there is none, and     *)
(* what the row holds then; table is what the table holds behind an event. *)
(* Events reach the consumer in the order they are read, and are read      *)
(* again after a crash: how buffers and retries keep that order is the     *)
(* subject of Delivery and CDCPipeline.                                    *)
(***************************************************************************)
EXTENDS BinlogParser, SequencesExt, FiniteSetsExt

CONSTANTS
    Binlogs,      \* the binlogs the source may write
    PrimaryKeys,
    ChunkSize,    \* snapshot_chunk_size
    FirstFile,    \* the number of the first file
    Base, Wrap,   \* how the numbers in file names are written
    MaxCrashes    \* bound: how often the process dies

ASSUME RowViewAssumption ==
    /\ NoTx \notin Nat \X Nat
    /\ PrimaryKeys \subseteq Nat \ {0} /\ IsFiniteSet(PrimaryKeys)
    /\ ChunkSize \in Nat \ {0}
    /\ FirstFile \in Nat
    /\ Base \in Nat \ {0, 1}
    /\ Wrap \in Nat \ {0}
    /\ MaxCrashes \in Nat

(* What MySQL writes.  Positions grow.  A BEGIN is the first event of its  *)
(* transaction, which goes on until its XID or COMMIT and is over with it; *)
(* an event outside of all transactions has tx = 0.                        *)
ASSUME BinlogsAssumption ==
    \A b \in Binlogs :
        /\ b \in Seq(Range(b))
        /\ \A i \in DOMAIN b :
              /\ b[i].kind \in {"begin", "commit", "xid", "query", "rows", "rotate"}
              /\ b[i].file \in Nat /\ b[i].pos \in Nat \ {0} /\ b[i].file >= FirstFile
              /\ b[i].kind \in {"begin", "commit", "xid"} => b[i].tx # 0
              /\ b[i].tx # 0 /\ b[i].kind \notin {"commit", "xid"} /\ i < Len(b) =>
                    b[i + 1].tx = b[i].tx
        /\ \A i, j \in DOMAIN b : i < j =>
              /\ b[i].file < b[j].file \/ (b[i].file = b[j].file /\ b[i].pos < b[j].pos)
              /\ b[i].tx = b[j].tx /\ b[i].tx # 0 =>
                    b[j].kind # "begin" /\ b[i].kind \notin {"commit", "xid"}

(* A rows event inserts, updates or deletes rows, each row once; the keys  *)
(* it does not touch stay as they were.                                    *)
ASSUME ChangesAssumption ==
    \A b \in Binlogs : \A i \in DOMAIN b :
        LET changes == Range(b[i].changes)
            table   == b[i].table
            before  == IF i = 1 THEN [k \in PrimaryKeys |-> 0] ELSE b[i - 1].table
        IN  /\ b[i].changes \in Seq(changes)
            /\ b[i].kind = "rows" <=> changes # {}
            /\ \A c \in changes :
                  /\ {c.old, c.new} \subseteq PrimaryKeys \cup {0}
                  /\ c.new = 0 => c.old # 0 /\ c.val = 0 /\ \A d \in changes : d.new = 0
                  /\ c.new # 0 => table[c.new] = c.val
                  /\ c.old # 0 /\ (\A d \in changes : d.new # c.old) => table[c.old] = 0
            /\ \A k \in PrimaryKeys :
                  (\A c \in changes : k \notin {c.old, c.new}) => table[k] = before[k]

VARIABLES
    phase,        \* "new", "view", "snapshot", "stream"
    snapView,     \* the event behind which the snapshot's read view lies
    snapAt,       \* the event behind which the snapshot's position lies
    chunkAt,      \* OFFSET of the next chunk
    view,         \* the event and the value the consumer has for a key
    high,         \* the last event that no process has yet to read
    committed,    \* the event whose position _committed is, -1 for none
    offset,       \* the event whose position is persisted, -1 for none
    interrupted,  \* history: a process died during its snapshot
    missed,       \* history: <<event, key>> of changes never to be delivered
    tags          \* history: which ids the events of which transactions got

viewVars == <<view, high, missed, tags>>
snapVars == <<phase, snapView, snapAt, chunkAt, interrupted>>
offsetVars == <<committed, offset>>
vars == <<binlog, run, parserVars, viewVars, snapVars, offsetVars>>

P == INSTANCE BinlogPosition

PositionOf(i) == IF i = 0 THEN [file |-> FirstFile, pos |-> 0]
                 ELSE [file |-> binlog[i].file, pos |-> binlog[i].pos]
Before(i, j) == P!PositionLess(PositionOf(i), PositionOf(j))

(* The table after n events: 0 for a key without a row. *)
TableAt(n) == IF n = 0 THEN [k \in PrimaryKeys |-> 0] ELSE binlog[n].table

Keys(change) == {change.old, change.new} \ {0}
ChangedIn(events) ==
    UNION {UNION {{i} \X Keys(c) : c \in Range(binlog[i].changes)} : i \in events}

Nothing == [event |-> -1, val |-> 0]
NoReport == [type |-> "none", tx |-> NoTx, event |-> 0, row |-> 0]

Init ==
    /\ binlog \in Binlogs
    /\ run = 0
    /\ next = 1
    /\ row = 0
    /\ currentTx = NoTx
    /\ reported = NoReport
    /\ phase = "new"
    /\ snapView = 0
    /\ snapAt = 0
    /\ chunkAt = 0
    /\ view = [k \in PrimaryKeys |-> Nothing]
    /\ high = 0
    /\ committed = -1
    /\ offset = -1
    /\ interrupted = FALSE
    /\ missed = {}
    /\ tags = {}

-----------------------------------------------------------------------------
(* Read views and positions lie between two transactions, and time passes. *)
BetweenTransactions(from) ==
    {n \in from..Len(binlog) :
        n \in 1..Len(binlog) - 1 => binlog[n].tx = 0 \/ binlog[n].tx # binlog[n + 1].tx}

(* START TRANSACTION WITH CONSISTENT SNAPSHOT *)
OpenView ==
    /\ phase = "new"
    /\ offset = -1
    /\ phase' = "view"
    /\ snapView' \in BetweenTransactions(snapAt)
    /\ UNCHANGED <<binlog, run, parserVars, viewVars, snapAt, chunkAt, interrupted, offsetVars>>

(* SHOW MASTER STATUS, a query of its own: what was committed since is in  *)
(* neither the rows of the view nor the stream behind the position.        *)
ReadPosition ==
    /\ phase = "view"
    /\ phase' = "snapshot"
    /\ snapAt' \in BetweenTransactions(snapView)
    /\ chunkAt' = 0
    /\ missed' = missed \cup ChangedIn(snapView + 1 .. snapAt')
    /\ UNCHANGED <<binlog, run, parserVars, view, high, tags, snapView, interrupted, offsetVars>>

(* Mutants: the latest delivery wins, whatever its position; a key that is *)
(* known is not overwritten.                                               *)
LatestDelivered(v, k, i, val) == [v EXCEPT ![k] = [event |-> i, val |-> val]]
FirstDelivered(v, k, i, val) ==
    IF v[k] = Nothing THEN [v EXCEPT ![k] = [event |-> i, val |-> val]] ELSE v

(* latest_by_dedup_key: only a higher position replaces what is there. *)
Collapse(v, k, i, val) ==
    IF v[k] = Nothing \/ Before(v[k].event, i)
    THEN [v EXCEPT ![k] = [event |-> i, val |-> val]] ELSE v

(* SELECT ... ORDER BY the key LIMIT ChunkSize OFFSET chunkAt *)
Chunk ==
    LET table == TableAt(snapView)
        keys  == {k \in PrimaryKeys : table[k] # 0}
        rank(k) == Cardinality({j \in keys : j <= k})
    IN  {k \in keys : rank(k) \in chunkAt + 1 .. chunkAt + ChunkSize}

(* Each row of a chunk is an event at the position of the snapshot, with   *)
(* what it holds in the read view.                                         *)
FetchChunk ==
    /\ phase = "snapshot"
    /\ Chunk # {}
    /\ view' = [k \in PrimaryKeys |->
                   IF k \in Chunk THEN Collapse(view, k, snapAt, TableAt(snapView)[k])[k]
                   ELSE view[k]]
    /\ chunkAt' = chunkAt + ChunkSize
    /\ UNCHANGED <<binlog, run, parserVars, phase, snapView, snapAt, high, missed, tags,
                   interrupted, offsetVars>>

(* No rows are left; a chunk shorter than ChunkSize only spares the query  *)
(* that says so.  The position of the snapshot is persisted at once, and   *)
(* the stream starts there.                                                *)
SnapshotComplete ==
    /\ phase = "snapshot"
    /\ Chunk = {}
    /\ phase' = "stream"
    /\ committed' = snapAt
    /\ offset' = snapAt
    /\ high' = Max({high, snapAt})
    /\ StartBehind(snapAt)
    /\ UNCHANGED <<binlog, run, reported, view, missed, tags, snapView, snapAt, chunkAt,
                   interrupted>>

StartFromOffset ==
    /\ phase = "new"
    /\ offset # -1
    /\ phase' = "stream"
    /\ StartBehind(offset)
    /\ UNCHANGED <<binlog, run, reported, viewVars, snapView, snapAt, chunkAt, interrupted,
                   offsetVars>>

-----------------------------------------------------------------------------
(* The dedup key of a change has the primary key of the row after it, and  *)
(* of the row before it if it was deleted.                                 *)
DedupKey(change) == IF change.new # 0 THEN change.new ELSE change.old

Reported == reported'.event = next

Consume ==
    view' = IF binlog[next].kind = "rows"
            THEN LET change == binlog[next].changes[row + 1]
                 IN  Collapse(view, DedupKey(change), next, change.val)
            ELSE view

Tag == [run |-> run, id |-> reported'.tx, type |-> reported'.type, tx |-> binlog[next].tx]

Stream ==
    /\ phase = "stream"
    /\ ReadEvent
    /\ Consume
    /\ high' = Max({high, next' - 1})
    /\ tags' = IF Reported THEN tags \cup {Tag} ELSE tags
    /\ UNCHANGED <<binlog, run, missed, snapVars, offsetVars>>

(* The latest event is acknowledged, which is the next row of a rows event *)
(* without transaction boundaries.  Its position is committed if it is a   *)
(* higher one (OffsetManager._advance), and what is committed is persisted *)
(* if flush_interval_ms have passed and the write succeeds.                *)
Acknowledge ==
    /\ phase = "stream"
    /\ reported # NoReport
    /\ committed' = IF Before(committed, reported.event) THEN reported.event ELSE committed
    /\ offset' \in {offset, committed'}
    /\ UNCHANGED <<binlog, run, parserVars, viewVars, snapVars>>

(* The rows of an event that the next process will not read again, because *)
(* one of them was acknowledged with the position of all.                  *)
CutOff ==
    IF offset > high
    THEN UNION {{offset} \X Keys(binlog[offset].changes[m]) :
                    m \in row + 1 .. Len(binlog[offset].changes)}
    ELSE {}

Restart ==
    /\ run < MaxCrashes
    /\ run' = run + 1
    /\ phase' = "new"
    /\ interrupted' = (interrupted \/ (phase = "snapshot" /\ chunkAt > 0))
    /\ missed' = missed \cup CutOff
    /\ high' = Max({high, offset})
    /\ committed' = offset
    /\ StartBehind(0)
    /\ reported' = NoReport
    /\ UNCHANGED <<binlog, view, tags, snapView, snapAt, chunkAt, offset>>

ReaderStep ==
    \/ OpenView
    \/ ReadPosition
    \/ FetchChunk
    \/ SnapshotComplete
    \/ StartFromOffset
    \/ Stream

Next == ReaderStep \/ Acknowledge \/ Restart

Spec == Init /\ [][Next]_vars

(* The reading thread runs, and what it reads is acknowledged.  Nothing is *)
(* assumed of the file: no timer writes it.                                *)
FairSpec == Spec /\ WF_vars(ReaderStep) /\ WF_committed(Acknowledge)

-----------------------------------------------------------------------------
(* The variables have their types.                                         *)
TypeOK ==
    /\ run \in 0..MaxCrashes
    /\ next \in 1..Len(binlog) + 1
    /\ row \in Nat
    /\ row > 0 => next <= Len(binlog) /\ row < Len(binlog[next].changes)
    /\ currentTx = NoTx \/ currentTx \in (1..Len(binlog)) \X {run}
    /\ phase \in {"new", "view", "snapshot", "stream"}
    /\ snapView \in 0..Len(binlog)
    /\ snapAt \in 0..Len(binlog)
    /\ DOMAIN view = PrimaryKeys
    /\ high \in 0..Len(binlog)
    /\ committed \in -1..high + 1
    /\ offset \in -1..high + 1
    /\ interrupted \in BOOLEAN
    /\ missed \subseteq (1..Len(binlog)) \X PrimaryKeys

(* A transaction id stands for one transaction of the source, and all of a *)
(* transaction whose BEGIN was read has it: neither a statement outside,   *)
(* nor the rest of a transaction that was read from the middle gets the id *)
(* of another.  DeliveryManager puts together what has the same id.        *)
TransactionsTagged ==
    \A a, b \in tags :
        /\ a.id = b.id /\ a.id # NoTx => a.tx = b.tx
        /\ b.type = "tx_begin" /\ a.run = b.run /\ a.tx = b.tx => a.id = b.id

(* Up to event n, event e is the last one that changes the row with key k. *)
Changes(e, k) == \E c \in Range(binlog[e].changes) : k \in Keys(c)
LastChange(e, k, n) == e <= n /\ \A i \in e + 1 .. n : ~Changes(i, k)

(* The latest change of the row was made between the read view and the     *)
(* position of a snapshot, or cut off by a crash.                          *)
Missed(k, n) == \E e \in 1..n : <<e, k>> \in missed /\ LastChange(e, k, n)

(* "Collapsing snapshot + incremental overlap into a single final version  *)
(* of each row" (latest_by_dedup_key): every row of the source is there    *)
(* with its latest value, while old events are delivered again, unless its *)
(* latest change was missed; the next one mends it.                        *)
ViewCoversSource ==
    LET table == TableAt(high)
    IN  \A k \in PrimaryKeys :
            table[k] # 0 => view[k].val = table[k] \/ view[k].event > high \/ Missed(k, high)

(* A row that the source no longer has is gone from the view, unless the   *)
(* latest change of the row was to give it another key, or was missed, or  *)
(* the row was in a snapshot that was not completed.                       *)
MovedAway(k, n) ==
    \E e \in 1..n :
        /\ \E c \in Range(binlog[e].changes) : c.old = k /\ c.new \notin {0, k}
        /\ LastChange(e, k, n)
GhostsExplained ==
    LET table == TableAt(high)
    IN  \A k \in PrimaryKeys :
            view[k].val # 0 /\ table[k] = 0 =>
                view[k].event > high \/ interrupted \/ MovedAway(k, high) \/ Missed(k, high)

(* What would be persisted by a flush or a stop follows the stream through *)
(* rotated files and crashes to the last statement ("the position is       *)
(* monotonically increasing").                                             *)
PositionCatchesUp ==
    <>(\A i \in DOMAIN binlog : binlog[i].kind \in {"rows", "query"} => i <= committed)

(* The view is the table (build_dedup_key: "Downstream consumers can use   *)
(* it to keep only the latest version of each row").                       *)
ViewIsSource ==
    row = 0 => \A k \in PrimaryKeys : view[k].event <= high => view[k].val = TableAt(high)[k]
================================================================================
