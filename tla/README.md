# Verification of the CDC pipeline

TLA+ models of `src/cdc_pipeline`, a change-data-capture pipeline: it takes an
initial snapshot of a MySQL database, follows its binlog, and delivers both as
event envelopes to a downstream consumer.  What the consumer acknowledges moves
a persisted offset, from which a restarted process resumes.  The promise of the
code is at-least-once delivery, whole transactions, and idempotent replay.

## 1. The system

| Part (source) | State | Operations | Talks to |
|---|---|---|---|
| `OffsetManager`, `FileOffsetStore` (`offset_manager/manager.py`) | committed and last-flushed position, dirty flag, snapshot flag; the offset file and its temporary file | `ack`, `mark_snapshot_in_progress`, `mark_snapshot_complete`, `load_last_committed`, `read`, `write` | called by `DeliveryManager` (`on_ack`) and by `CDCPipeline.start` |
| `DeliveryManager` (`downstream/delivery.py`) | one batch per open transaction, one buffer for everything else, the buffer's arrival time, `_running`, statistics, one RLock | `submit`, `flush`, `start`, `stop`, `_delivery_loop` (thread), `_deliver_with_retry` | consumer (`deliver_batch`), `OffsetManager.ack` |
| `CDCPipeline` (`pipeline.py`) | `_running`, `_tx_row_counts` | `start`, `stop`, `_on_raw_row`, `_on_raw_ddl`, `_on_tx_begin`, `_on_tx_commit` | all of the others |
| `SimulatedLogStream` (`log_parser/simulator.py`) | event queue, index, `_running`, a thread | `start`, `stop`, `_replay` | the pipeline's callbacks |
| `MySQLBinlogParser` (`log_parser/mysql_binlog.py`) | stream, current transaction id, `_running`, a thread | the same, over a MySQL replication stream | the pipeline's callbacks |
| `Snapshotter`, providers (`snapshot/`) | the provider's connection with its read view | `run`, `acquire_consistent_snapshot_position` | `DeliveryManager.submit`, `SchemaTracker` |
| `DownstreamConsumer` (`downstream/consumer.py`) | what was received | `deliver_batch`, `latest_by_dedup_key` | called by `DeliveryManager` |
| `JsonlFileSink` (`sinks/jsonl_sink.py`) | data file, index file, `_seen_keys`; or standard output | `__init__`, `deliver_batch`, `_write_atomic` | the file system |
| `HttpWebhookSink` (`sinks/webhook_sink.py`) | none between calls | `deliver_batch`, `_post_once` | an HTTP endpoint |
| `SchemaTracker` (`schema_tracker/tracker.py`) | per table a history of schemas with positions and versions, persisted | `register_snapshot_schema`, `apply_ddl`, `schema_at` | snapshotter, `_on_raw_ddl`, transformer |
| `EventTransformer`, keys (`event_transformer/`, `models/event.py`) | none | row, DDL and transaction events to envelopes with idempotency and dedup keys | pipeline, schema tracker |
| `BinlogPosition` (`log_parser/base.py`) | none | order on (file, offset) | everywhere |

What is hard here, and what makes each part correct:

- **Threads.**  `start()`/`stop()` run on the caller's thread, callbacks on the
  parser's, the delivery loop on a third, and all meet at one lock that is held
  while the consumer is called, while a failed call backs off, and while the
  offset is written.  Correct means: no event is lost or counted twice between
  the buffers, transactions stay whole, nothing overtakes what it must not, and
  nobody waits forever.
- **Crashes.**  Only the offset file and the consumer survive.  Correct means:
  the offset never covers an event the consumer lacks, a crash in the middle of
  a write leaves a readable file, and the record "snapshot done" is never ahead
  of the snapshot's rows.
- **Failures.**  The consumer may raise having taken nothing, a part or all of a
  batch; the file system may raise in the middle of a write.
- **Replay.**  Events are delivered again after a crash.  Correct means: the
  same key means the same content.  (Not the same envelope: MySQL's parser gives
  a transaction that it reads again a new id.)
- **Order across two mechanisms.**  Snapshot and binlog, the transaction buffers
  and the other buffer, schema history and rows, each meet at a position; a
  sink's data and its index, or its request and the answer, are two steps.
  Correct means: what is recorded as done is done.

`PROJECT.json` lists these hazards one by one, each at its line, with the
properties aimed at it.

## 2. Modules

| Module | Models | Extends / instantiates |
|---|---|---|
| `DurableOffset` | abstract specification: a durable position that only moves forward, to confirmed positions | |
| `OffsetManager` | `OffsetManager` and `FileOffsetStore` | instantiates `DurableOffset` |
| `OffsetManager_proofs` | theorems about it | extends `OffsetManager` |
| `Delivery` | `DeliveryManager` and the contract of a consumer | |
| `Delivery_proofs` | theorems about it | extends `Delivery` |
| `CDCPipeline` | the pipeline, its threads, snapshot, parser, crashes | instantiates `Delivery` and `OffsetManager` |
| `CDCPipeline_proofs` | types, the snapshot's record, and everything about one queue | extends `CDCPipeline` |
| `CDCPipeline_transaction_proofs` | the same promises with transaction boundaries | extends `CDCPipeline_proofs` |
| `SchemaDDL` | `apply_ddl_to_schema`, and what MySQL makes of the same statement | |
| `SchemaTracker` | `SchemaTracker`, `FileSchemaHistoryStore`, row decoding | extends `SchemaDDL` |
| `SchemaTracker_proofs` | theorems about it | extends `SchemaTracker`, `Lists_proofs` |
| `ConsumerLedger` | abstract specification: what `deliver_batch` promises | |
| `JsonlSink` | `JsonlFileSink` | |
| `WebhookSink` | `HttpWebhookSink` and its endpoint | |
| `Lists` | filtering a list, for both sinks and the tracker | |
| `Lists_proofs` | lemmas about lists, folds, smallest and largest numbers | extends `Lists` |
| `SinkDelivery` | the factory's configurations, the delivering thread and the sink it calls, crashes | instantiates `JsonlSink`, `WebhookSink` and `ConsumerLedger` |
| `SinkDelivery_proofs` | theorems about it, the refinement among them | extends `SinkDelivery`, `Lists_proofs` |
| `BinlogPosition` | the order of positions | |
| `BinlogParser` | `MySQLBinlogParser` | |
| `RowView` | the way of a row: source table, snapshot chunks, binlog, dedup key, `latest_by_dedup_key` | extends `BinlogParser`, instantiates `BinlogPosition` |
| `RowView_proofs` | theorems about it | extends `RowView`, `Lists_proofs` |
| `MCOffsetManager`, `MCDelivery`, `MCCDCPipeline`, `MCSchemaTracker`, `MCSinkDelivery`, `MCRowView` | values for TLC: positions, logs, statements, configurations, binlogs | extend the module they are named for |

Positions are naturals in log order, except in `RowView`, where they are a file
and an offset.  Time is abstract: whether an interval has
elapsed is a free choice, a sleep takes any time.  Payloads are left out.
Definitions introduced by a comment "Mutant:" are plausible mistakes in the
definition that follows them, each of which breaks one property of a run; no
specification uses them.

### OffsetManager

`memory` is the object's fields, `files` the two files.  Every public method
runs under an RLock, so `Ack` and `MarkSnapshotComplete` are one step unless
they reach `FileOffsetStore.write`; then `writer` says how far the lock holder
is: the temporary file truncated (`opened`), dumped and fsynced (`dumped`),
renamed (`idle` again), or an `OSError` on its way to the caller (`failed`).
`Restart` may happen anywhere and runs `_load_initial` on what is on disk.
`ack` has three outcomes: ignored during a snapshot, recorded without writing
(`flush_interval_ms` has not elapsed), recorded and written.

### Delivery

`pendingTransactions`, `nonTxBuffer`, `bufferMarked` (`_buffer_full_at is not
None`), `running` and `stats` are the object's fields.  `owner`, `batch` and
`stage` stand for the thread that is inside `_deliver_with_retry`, which always
runs under the lock; a method that delivers nothing is one step.  `received` is
what the consumer durably has; it outlives crashes.  `submitted` and `lost` are
history.  The delivery loop is one variable per thread (`top`, `asleep`,
`flushing`, `off`), because `stop()` may leave a thread behind whose `join`
timed out, and `start()` then creates another.

A consumer that returns has the batch; one that raises has any prefix of it.
That covers the JSONL sink (all or nothing), the webhook sink (response lost
after the endpoint took the batch) and the in-memory consumer.

### CDCPipeline

`Log` is everything the database ever writes.  `main` is where `start()` or
`stop()` is, `parser` where the parser thread is, `idx` its next event.  An
acknowledgement is `Delivery!Confirm` and `OffsetManager!Ack` of one position in
one step, and the delivering thread continues (`DeliveryReturns`) when the
offset manager is done, or gets its exception (`AcknowledgeRaises`): the parser
thread dies of it, `start()` and `stop()` pass it on, the delivery loop logs it.
`Restart` ends the process at any step; all that remains is the offset file, the
temporary file and `received`.  `SnapshotAtomic` says whether a snapshot's
position is that of its read view; `MySQLSnapshotProvider` opens the view first
and asks for the position later, so its value there is `FALSE`.
`ResumeInclusive` is `TRUE` for the simulator (`>=` in `_find_event_index`),
`FALSE` for MySQL.  `FreshTxIds` is the other way round: `_make_tx_id` has the
time in it at which the BEGIN was read (`BinlogPosition.timestamp` defaults to
`time.time()`, and the parser passes none), so an envelope carries in `madeBy`
the process that made its id; the simulator's ids are part of what was queued.
Within a process `tx` tells ids apart, so `Delivery` needs no more than that.
(MySQL's ids when reading starts inside a transaction are in `BinlogParser`.)
`Content` is an envelope without its transaction id.
Several events may share a position, as the rows of one rows event do.

### SchemaDDL and SchemaTracker

A schema is its columns (name and type), its primary key and its version; an
ALTER TABLE is the list of clauses the regular expressions find in its text.
`Alter` does what the code does: all drops, then all type changes, then all
renames, then the additions, each addition put where the code's search for FIRST
and AFTER says.  `SourceAlter` is MySQL's rule and the reference.  `Understood`
says of statements that the two agree on every table, also when the statement
is applied to its own result, as it is when it is read again.  TLC finds it
true of `Evolution`, the catalogue of the run, and false of each statement of
`Misread`, on all tables of up to three columns (`MCSchemaTracker`).  It is a
theorem for every statement that is `Single`: one clause that drops a column,
changes its type or name where it stands, or adds one, with no key, behind the
others, behind a certain one, or in front.  The tracker looks for FIRST in the
match and the 50 characters behind it (tracker.py:140) and for AFTER in all that
follows, so a clause has, for an addition, what is behind the match: `rest` is
"short", "long" (FIRST is out of reach, its own included: a column with a
character set, a collation and a default goes to the end), or "key" (ADD ...
PRIMARY KEY, which the tracker does not see).

`log` is the binlog, written while it is read; each record carries the schema
behind it, which the pipeline cannot see.  `history` is the tracker's list for
one table, `persisted` and `tmpFile` are what loading its file and temporary file
would yield (a truncated file loads as an empty history, like a missing one).
`OnDDL` is `apply_ddl` up to the moment `save` has opened the temporary file;
`DumpTmp` and `Replace` finish it, and the event is submitted in the last step.
A snapshot takes its position first (`StartSnapshot`, snapshotter.py:172) and
fetches the schema when the turn of the table comes (`FetchSchema`,
snapshotter.py:183), out of INFORMATION_SCHEMA, which no read view covers; it is
registered at the position taken before.  Rows and statements may come between
the two.  (`list_tables` and `fetch_schema` of the table are one step.  MySQL may
refuse to read a table whose definition changed since the view was opened; the
snapshot then dies, as it does by a crash.)
`Acknowledge` lets the offset follow anywhere up to the last submitted event: how
it gets there is the subject of the other modules.  `ResumeSteps` tells the
simulator (0) from MySQL (1).

### JsonlSink, WebhookSink, SinkDelivery

`SinkDelivery` hands batches of `Feed` to the sink that `options` (chosen at
`Init` among what the factory can build) names, as `_deliver_with_retry` does:
`HandOver`, the sink's own steps, then `Confirm` or `Retry`.  `call` says where
`deliver_batch` is.  `Persist` and `Restart` stand for `OffsetManager` and a new
process; the threads and buffers in front are in `Delivery`.

In `JsonlSink`, `ReplaceData` is the one `os.replace` that makes a batch visible;
everything before it leaves no trace, and `reopen` is the moment behind it in
which the call can still raise.  The index grows line by line: a failed append or
a crash leaves a prefix of the new keys and perhaps a torn line, and the next
line that is appended is glued to the torn one and lost (`AppendKeys`).  `seen`
may run ahead of `index`, because keys enter `_seen_keys` while their lines are
still in the buffer of the file (`IndexRaises`).  Of the lines the model keeps
the order of their first copies (`output`) and which have further ones
(`repeated`).

In `WebhookSink`, an attempt is accepted, refused (4xx, raised at once) or fails
without effect, with its effect, or with the request still under way
(`late`), which may arrive at any later time, in another process too.  The
endpoint is external: it keeps the keys it has seen, as the header is meant for.

`Ledger == INSTANCE ConsumerLedger WITH ledger <- output` is the refinement:
duplicates, files, requests, retries and crashes disappear, and what remains is
a ledger that grows along `Feed` and is never behind what was confirmed.

### BinlogPosition, BinlogParser, RowView

`NameLess` is the comparison of two file names as strings, for a number that is
padded to a fixed width: `Wrap` is the first number that needs one digit more.

`BinlogParser` has one action per kind of binlog event.  `row` counts the rows of
the rows event at hand, each of which is a callback.  A transaction id is made
of the position and the time, here `<<event, process>>`.

`RowView` is one table from end to end.  The source has written `binlog`, each
change with the key before, the key after and the value it leaves.  A process
without offset opens its read view (`OpenView`), asks for the position later
(`ReadPosition`), reads the view chunk by chunk with LIMIT and OFFSET, and then
streams; each delivery goes into `view` as `latest_by_dedup_key` would put it.
`Acknowledge` may come between two rows of one rows event, as it does with
transaction boundaries off.  It moves `committed`, the position in memory, and
may or may not write it to the file (`offset`): the interval may not have
elapsed, or the write fail.  A crash forgets everything but the file and what the
consumer has.  `high` is the last event that nobody has yet to read, and `missed`
has the changes that nobody will read: those between the view and the position
of a snapshot (`ChangedIn`), and the rows behind the acknowledged one of a rows
event (`CutOff`).

What MySQL writes is assumed, not modelled.  `BinlogsAssumption`: positions grow,
a BEGIN is the first event of its transaction, and its XID or COMMIT the last.
`ChangesAssumption`: `table` behind an event is the table before it with the
event's changes made, and an event changes each row once.  TLC evaluates both on
the binlogs of the run.

## 3. Runs

| Run | Asks | Answer |
|---|---|---|
| `offset_manager` | Is the offset file a forward-only durable register, whatever step a crash, an error or an old acknowledgement falls into? | yes: `ImplementsDurableOffset`, `NoGarbledOffset`, `CacheMatchesFile`, `SnapshotHoldsOffset` |
| `delivery_buffers` | Are events conserved, counted once, transactions undivided, commits never ahead of what they commit, and events outside transactions in order? | yes: `NoEventLost`, `StatsBalance`, `TransactionsUndivided`, `CommitNeverOvertakes`, `QueueInOrder` |
| `delivery_live` | Is a small buffer drained without help, and does the loop end after `stop()`? | yes: `BufferedEventDelivered`, `LoopEndsAfterStop` |
| `pipeline_transactions` | With boundaries on and every event inside a transaction: does no offset ever cover an event the consumer lacks, does nothing overtake, is a snapshot recorded only after its rows, has a replayed event the content of the original? Does a pipeline that keeps running deliver everything, and does `stop()` return, if the consumer recovers? | yes: `AtLeastOnce`, `NothingOvertakes`, `SnapshotBeforeOffset`, `ReplaySameOutcome`, `EverythingDelivered`, `StopCompletes` |
| `pipeline_queue` | The same without boundaries, resuming at the acknowledged event | yes: `AtLeastOnce`, `NothingOvertakes` |
| `pipeline_mixed_log` | At-least-once with boundaries on and a DDL outside transactions | **no** |
| `pipeline_snapshot_gap` | At-least-once with MySQL's snapshot position | **no** |
| `pipeline_stop_outage` | Does `stop()` return while the consumer is down? | **no** |
| `schema_tracker` | Is every row decoded with the columns it was written under, also when it is read again after later statements, and is the schema file never behind the offset? | yes, for the catalogue `Evolution`, and unless a statement falls between a snapshot's position and its schema (`Quiet`): `LookupIsLatest`, `DecodedAsWritten`, `HistoryCoversOffset` |
| `sinks` | Does every sink keep the consumer contract through failed writes, torn index lines, refused, lost and late requests, and a crash? Is the index never ahead of the data, is nothing indexed written again, is a transaction never seen in part, or applied twice by an endpoint? Is everything confirmed in the end? | yes: `ImplementsLedger`, `IndexNeverAhead`, `IndexedNeverRewritten`, `TransactionsVisibleWhole`, `TransactionsAppliedOnce`, `FeedConfirmed` |
| `sink_shared_key` | Is every confirmed event in the file, with two tables and an index? | **no** |
| `row_view` | Do transaction ids separate transactions, does the collapsed view hold every row of the source with its latest value, and no other row, but for what is accounted for below, and does the committed position follow to the end? | yes: `TransactionsTagged`, `ViewCoversSource`, `GhostsExplained`, `PositionCatchesUp` |

### Findings

1. **A transaction overtakes buffered events** (`pipeline_mixed_log`).  With
   transaction boundaries on, a COMMIT delivers and acknowledges its transaction
   at once, while a DDL that came earlier still waits in `_non_tx_buffer`.  The
   acknowledged position covers the DDL; a crash now loses it.  The shortest
   counterexample is: DDL buffered, BEGIN, row, COMMIT delivered and written.
   `pipeline_transactions` and `pipeline_queue` show the two conditions under
   which it cannot happen.
2. **Snapshot gap** (`pipeline_snapshot_gap`).  `START TRANSACTION WITH
   CONSISTENT SNAPSHOT` and `SHOW MASTER STATUS` are two statements without a
   lock; a transaction that commits in between is in neither the snapshot nor
   the stream.  `row_view` shows what that does to the consumer's view, and for
   how long: until the next change of the row (`Missed`).
3. **`stop()` during an outage never returns** (`pipeline_stop_outage`): `flush()`
   retries, or waits for the thread that retries, and only the next statement
   would clear the flag that ends the retries.  Its `timeout` is not consulted.
4. **Rows of different tables share a key** (`sink_shared_key`).  The idempotency
   key has no table name, and all snapshot rows have the position of the
   snapshot.  `orders` 1 and `users` 1 share a key, and so do all rows of all
   tables without a primary key.  The indexed JSONL sink takes the second for one
   it has written, skips it, and returns; it is confirmed and lost.

### Disagreements outside the list of runs

Three more configurations are kept beside the runs; each is a counterexample
that `tlc -config <file> <module>` reproduces.

- `SchemaTableSwap.cfg` (`MCSchemaTracker`): RENAME TABLE keeps the old name's
  schema, and CREATE TABLE makes a placeholder only where no schema is known; with
  as many columns the new rows get the old names, types and primary key.  The
  same happens without RENAME if the table is dropped between a snapshot that was
  interrupted and the next one, and created again later (`NamesAreRight`).
- `SchemaVersions.cfg` (`MCSchemaTracker`): after a crash between `apply_ddl` and
  its acknowledgement the statement bumps the version again, and the schema event
  carries another version under the same idempotency key (`VersionCountsDDL`).
- `PipelineMultiRow.cfg` (`MCCDCPipeline`): with transaction boundaries off, a
  batch may end between two rows of one rows event; both have its position, and
  MySQL resumes behind it, so a crash loses the second (`AtLeastOnce`).

Small changes of a run show others.

- `RowView.cfg` with `FirstFile = 9` crosses the rollover: the name with one digit
  more is smaller, no later position is ever committed or replaces an earlier one
  in the view; `PositionCatchesUp` and `ViewCoversSource` fail.
- With `ViewIsSource` as an invariant of `row_view`, an UPDATE that changes a
  primary key leaves its old row in the view, because only the new key is
  delivered; so does a snapshot that was interrupted, whose rows may be deleted
  before the next one; and so does a change that nobody delivers (`missed`).
  `GhostsExplained` says that there are no other reasons.
- Without `Quiet`, `DecodedAsWritten` and `HistoryCoversOffset` fail: the schema of
  after the statement is registered at a position before it.
- `PipelineTransactions.cfg` with `ResumeInclusive = TRUE` violates
  `ReplaySameOutcome`: the simulator resumes at the acknowledged event, so the
  last COMMIT is delivered again without its rows and with `row_count` 0.

The binlog parser passes the library's event packet as the gtid of each position
(mysql_binlog.py:197).  If events have one, `json.dump` raises for it, in the offset
file (manager.py:57) and in the schema file (tracker.py:210), at every write behind
the snapshot.  The library is not in the repository, so this is not a finding here;
the models have it as store failures, which may come at each write.  What is
safe stays safe, the file does not move, and the thread that acknowledged gets
the exception.

Smaller ones: the class comment of `OffsetManager` speaks of a background flush
timer, but only another `ack` writes; `last_delivered_position` may move
backwards, against its docstring; the statements in `Misread` (`MCSchemaTracker`) are not applied as MySQL applies
them; `JsonlFileSink` promises no duplicate lines for replayed offsets, and after
a failed index append a crash produces one, since the event was not in the index
(`IndexedNeverRewritten` states what holds).

### Bounds

- `offset_manager`: four positions, so an acknowledgement can fall below,
  between and above what is committed and what is flushed.  Nothing else is
  bounded; crashes are unlimited.
- `delivery_buffers`: seven events: a DDL before and behind a transaction that
  itself holds a DDL, and a row without BEGIN.  Any event may be passed over.
  `TxCap = 2` makes the transaction overflow when none of its events is
  skipped, complete when one is, and be an orphan when its BEGIN is; the code's
  cap is 10 000 and is compared the same way.  Two callers (the main and the
  parser thread) and two loop threads (one left behind by `stop()`).
  `MaxRetries = 1` bounds only the counter `batches_retried`, not the retries.
- `delivery_live`: four events, `BatchSize = 2`, so the
  single event outside the transaction never fills the buffer.
- pipeline runs: two transactions, or one between two DDLs; a snapshot of one
  row, or two where transactions are checked; a crash (`MaxCrashes`), and in
  `pipeline_queue` two, the second of which may hit
  the recovery from the first.  `TxCap = 10` exceeds the log: what the cap does
  is the subject of `delivery_buffers`.
- `schema_tracker`: four records, so that a row can stand before, between and
  behind two statements, or two rows around one be read in every order with a
  restart; one restart, which with the inclusive resume replays each statement
  up to twice.  The catalogue has each operation the code handles and one
  statement with two clauses.  `FirstWindow = 1`: the 50 characters in which FIRST is
  looked for reach as far as the next clause.
- `sinks`: a snapshot row and a transaction of three events, which is one batch or
  is cut in two (`BatchSize = 2`) that may be cut otherwise after a crash.
  `MaxAttempts = 2`: a call that fails twice raises, and the delivery manager
  calls again without bound.  `MaxCrashes = 1` bounds processes; any number of
  requests may be late.
- `row_view`: up to `MaxUnits = 4` of six units, so that a row can be inserted,
  updated, deleted or moved, and inserted again, with a rotation between, of
  at most `MaxEvents = 12` events together; one crash (`MaxCrashes`);
  `ChunkSize = 2` of three keys, so that a snapshot has two chunks.

### Fairness

Steps of running threads are weakly fair; taking the lock is strongly fair for a
thread that waits for it again and again (the loop thread sleeps between
attempts, and other threads release the lock at the end of every method).  A
call of the consumer returns or raises.  `ConsumerRecovers`, strong fairness of
a successful call, is an assumption about the outside: only the properties that
need it have it, as `FairSpec` in the pipeline and as the antecedent of
`BufferedEventDelivered`; `LoopEndsAfterStop` and the refutation of
`StopCompletes` do without.  Nobody has to call `ack`, `stop()` or `start()`, and
a crash is never fair.  In `SinkDelivery`, `Recovery` is strong fairness of each
step of a write and of an accepted request: the disk and the endpoint are not
broken for ever; a refused batch that is never accepted blocks the pipeline, by
design.  No fairness makes a late request arrive.  In `RowView` the reader is
weakly fair, and so are acknowledgements that raise the committed position; no
fairness is assumed of the file, which only another acknowledgement writes, when
the interval has elapsed, so that no property claims that the file catches up.
Deadlock is not checked: a stopped or
failed pipeline does nothing more.

## 4. Proofs

### OffsetManager

`OffsetManager_proofs`, from `PositionsAssumption` (positions are naturals; the
model values are not), for any set of positions:

- `IInv == TypeOK /\ WriterInv /\ CacheInv /\ ConfirmedInv` is inductive.
  `NoGarbledOffset` alone is not: `Replace` copies the temporary file, so one
  must know that it is complete when `writer = "dumped"` (`WriterInv`).
  `CacheMatchesFile` holds only while nobody writes; `CacheInv` says what holds
  during a write; `ConfirmedInv` that committed and stored positions were
  reported as delivered.
- `TypeCorrect`, `NeverGarbled`, `CacheCoherent` follow; `SnapshotHolds` (an
  action property: no write between the snapshot marks) uses `WriterInv`.
- `Refinement`: with `durable <- Stored`, `Init` implies the abstract `Init` and
  each step is an `Advance` (only `Replace`) or a stutter.  That the register
  never goes back rests on `CacheInv`: what is about to be renamed is at least
  what is stored.

### DeliveryManager

`Delivery_proofs`, for any envelopes, threads, batch size and cap, from
`EnvelopesAssumption` (types), `ParametersAssumption` (names of threads do not
clash, sizes are positive) and `TransactionsAssumption`: among the envelopes with
one transaction id a BEGIN comes before and a COMMIT behind all others.  That is
what the parsers do within one process, which make a fresh id at each BEGIN and
forget it at the COMMIT.

- `TypeCorrect`, action by action.
- `NothingLost`: `IInv == TypeOK /\ LockInv /\ ReceivedInv /\ BeginInv /\
  NoEventLost` is inductive.  `LockInv` (an idle lock has no batch) is needed
  because taking the lock overwrites `batch`; `ReceivedInv` (once a batch is
  past `deliver` the consumer has all of it) because `Return` forgets the batch;
  `BeginInv` because `OpenTransaction` overwrites `pendingTransactions[tx]`, and
  only the freshness of the id makes that harmless.

- `DeliveredInOrder`, that is `QueueInOrder`: adds `QueueInv` to `IInv`.
  `BatchInv` (a batch that holds an event outside transactions is in log order,
  and the buffer is empty meanwhile) carries the argument when a failing
  consumer takes a prefix; it rests on `BufferInv` (the buffer is in log order),
  `PendingInv` (no such event waits in a transaction) and `OriginInv` (whatever
  is on its way was submitted, so a new event is behind it).
- `TransactionsStayWhole` and `CommitsComeLast`.  The first is nearly inductive,
  once it is known that what is buffered under an id starts with its BEGIN and
  has no COMMIT (`OpenInv`) and that no BEGIN gets into the other buffer
  (`NoBeginInv`).  The second needs all of it: a COMMIT that comes through the
  other buffer, because its BEGIN was missed or the transaction outgrew the cap,
  must leave nothing in `_pending_transactions`, and a failed batch, of which the
  consumer has a prefix, must be in log order (`KindInv`).

- `StatisticsBalance`.  Every step keeps the balance by arithmetic but one:
  `GiveUp` turns the length of a batch into members of the set `lost`.  So a
  batch must hold nothing twice (`DistinctInv`) and nothing that was given up
  before, and since batches are made of the buffers, no event may wait in two
  places (`ApartInv`); `FiniteInv` lets cardinalities be compared.

### Sinks

`SinkDelivery_proofs`, for any feed of distinct events, any options, batch size,
number of attempts and of crashes.  All lists are in the order of the feed, and
such a list is determined by its elements; so the invariants speak of sets in
front of whose members nothing is missing (`Closed`), which unions keep.

- `TypeCorrect`; with it `CallInv` (which step of a call belongs to which sink),
  `RequestInv` (a late request is a slice of the feed under its own key) and
  `SeenInv` (`_seen_keys` has the index).
- `NeverRewritten` (`IndexedNeverRewritten`) follows from `SeenInv`.
- `IndexBehindFile` (`IndexNeverAhead`), from `Appending` (the option `append`,
  which is the default): `FileInv` says that keys are in the file before they are
  in `_seen_keys`, and rows before their keys are appended.
- `SinksKeepLedger`, the refinement `ImplementsLedger`, and `ConfirmedNeverLost`,
  from `Appending` and `Distinguishing` (keys identify events where there is an
  index or an endpoint; `sink_shared_key` is what happens otherwise).
  `OutputInv` is the strengthening: the output is in order and closed, it stays so
  with the batch in flight and with any late request added, and every key that
  the endpoint has handled stands for events it has.  A step maps to `Receive` of
  what it adds, `Confirm` to the abstract one.
- `TransactionsSeenWhole`, from the same hypotheses, and `TransactionsOnce`,
  from none: with `cut = "transaction"` a batch and a late request that hold an
  event of a transaction are that transaction (`BatchInv`), and what was applied
  is known under the key of that very slice (`AppliedInv`).

### CDCPipeline

For any log with growing positions (`LogAssumption`), any number of snapshot
rows, batch size, cap, retries and crashes (`ParametersAssumption`).  A step of
the pipeline is a step of each manager or leaves it alone (`DeliverySteps`,
`OffsetSteps`), so types are proved of the managers' steps once.  The theorems of
`Delivery_proofs` cannot be taken over: after a crash the log is read again, under
the ids of before and with other row counts, and `TransactionsAssumption` does
not hold of that.

`CDCPipeline_proofs`:

- `TypeCorrect`, from `TypesInv`, whose further parts say who holds the lock when
  (`OwnerInv`), that only committed positions are written (`WriterInv`), and
  that a transaction counts no more rows than were read (`CountInv`).
- `SnapshotsPrecedeOffsets` (`SnapshotBeforeOffset`), without a hypothesis: it
  holds for MySQL's snapshot position too, and on any log.  `PhaseInv` ties what
  `start()` has done to the buffers and to the snapshot mark, `RowsInv` follows
  the rows from the buffer to the consumer, `RecordInv` says that every position
  in memory or in a file, the temporary one included, has its snapshot.
- `QueueDeliversAtLeastOnce`, `QueueKeepsLogOrder`, from
  `OneQueue`: boundaries off, a position for every event, and an atomic snapshot
  position.  Each hypothesis is the negation of a counterexample
  (`pipeline_mixed_log`, `PipelineMultiRow.cfg`, `pipeline_snapshot_gap`).
  `QueueInv` is inductive: what is on its way was read from the log
  (`OriginInv`), a batch is given up only when nobody reads any more
  (`SurrenderInv`), batch and buffer are in log order, the batch first
  (`OrderInv`), and every event that was read and is not with the consumer is in
  one of them (`CoverInv`).  The inclusive and the exclusive resume are both
  covered.

`CDCPipeline_transaction_proofs`:

- `TransactionsDeliverAtLeastOnce` and `TransactionsKeepLogOrder`, from
  `WholeTransactions`: boundaries are on, the snapshot position is atomic, and
  every delivered event belongs to a transaction that has its BEGIN and COMMIT in
  the log, fits the cap, and is over before the next one starts.  Again
  `pipeline_mixed_log` and `pipeline_snapshot_gap` are what happens otherwise;
  TLC confirms that the log of `pipeline_transactions` satisfies it.  The
  argument: only the parser's thread delivers what is not behind the offset yet,
  at a COMMIT (`ContentInv`); at that moment no other transaction is open
  (`OpenInv`); so all that was read and is not with the consumer is in that batch
  (`KeptInv`, `BatchHasTheRest`), in log order (`SequenceInv`).  The loop's
  deliveries of stragglers, which come from reading a transaction from its
  middle, lie behind the offset; and offsets lie between transactions
  (`BoundaryInv`).
- `TransactionsReplayTheSame`, for a parser that resumes behind the offset:
  it reads every transaction from its BEGIN (`FromBeginInv`), so that the
  counter has all its rows at the COMMIT (`CountedInv`), as it did the first
  time (`WholeInv`).  What is delivered again is the same but for the transaction
  id, and the theorem says no more: `Content`.  For the simulator it is false
  (section 3).

### RowView

`RowView_proofs`, for any binlogs that satisfy `BinlogsAssumption` and
`ChangesAssumption`, any finite set of keys, chunk size and number of crashes.

- `TypeCorrect`.
- `IdsSeparateTransactions` (`TransactionsTagged`).  `IdInv`: an id names the
  process and the BEGIN that made it, and the open one names the transaction of
  the next event; here `BinlogsAssumption` is used.  `ReadInv`: a process has tagged
  only what it read.  `OpenInv`: the id of a BEGIN is still the open one, or its
  transaction is over.
- `ViewHasEveryRow` (`ViewCoversSource`) and `GhostsAreAccountedFor`
  (`GhostsExplained`), from `SameWidth`: no file number gets another digit.  Without
  it the order of positions is not the order of the log (`FirstFile = 9`, section
  3); with it, it is (`PositionsGrow`).  The proof of both goes along `high`, one
  event at a time, and needs no induction over the log.  `ValueInv` is the
  centre: every entry of the view is what the table holds behind the entry's
  event, or of the read view it comes from, and then `missed` has what was changed
  since.  So an entry is right for `high` as soon as no later event changed the
  key, and a step of the stream has to show this for the keys of its event only
  (`StreamedInv` follows the rows of an event that was delivered in part).
  `ChunkInv` says that a snapshot has delivered all keys of rank up to `chunkAt`,
  and `NoneLeftOut` that an empty page means there are no others: pages of
  LIMIT and OFFSET leave no key out.  `FreshInv` bounds what a snapshot that was not
  interrupted may leave.  That an event changes each row once is needed: two
  changes of a row at one position would be one key and one position, and the
  second would not replace the first.

### SchemaTracker

`SchemaTracker_proofs`, for any log, any statements of the kinds the model has
(`StatementsAssumption`: types, and a table that exists has columns), any number of
restarts.

- `TypeCorrect`, from `Inv`, which has the state of the writer, the reader and
  the lists.  That a DDL leaves a schema again is shown of each loop of
  `apply_ddl_to_schema` by the lemmas about folds.
- `LookupsFindLatest` (`LookupIsLatest`), without a hypothesis: lists stay in
  order (`PutIs`), what was saved in order is loaded as it was (`LoadedIs`), and
  the binary search finds in its window what a search of all entries finds
  (`SearchIs`, along the width of the window).
- `RowsDecodedAsWritten` and `HistoryNeverBehindOffset` (`DecodedAsWritten`,
  `HistoryCoversOffset`), from `Understood` of the statements.  Both have `Quiet`,
  that no statement fell between the position of the snapshot and the time its
  schema was fetched, as their antecedent; without it they are false.  Neither
  is inductive: `CoverInv` says that each entry is right for its own position,
  and that a history has an entry for every statement between the snapshot and
  some position (`Complete`), which for the list in memory is not behind the
  reader, and for the file not behind the offset (`Reaches`).  Between two
  statements the schema is the same (`SchemaSteady`), so the latest entry is
  right for every position up to there (`LatestRight`).  A statement that is read
  the first time finds the schema in front of it, one that is read again the one
  behind it (`DDLRight`); `Understood` is needed for both.
- `SingleUnderstood`: statements that are `Single` are `Understood`, on every table
  and whatever its version, so for them the two theorems above hold outright.  On
  one clause each loop is its step (`DropsOnce` and so on), which is compared with
  `SourceAlter` operation by operation (`OnceUnderstood`); that a column is not
  added twice follows from the distinct names the server insists on (`AddNew`).

### Only model-checked

Liveness (`BufferedEventDelivered`, `LoopEndsAfterStop`, `EverythingDelivered`,
`StopCompletes`, `FeedConfirmed`, `PositionCatchesUp`), which is out of the prover's
reach.  The library's induction theorems are, too; where a proof needs
induction, over a fold or a search, it takes the least counterexample instead
(`LeastNumber` in `Lists_proofs`).  Of the statement of two clauses in `Evolution`,
which is not `Single`, that it is `Understood` is checked on all tables of three
columns, and not proved.

## 5. Not modelled yet, or left out

- `ROLLBACK` and `SAVEPOINT` statements in the binlog, which the parser takes for
  DDLs, so that a transaction that ends with one stays open and what follows gets
  its id (MySQL writes them only with non-transactional tables); the table name it guesses from a statement; its idle mode without the
  replication library.
- `flush_every_batch=False`, which the factory never passes, and `append=False` in
  the run of the sinks: the option is in `JsonlSink`, and every promise about
  earlier batches is void with it.
- `deliver_snapshot_batch`, which nothing in the repository calls and which
  would deliver without the lock; the progress callback, which only displays.
- Starting the same pipeline object again after `stop()`; `Restart` is a new
  process.
- The tracker's `schema_provider`, which `CDCPipeline` never passes.
- Configuration parsing, the command line and the demo: pure functions or I/O
  without state of their own.

## 6. Plan

Done, in order of importance: `OffsetManager`, `Delivery`, `CDCPipeline`, proofs
of the first two, `SchemaTracker`, the sinks behind the consumer contract, the
binlog parser with the positions and keys of its rows.

All safety properties of the passing runs are proved, and both refinements.

Later: `start()` after `stop()` on one pipeline object, with stale pending
transactions and surviving threads.
