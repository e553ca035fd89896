--------------------------- MODULE SchemaTracker ---------------------------
(***************************************************************************)
(* SchemaTracker and FileSchemaHistoryStore (schema_tracker/tracker.py),   *)
(* the rows and DDL statements of one table that reach them through        *)
(* CDCPipeline and EventTransformer, and crashes.                          *)
(*                                                                         *)
(* The binlog (log) grows while the pipeline reads it; a position is an    *)
(* index of it.  Each record carries the schema the table has behind it,   *)
(* which the pipeline cannot see: a row image is positional.  Tables do    *)
(* not influence each other, so one is enough.                             *)
(***************************************************************************)
EXTENDS SchemaDDL

CONSTANTS InitialSchema,  \* of the table, before the log
          Statements,     \* the DDL statements the database may execute
          ResumeSteps,    \* how far behind its start position a stream may begin
          MaxLog,         \* bound: records in the log
          MaxCrashes      \* bound: restarts

ASSUME BoundsAssumption ==
    MaxLog \in Nat /\ MaxCrashes \in Nat /\ ResumeSteps \subseteq {0, 1}

ASSUME StatementsAssumption ==
    /\ InitialSchema \in Schemas /\ (InitialSchema # NoSchema => InitialSchema.columns # <<>>)
    /\ \A ddl \in Statements :
          /\ ddl.kind \in {"alter", "create", "drop", "rename", "other"}
          /\ ddl.kind = "alter" => ddl.clauses \in Seq(Clauses)
          /\ ddl.kind = "create" => ddl.schema \in Schemas /\ ddl.schema.columns # <<>>

VARIABLES
    log,        \* what the database has written
    history,    \* _history of the table: a list of _SchemaEntry
    persisted,  \* what loading the schema file yields (<<>>: missing or truncated)
    tmpFile,    \* the same for its temporary file
    writer,     \* how far _persist is in FileSchemaHistoryStore.save
    reader,     \* "off", "position", "snapshot", "streaming", or "dead" of an exception
    next,       \* the next position the parser dispatches
    snapshotAt, \* position of the last snapshot begun
    fetchedAt,  \* history: how far the log was when its schema was fetched
    offset,     \* the persisted offset, NoOffset if there is none
    event,      \* the envelope just submitted
    crashes

files  == <<persisted, tmpFile>>
taken  == <<snapshotAt, fetchedAt>>
reading == <<reader, next, taken>>
vars   == <<log, history, files, writer, reading, offset, event, crashes>>

NoOffset == -1
NoEvent  == [type |-> "none"]
Now      == Len(log)
TrueSchema(p) == IF p = 0 THEN InitialSchema ELSE log[p].schema

-----------------------------------------------------------------------------
(* Mutant: an entry always goes to the end.                                *)
PutLast(entries, p, schema) == Append(entries, [pos |-> p, schema |-> schema])

(* _put: in front of the first entry at a later position.                  *)
Put(entries, p, schema) ==
    LET later == {i \in DOMAIN entries : entries[i].pos > p}
    IN InsertAt(entries, IF later = {} THEN Len(entries) + 1 ELSE Min(later),
                [pos |-> p, schema |-> schema])

(* _load: what the file holds, sorted by position (a stable sort).         *)
Loaded(entries) ==
    LET Goes(i, j) == \/ entries[i].pos < entries[j].pos
                      \/ entries[i].pos = entries[j].pos /\ i <= j
        Rank(i) == Cardinality({j \in DOMAIN entries : Goes(j, i)})
    IN [r \in DOMAIN entries |-> entries[CHOOSE i \in DOMAIN entries : Rank(i) = r]]

(* Mutant: the newest schema, whatever the position.                       *)
SchemaNow(entries, p) == IF entries = <<>> THEN NoSchema ELSE Last(entries).schema

(* schema_at(position): a binary search for the last entry at or before p, *)
(* the first entry if there is none.                                       *)
SchemaAt(entries, p) ==
    LET n == Len(entries)
        search[at \in (1..n + 1) \X (0..n) \X (1..n)] ==
            LET lo  == at[1]
                hi  == at[2]
                ans == at[3]
                mid == (lo + hi) \div 2
            IN IF lo > hi THEN ans
               ELSE IF entries[mid].pos <= p THEN search[<<mid + 1, hi, mid>>]
                                             ELSE search[<<lo, mid - 1, ans>>]
    IN IF entries = <<>> THEN NoSchema ELSE entries[search[<<1, n, 1>>]].schema

-----------------------------------------------------------------------------
Init ==
    /\ log = <<>>
    /\ history = <<>>
    /\ persisted = <<>> /\ tmpFile = <<>>
    /\ writer = "idle"
    /\ reader = "off" /\ next = 0 /\ snapshotAt = 0 /\ fetchedAt = 0
    /\ offset = NoOffset
    /\ event = NoEvent
    /\ crashes = 0

(* The database changes a row or executes a statement.                     *)
SourceWrites ==
    /\ Now < MaxLog
    /\ \/ /\ TrueSchema(Now) # NoSchema
          /\ log' = Append(log, [type |-> "row", schema |-> TrueSchema(Now)])
       \/ \E ddl \in Statements :
              /\ Legal(ddl, TrueSchema(Now))
              /\ log' = Append(log, [type |-> "ddl", ddl |-> ddl,
                                     schema |-> SourceDDL(ddl, TrueSchema(Now))])
    /\ UNCHANGED <<history, files, writer, reading, offset, event, crashes>>

-----------------------------------------------------------------------------
(* _persist starts: save() opens, and truncates, the temporary file.       *)
OpenTmp ==
    /\ writer' = "opened"
    /\ tmpFile' = <<>>
    /\ UNCHANGED persisted

(* fetch_schema: whatever happened to the table before, it has version 1.  *)
SnapshotSchema(p) == [TrueSchema(p) EXCEPT !.version = 1]

(* CDCPipeline.start without an offset: a snapshot at the current end of   *)
(* the log.                                                                *)
StartSnapshot ==
    /\ reader = "off" /\ offset = NoOffset
    /\ reader' = "position"
    /\ snapshotAt' = Now
    /\ fetchedAt' = Now
    /\ UNCHANGED <<log, history, files, writer, next, offset, event, crashes>>

(* When the turn of the table comes: fetch_schema, outside of the read     *)
(* view, and register_snapshot_schema at the position of the snapshot.  A  *)
(* table that is gone is not in list_tables.                               *)
FetchSchema ==
    /\ reader = "position"
    /\ reader' = "snapshot"
    /\ fetchedAt' = Now
    /\ IF TrueSchema(Now) # NoSchema
       THEN /\ history' = Put(history, snapshotAt, SnapshotSchema(Now))
            /\ OpenTmp
       ELSE UNCHANGED <<history, files, writer>>
    /\ UNCHANGED <<log, next, snapshotAt, offset, event, crashes>>

(* Mutant: the event behind the one to begin with.                         *)
StreamTooFar(p) ==
    /\ reader' = "streaming"
    /\ next' \in {p + step + 1 : step \in ResumeSteps}
    /\ UNCHANGED <<log, history, files, writer, taken, event, crashes>>

(* The simulator looks for an event at or behind its start position (0),   *)
(* MySQL continues behind it (1).                                          *)
StreamFrom(p) ==
    /\ reader' = "streaming"
    /\ next' \in {p + step : step \in ResumeSteps} \ {0}
    /\ UNCHANGED <<log, history, files, writer, taken, event, crashes>>

SnapshotComplete ==
    /\ reader = "snapshot" /\ writer = "idle"
    /\ offset' = snapshotAt
    /\ StreamFrom(snapshotAt)

StartFromOffset ==
    /\ reader = "off" /\ offset # NoOffset
    /\ StreamFrom(offset)
    /\ UNCHANGED offset

-----------------------------------------------------------------------------
(* _row_to_columns and _extract_primary_key: values are given the names    *)
(* and types of the schema's columns if there are as many, and anonymous   *)
(* names otherwise; the primary key takes its columns from the schema.     *)
Decoded(p, schema) ==
    [type |-> "row", pos |-> p,
     named |-> Len(schema.columns) = Len(TrueSchema(p).columns),
     columns |-> schema.columns, pks |-> schema.pks]

Reading(type) ==
    /\ reader = "streaming" /\ writer = "idle"
    /\ next <= Now /\ log[next].type = type

(* _on_raw_row.                                                            *)
OnRow ==
    /\ Reading("row")
    /\ event' = Decoded(next, SchemaAt(history, next))
    /\ next' = next + 1
    /\ UNCHANGED <<log, history, files, writer, reader, taken, offset, crashes>>

(* Mutant: the statement is applied in memory only.                        *)
OnDDLInMemory ==
    /\ Reading("ddl")
    /\ history' = Put(history, next, ApplyDDL(log[next].ddl, SchemaAt(history, next)))
    /\ event' = [type |-> "schema", pos |-> next, version |-> 1]
    /\ next' = next + 1
    /\ UNCHANGED <<log, files, writer, reader, taken, offset, crashes>>

(* _on_raw_ddl, apply_ddl: the statement is applied to the schema at its   *)
(* own position, which holds its result already if it is read again.       *)
OnDDL ==
    /\ Reading("ddl")
    /\ history' = Put(history, next, ApplyDDL(log[next].ddl, SchemaAt(history, next)))
    /\ OpenTmp
    /\ UNCHANGED <<log, reading, offset, event, crashes>>

(* save: json.dump and fsync into the temporary file.                      *)
DumpTmp ==
    /\ writer = "opened"
    /\ tmpFile' = history
    /\ writer' = "dumped"
    /\ UNCHANGED <<log, history, persisted, reading, offset, event, crashes>>

(* The version in the schema event: that of the new schema, or, if the     *)
(* table is gone, the current_schema_version.                              *)
VersionAt(p) ==
    LET new == SchemaAt(history, p)
    IN IF new # NoSchema THEN new.version ELSE Last(history).schema.version

(* transform_ddl.                                                          *)
SchemaEvent(p) == [type |-> "schema", pos |-> p, version |-> VersionAt(p)]

(* save: os.replace.  During streaming _on_raw_ddl then submits its event. *)
Replace ==
    /\ writer = "dumped"
    /\ persisted' = tmpFile
    /\ tmpFile' = <<>>
    /\ writer' = "idle"
    /\ IF reader = "streaming"
       THEN /\ event' = SchemaEvent(next)
            /\ next' = next + 1
       ELSE UNCHANGED <<event, next>>
    /\ UNCHANGED <<log, history, reader, taken, offset, crashes>>

(* An OSError in save: it ends start() or the parser thread.               *)
StoreFails ==
    /\ writer # "idle"
    /\ writer' = "idle"
    /\ reader' = "dead"
    /\ UNCHANGED <<log, history, files, next, taken, offset, event, crashes>>

-----------------------------------------------------------------------------
(* A submitted event is confirmed and its position persisted.              *)
Acknowledge ==
    /\ reader \in {"streaming", "dead"} /\ offset # NoOffset
    /\ offset' \in (offset + 1)..(next - 1)
    /\ UNCHANGED <<log, history, files, writer, reading, event, crashes>>

(* The process ends at any point; a new one loads the file.                *)
Restart ==
    /\ crashes < MaxCrashes
    /\ crashes' = crashes + 1
    /\ history' = Loaded(persisted)
    /\ writer' = "idle" /\ reader' = "off" /\ next' = 0
    /\ event' = NoEvent
    /\ UNCHANGED <<log, files, taken, offset>>

Next ==
    \/ SourceWrites
    \/ StartSnapshot \/ FetchSchema \/ SnapshotComplete \/ StartFromOffset
    \/ OnRow \/ OnDDL
    \/ DumpTmp \/ Replace \/ StoreFails
    \/ Acknowledge
    \/ Restart

Spec == Init /\ [][Next]_vars

-----------------------------------------------------------------------------
Entries == [pos : 0..MaxLog, schema : Schemas]

(* The variables have their types.                                         *)
TypeOK ==
    /\ Now <= MaxLog
    /\ {history, persisted, tmpFile} \subseteq Seq(Entries)
    /\ writer \in {"idle", "opened", "dumped"}
    /\ reader \in {"off", "position", "snapshot", "streaming", "dead"}
    /\ next \in 0..(MaxLog + 1) /\ snapshotAt \in 0..MaxLog /\ fetchedAt \in snapshotAt..MaxLog
    /\ offset \in NoOffset..MaxLog
    /\ event.type \in {"none", "row", "schema"}
    /\ crashes \in 0..MaxCrashes

(* The lookup by binary search returns the newest entry at or before the   *)
(* position, for every position, in whatever order entries arrived: again  *)
(* after a restart, and from two snapshots.                                *)
LookupIsLatest ==
    \A p \in 0..Now :
        LET upTo == {i \in DOMAIN history : history[i].pos <= p}
        IN upTo # {} => SchemaAt(history, p) = history[Max(upTo)].schema

(* The table was created since the snapshot; the tracker does not parse    *)
(* CREATE TABLE.                                                           *)
Recreated(p) == \E q \in (snapshotAt + 1)..p : log[q].type = "ddl" /\ log[q].ddl.kind = "create"

(* No statement was executed between the position of the snapshot and the  *)
(* time at which the schema was fetched: only then is it the one the table *)
(* had at that position, where register_snapshot_schema puts it.           *)
Quiet == \A q \in (snapshotAt + 1)..fetchedAt : log[q].type # "ddl"

(* Two schemas give a row the same names, types and key.                   *)
SameLayout(s, t) == s.columns = t.columns /\ s.pks = t.pks

(* Applied to the schema in front of it, or (read again) to the one behind *)
(* it, an ALTER yields what the server makes of it, whatever the version.  *)
Understood(statements, schemas, versions) ==
    \A ddl \in statements, t \in schemas, v \in versions :
        ddl.kind = "alter" /\ t # NoSchema /\ Legal(ddl, t) =>
            LET after == SourceAlter(t, ddl.clauses)
                Becomes(s) == Alter([s EXCEPT !.version = v], ddl.clauses)
            IN SameLayout(Becomes(t), after) /\ SameLayout(Becomes(after), after)

(* A statement of one clause that drops a column, or changes its type or   *)
(* its name and leaves it in its place, or adds one behind the others,     *)
(* behind a certain one, or, in so many words, in front; and that makes no *)
(* primary key.                                                            *)
Single(ddl) ==
    ddl.kind = "alter" =>
        /\ Len(ddl.clauses) = 1
        /\ LET clause == ddl.clauses[1]
           IN  /\ clause.rest # "key"
               /\ \/ clause.op = "drop"
                  \/ clause.op = "modify" /\ clause.new = clause.name /\ clause.place = "last"
                  \/ clause.op = "change" /\ clause.place = "last"
                  \/ /\ clause.op = "add" /\ clause.new = clause.name
                     /\ clause.name # "first"
                     /\ clause.place = "first" => clause.rest = "short"

(* A row gets the names, types and primary key it was written under, even  *)
(* if it is read again after statements that changed them: the transformer *)
(* "asks the tracker for the schema as it was at that binlog position"     *)
(* (schema_tracker/__init__.py:7).  Rows behind a CREATE TABLE are the     *)
(* subject of NamesAreRight, and a statement executed while a snapshot is  *)
(* on its way is misplaced.                                                *)
DecodedAsWritten ==
    Quiet /\ event.type = "row" /\ ~Recreated(event.pos) =>
        event.named /\ SameLayout(event, TrueSchema(event.pos))

(* A row whose layout the tracker does not know has anonymous columns; one *)
(* with names has the right ones: "it monitors the incoming DDL stream     *)
(* (CREATE / ALTER / DROP / RENAME TABLE) and keeps its versioned history  *)
(* up to date" (schema_tracker/__init__.py:12).                            *)
NamesAreRight ==
    event.type = "row" /\ event.named => SameLayout(event, TrueSchema(event.pos))

(* Whatever the offset covers can be decoded by the next process: the      *)
(* schema file is never behind the offset file.  Both are written by       *)
(* different threads and a crash may come between.                         *)
HistoryCoversOffset ==
    Quiet /\ offset # NoOffset =>
        \A p \in snapshotAt..offset :
            Recreated(p) \/ TrueSchema(p) = NoSchema
                         \/ SameLayout(SchemaAt(Loaded(persisted), p), TrueSchema(p))

(* "Every DDL bumps the table's schema version by one" (__init__.py:14): a *)
(* schema event carries the number of statements since the snapshot.       *)
VersionCountsDDL ==
    event.type = "schema" =>
        event.version = 1 + Cardinality({p \in (snapshotAt + 1)..event.pos : log[p].type = "ddl"})
=============================================================================
