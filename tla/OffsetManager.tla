---------------------------- MODULE OffsetManager ----------------------------
(***************************************************************************)
(* OffsetManager and FileOffsetStore, cdc_pipeline/offset_manager/manager.py.*)
(*                                                                         *)
(* Every public method runs under one RLock, so each is one action, except *)
(* that a method which ends in FileOffsetStore.write() spans several: the  *)
(* file system makes progress between them and the process may die in any  *)
(* of them.  "writer" says where in write() the lock holder is; while it is *)
(* not idle no other method can run.                                       *)
(*                                                                         *)
(* Positions are naturals in log order (BinlogPosition compares by         *)
(* (file, offset)).  The wall clock only decides whether flush_interval_ms *)
(* has elapsed, which is a free choice here.                               *)
(***************************************************************************)
EXTENDS Integers

CONSTANTS Positions,   \* the binlog positions that can be acknowledged
          NoOffset,    \* Python's None: nothing committed
          Absent,      \* the file does not exist
          Garbled,     \* the file holds a truncated JSON document
          StoreMayFail \* whether the file system may raise OSError

ASSUME PositionsAssumption ==
    /\ Positions \subseteq Nat
    /\ NoOffset \notin Nat
    /\ Absent \notin Nat
    /\ Garbled \notin Nat
    /\ Absent # Garbled
    /\ StoreMayFail \in BOOLEAN

VARIABLES
    committed,           \* _committed
    lastFlushed,         \* _last_flushed
    dirty,               \* _dirty
    snapshotModeActive,  \* _snapshot_mode_active
    writer,              \* how far the lock holder is in FileOffsetStore.write
    offsetFile,          \* content of _file_path
    tmpFile,             \* content of _tmp_path
    confirmed            \* history: every position ever reported as delivered

memory == <<committed, lastFlushed, dirty, snapshotModeActive, writer>>
files  == <<offsetFile, tmpFile>>
offsetVars == <<memory, files, confirmed>>

Offsets  == Positions \cup {NoOffset}
Contents == Positions \cup {Absent, Garbled}

-----------------------------------------------------------------------------
(* FileOffsetStore.read: a missing or unparsable file is no record. *)
Stored == IF offsetFile \in Positions THEN offsetFile ELSE NoOffset

(* Mutant: the None that read() returns is not checked. *)
LoadUnchecked ==
    /\ committed' = offsetFile
    /\ lastFlushed' = offsetFile
    /\ dirty' = FALSE
    /\ snapshotModeActive' = FALSE
    /\ writer' = "idle"

(* _load_initial, run by __init__: the manager of a new process believes   *)
(* exactly what the file says.                                             *)
LoadInitial ==
    /\ committed' = Stored
    /\ lastFlushed' = Stored
    /\ dirty' = FALSE
    /\ snapshotModeActive' = FALSE
    /\ writer' = "idle"

Init ==
    /\ committed = NoOffset
    /\ lastFlushed = NoOffset
    /\ dirty = FALSE
    /\ snapshotModeActive = FALSE
    /\ writer = "idle"
    /\ offsetFile = Absent
    /\ tmpFile = Absent
    /\ confirmed = {}

-----------------------------------------------------------------------------
(* Mutant: any other position replaces the committed one. *)
Differs(p) == committed # p

(* _advance: record p only if it is beyond what is already committed. *)
Supersedes(p) == committed \in Positions => p > committed
Advanced(p) == IF Supersedes(p) THEN p ELSE committed

(* _advance with nothing written: the flush interval has not elapsed. *)
Record(p) ==
    /\ committed' = Advanced(p)
    /\ dirty' = (dirty \/ Supersedes(p))
    /\ UNCHANGED <<writer, tmpFile>>

(* _advance then _flush: either the file already holds the committed       *)
(* position, or write() starts by truncating the temporary file.           *)
Flush(p) ==
    /\ committed' = Advanced(p)
    /\ \/ /\ Advanced(p) = lastFlushed
          /\ dirty' = FALSE
          /\ UNCHANGED <<writer, tmpFile>>
       \/ /\ Advanced(p) # lastFlushed
          /\ dirty' = (dirty \/ Supersedes(p))
          /\ writer' = "opened"
          /\ tmpFile' = Garbled

-----------------------------------------------------------------------------
(* ack(position). *)
AckDuringSnapshot(p) ==
    /\ snapshotModeActive
    /\ UNCHANGED <<committed, dirty, writer, tmpFile>>

AckDeferred(p) ==
    /\ ~snapshotModeActive
    /\ Record(p)

(* Mutant: acknowledgements count during a snapshot. *)
AckAlwaysFlushing(p) ==
    /\ dirty \/ Supersedes(p)
    /\ Flush(p)

AckFlushing(p) ==
    /\ ~snapshotModeActive
    /\ dirty \/ Supersedes(p)
    /\ Flush(p)

Ack(p) ==
    /\ writer = "idle"
    /\ AckDuringSnapshot(p) \/ AckDeferred(p) \/ AckFlushing(p)
    /\ confirmed' = confirmed \cup {p}
    /\ UNCHANGED <<snapshotModeActive, lastFlushed, offsetFile>>

MarkSnapshotInProgress ==
    /\ writer = "idle"
    /\ snapshotModeActive' = TRUE
    /\ UNCHANGED <<committed, lastFlushed, dirty, writer, files, confirmed>>

(* mark_snapshot_complete(start_position): _flush(force=True). *)
MarkSnapshotComplete(p) ==
    /\ writer = "idle"
    /\ snapshotModeActive' = FALSE
    /\ Flush(p)
    /\ confirmed' = confirmed \cup {p}
    /\ UNCHANGED <<lastFlushed, offsetFile>>

-----------------------------------------------------------------------------
(* FileOffsetStore.write: json.dump and fsync, then os.replace.  _flush    *)
(* updates its own fields after write() returns; they are in the same step *)
(* as the replace because only the lock holder could see them in between.  *)
DumpTmp ==
    /\ writer = "opened"
    /\ tmpFile' = committed
    /\ writer' = "dumped"
    /\ UNCHANGED <<committed, lastFlushed, dirty, snapshotModeActive,
                   offsetFile, confirmed>>

(* Mutant: the temporary file is renamed before it is written. *)
ReplaceTooEarly ==
    /\ writer \in {"opened", "dumped"}
    /\ offsetFile' = tmpFile
    /\ tmpFile' = Absent
    /\ lastFlushed' = committed
    /\ dirty' = FALSE
    /\ writer' = "idle"
    /\ UNCHANGED <<committed, snapshotModeActive, confirmed>>

(* Mutant: _last_flushed is not updated. *)
ReplaceOnly ==
    /\ writer = "dumped"
    /\ offsetFile' = tmpFile
    /\ tmpFile' = Absent
    /\ dirty' = FALSE
    /\ writer' = "idle"
    /\ UNCHANGED <<committed, lastFlushed, snapshotModeActive, confirmed>>

Replace ==
    /\ writer = "dumped"
    /\ offsetFile' = tmpFile
    /\ tmpFile' = Absent
    /\ lastFlushed' = committed
    /\ dirty' = FALSE
    /\ writer' = "idle"
    /\ UNCHANGED <<committed, snapshotModeActive, confirmed>>

(* An OSError out of open, dump or replace: nothing catches it here, the   *)
(* fields _flush would have set keep their values, and the exception goes  *)
(* to the caller of ack or mark_snapshot_complete.                         *)
StoreFails ==
    /\ StoreMayFail
    /\ writer \in {"opened", "dumped"}
    /\ writer' = "failed"
    /\ UNCHANGED <<committed, lastFlushed, dirty, snapshotModeActive, files,
                   confirmed>>

ErrorPropagates ==
    /\ writer = "failed"
    /\ writer' = "idle"
    /\ UNCHANGED <<committed, lastFlushed, dirty, snapshotModeActive, files,
                   confirmed>>

(* The process dies at any point, in the middle of a write included, and a *)
(* new one constructs its manager from what is on disk.                    *)
Restart == LoadInitial /\ UNCHANGED <<files, confirmed>>

-----------------------------------------------------------------------------
Next ==
    \/ \E p \in Positions : Ack(p) \/ MarkSnapshotComplete(p)
    \/ MarkSnapshotInProgress
    \/ DumpTmp
    \/ Replace
    \/ StoreFails
    \/ ErrorPropagates
    \/ Restart

Spec == Init /\ [][Next]_offsetVars

-----------------------------------------------------------------------------
(* The variables have their types.                                         *)
TypeOK ==
    /\ committed \in Offsets
    /\ lastFlushed \in Offsets
    /\ dirty \in BOOLEAN
    /\ snapshotModeActive \in BOOLEAN
    /\ writer \in {"idle", "opened", "dumped", "failed"}
    /\ offsetFile \in Contents
    /\ tmpFile \in Contents
    /\ confirmed \subseteq Positions

(* The crash-safety claim of FileOffsetStore: whatever step of a write a   *)
(* crash falls into, the offset file is missing or holds one complete      *)
(* record of a position that was reported as delivered -- never a prefix   *)
(* of a document, never a position nobody confirmed.                       *)
NoGarbledOffset == offsetFile \in confirmed \cup {Absent}

(* The manager never believes more is on disk than is: its cached          *)
(* _last_flushed is the file's content whenever the lock is free, and a    *)
(* manager that is not dirty has nothing left to write.  A stale cache     *)
(* would make _flush skip a write that is needed (manager.py:192).         *)
CacheMatchesFile ==
    writer \in {"idle", "failed"} =>
        /\ lastFlushed = Stored
        /\ ~dirty => committed = Stored

(* While a snapshot is in progress no acknowledgement reaches the file, so *)
(* a crash in the middle of a snapshot leaves the next run with whatever   *)
(* it would have had without that snapshot.                                *)
SnapshotHoldsOffset ==
    [][snapshotModeActive /\ snapshotModeActive' => offsetFile' = offsetFile]_offsetVars

(* The manager is a durable, forward-only register of confirmed positions: *)
(* acknowledgements out of order, failed writes and crashes included.      *)
DO == INSTANCE DurableOffset WITH durable <- Stored
ImplementsDurableOffset == DO!Spec
=============================================================================
