----------------------------- MODULE BinlogParser -----------------------------
(***************************************************************************)
(* MySQLBinlogParser, cdc_pipeline/log_parser/mysql_binlog.py: reads the   *)
(* events of a binlog one after the other, keeps the id of the transaction *)
(* that is open, and reports begins, commits, statements and single rows.  *)
(*                                                                         *)
(* A transaction opens with a QUERY event BEGIN and ends with an XID event *)
(* or a QUERY event COMMIT.  Every other QUERY event is taken for a DDL.   *)
(* An event has the position of its end; reading starts behind one.        *)
(***************************************************************************)
EXTENDS Integers, Sequences

CONSTANT NoTx        \* no open transaction

VARIABLES
    binlog,     \* sequence of [kind, file, pos, tx, changes, table]
    next,       \* the event at hand
    row,        \* how many of its rows were reported
    currentTx,  \* _current_tx_id
    run,        \* which process reads
    reported    \* the latest callback: [type, tx, event, row]

parserVars == <<next, row, currentTx, reported>>

Event == binlog[next]
Reading(kind) == next <= Len(binlog) /\ Event.kind = kind
EventDone == next' = next + 1 /\ row' = 0
Report(type, tx) ==
    reported' = [type |-> type, tx |-> tx, event |-> next, row |-> row']

(* _make_tx_id: from the position and the time at which it is read. *)
MakeTxId == <<next, run>>

QueryBegin ==
    /\ Reading("begin")
    /\ EventDone
    /\ currentTx' = MakeTxId
    /\ Report("tx_begin", currentTx')

(* A COMMIT whose BEGIN was not read is not reported. *)
QueryCommit ==
    /\ Reading("commit")
    /\ EventDone
    /\ IF currentTx = NoTx THEN UNCHANGED reported ELSE Report("tx_commit", currentTx)
    /\ currentTx' = NoTx

QueryOther ==
    /\ Reading("query")
    /\ EventDone
    /\ Report("schema", currentTx)
    /\ UNCHANGED currentTx

(* Mutant: the id is kept after the commit. *)
XidKeepsTx ==
    /\ Reading("xid")
    /\ EventDone
    /\ Report("tx_commit", IF currentTx = NoTx THEN MakeTxId ELSE currentTx)
    /\ UNCHANGED currentTx

(* An XID whose BEGIN was not read is reported under a new id. *)
Xid ==
    /\ Reading("xid")
    /\ EventDone
    /\ Report("tx_commit", IF currentTx = NoTx THEN MakeTxId ELSE currentTx)
    /\ currentTx' = NoTx

(* Every row is a callback of its own; all have the event's position. *)
Rows ==
    /\ Reading("rows")
    /\ IF row + 1 < Len(Event.changes) THEN row' = row + 1 /\ UNCHANGED next
       ELSE EventDone
    /\ reported' = [type |-> "row", tx |-> currentTx, event |-> next, row |-> row + 1]
    /\ UNCHANGED currentTx

(* The stream goes on in the next file. *)
Rotate ==
    /\ Reading("rotate")
    /\ EventDone
    /\ UNCHANGED <<currentTx, reported>>

ReadEvent == QueryBegin \/ QueryCommit \/ QueryOther \/ Xid \/ Rows \/ Rotate

(* A new process starts to read behind event i.  Mutant: it passes over    *)
(* one more.                                                               *)
StartTooFar(i) ==
    /\ next' = i + 2
    /\ row' = 0
    /\ currentTx' = NoTx

StartBehind(i) ==
    /\ next' = i + 1
    /\ row' = 0
    /\ currentTx' = NoTx
===============================================================================
