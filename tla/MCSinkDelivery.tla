--------------------------- MODULE MCSinkDelivery ---------------------------
(* Feeds and configurations for SinkDelivery.                              *)
EXTENDS SinkDelivery

CONSTANT t1

Event(pos, type, table, pk, tx) ==
    [pos |-> pos, type |-> type, table |-> table, pk |-> pk, tx |-> tx]
SnapshotRow(table, pk) == Event(1, "snapshot", table, pk, NoTx)
Streamed(pos, type, pk) == Event(pos, type, "orders", pk, t1)

(* A snapshot row, and a transaction with one row.                         *)
OneTransaction ==
    <<SnapshotRow("orders", 1),
      Streamed(2, "tx_begin", 0), Streamed(3, "row", 1), Streamed(4, "tx_commit", 0)>>

(* A snapshot of two tables. *)
TwoTables == <<SnapshotRow("orders", 1), SnapshotRow("users", 1)>>

Option(type, indexed, append, cut) ==
    [type |-> type, indexed |-> indexed, append |-> append, cut |-> cut]

AllSinks ==
    {Option(type, FALSE, TRUE, cut) :
        type \in {"jsonl", "stdout", "webhook"}, cut \in {"transaction", "size"}}
    \cup {Option("jsonl", TRUE, TRUE, cut) : cut \in {"transaction", "size"}}

IndexedFile == {Option("jsonl", TRUE, TRUE, "transaction")}
=============================================================================
