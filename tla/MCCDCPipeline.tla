--------------------------- MODULE MCCDCPipeline ---------------------------
(* Logs for CDCPipeline.                                                   *)
EXTENDS CDCPipeline

CONSTANTS t1, t2

Event(pos, type, tx) ==
    [pos |-> pos, type |-> type, tx |-> tx, pk |-> 0, included |-> TRUE]
Row(pos, tx, pk) == [Event(pos, "row", tx) EXCEPT !.pk = pk]
Excluded(event) == [event EXCEPT !.included = FALSE]

(* Two transactions, one with a rows event of two rows, one with a row of  *)
(* an excluded table.                                                      *)
Transactions ==
    <<Event(1, "tx_begin", t1), Row(2, t1, 1), Row(2, t1, 2), Event(3, "tx_commit", t1),
      Event(4, "tx_begin", t2), Excluded(Row(5, t2, 1)), Row(6, t2, 1),
      Event(7, "tx_commit", t2)>>

(* A transaction between two schema changes. *)
MixedLog ==
    <<Event(1, "schema", NoTx), Event(2, "tx_begin", t1), Row(3, t1, 1),
      Event(4, "tx_commit", t1), Event(5, "schema", NoTx)>>

OneTransaction ==
    <<Event(1, "tx_begin", t1), Row(2, t1, 1), Event(3, "tx_commit", t1)>>

(* A rows event of two rows. *)
MultiRow ==
    <<Event(1, "tx_begin", t1), Row(2, t1, 1), Row(2, t1, 2), Event(3, "tx_commit", t1)>>
=============================================================================
