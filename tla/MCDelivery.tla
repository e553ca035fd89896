----------------------------- MODULE MCDelivery -----------------------------
(* Model values for Delivery.  The log holds a transaction with a DDL      *)
(* inside, DDLs outside any transaction before and behind it, and a row    *)
(* whose BEGIN was missed.  With TxCap = 2 the transaction is delivered    *)
(* whole if one of its events is passed over, and exceeds the cap          *)
(* otherwise.                                                              *)
EXTENDS Delivery

CONSTANTS t1, t2

Envelope(p, type, tx) == [pos |-> p, type |-> type, tx |-> tx]

MCTxIds == {t1, t2}

MixedLog ==
    {Envelope(1, "schema", NoTx), Envelope(2, "tx_begin", t1), Envelope(3, "row", t1),
     Envelope(4, "schema", t1), Envelope(5, "tx_commit", t1),
     Envelope(6, "schema", NoTx), Envelope(7, "row", t2)}

ShortLog ==
    {Envelope(1, "tx_begin", t1), Envelope(2, "schema", NoTx), Envelope(3, "row", t1),
     Envelope(4, "tx_commit", t1)}
=============================================================================
