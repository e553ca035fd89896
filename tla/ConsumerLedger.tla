---------------------------- MODULE ConsumerLedger ----------------------------
(***************************************************************************)
(* What the delivery manager may rely on when it calls a consumer          *)
(* (DownstreamConsumer.deliver_batch in cdc_pipeline/downstream/           *)
(* consumer.py): "if this method returns normally, the batch is considered *)
(* durably received".  The downstream system is a ledger that takes the    *)
(* events of Feed in order, without a gap, each of them once, and what has *)
(* been confirmed is in it for good.  Files, requests, retries, restarts   *)
(* and repeated events do not exist at this level.                         *)
(***************************************************************************)
EXTENDS Integers, Sequences

CONSTANT Feed         \* the events handed to the consumer, in order

VARIABLES ledger,     \* the events the downstream system has
          confirmed   \* how many of them have been confirmed

ledgerVars == <<ledger, confirmed>>

Init ==
    /\ ledger = <<>>
    /\ confirmed = 0

Receive ==
    /\ \E n \in Len(ledger) + 1 .. Len(Feed) : ledger' = SubSeq(Feed, 1, n)
    /\ UNCHANGED confirmed

Confirm ==
    /\ confirmed' \in confirmed + 1 .. Len(ledger)
    /\ UNCHANGED ledger

Next == Receive \/ Confirm

Spec == Init /\ [][Next]_ledgerVars
===============================================================================
