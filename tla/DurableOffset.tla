---------------------------- MODULE DurableOffset ----------------------------
(***************************************************************************)
(* What the offset manager promises to whoever restarts the pipeline       *)
(* (cdc_pipeline/offset_manager/__init__.py, "Guarantees"): one durable    *)
(* offset that only ever moves forward and that is always a position some  *)
(* caller reported as delivered.  Files, caches, flush intervals, crashes  *)
(* and failed writes do not exist at this level.                           *)
(***************************************************************************)
EXTENDS Integers

CONSTANTS Positions,   \* binlog positions, as naturals in log order
          NoOffset     \* "no offset has ever been persisted"

VARIABLES confirmed,   \* every position reported as delivered so far
          durable      \* the offset a restart would resume from

durableVars == <<confirmed, durable>>

Init ==
    /\ confirmed = {}
    /\ durable = NoOffset

Confirm(p) ==
    /\ confirmed' = confirmed \cup {p}
    /\ UNCHANGED durable

Persist(p) ==
    /\ p \in confirmed
    /\ durable \in Positions => p > durable
    /\ durable' = p
    /\ UNCHANGED confirmed

Next == \E p \in Positions : Confirm(p) \/ Persist(p)

Spec == Init /\ [][Next]_durableVars
=============================================================================
