------------------------ MODULE OffsetManager_proofs ------------------------
(***************************************************************************)
(* Proofs about OffsetManager for every set of positions, with and without *)
(* storage failures.                                                       *)
(*                                                                         *)
(* The safety claims are not inductive by themselves: what the file will   *)
(* hold after os.replace depends on what was dumped into the temporary     *)
(* file, that on _committed, and _committed on what was acknowledged.      *)
(* IInv carries this chain through every step of a write.                  *)
(***************************************************************************)
EXTENDS OffsetManager, TLAPS

(* A write is in progress only for a position beyond the file's and never  *)
(* during a snapshot, and the temporary file holds that position once it   *)
(* has been dumped.                                                        *)
WriterInv ==
    /\ snapshotModeActive => writer = "idle"
    /\ writer \in {"opened", "dumped"} =>
          committed \in Positions /\ committed # lastFlushed
    /\ writer = "dumped" => tmpFile = committed

(* The cached _last_flushed is the file's content at every step, a write   *)
(* in progress included, and _committed is never behind it.                *)
CacheInv ==
    /\ lastFlushed = Stored
    /\ ~dirty => committed = lastFlushed
    /\ lastFlushed \in Positions => committed \in Positions /\ lastFlushed <= committed

(* Only positions that were reported as delivered are committed or stored. *)
ConfirmedInv ==
    /\ offsetFile \in confirmed \cup {Absent}
    /\ committed \in confirmed \cup {NoOffset}

IInv == TypeOK /\ WriterInv /\ CacheInv /\ ConfirmedInv

-----------------------------------------------------------------------------
LEMMA InitEstablishes == Init => IInv
BY PositionsAssumption
   DEF Init, IInv, TypeOK, WriterInv, CacheInv, ConfirmedInv, Stored, Offsets, Contents

(* What the common part of ack and mark_snapshot_complete does to the      *)
(* committed position: it becomes p, or stays because p does not exceed it. *)
LEMMA AdvancedFacts ==
    ASSUME TypeOK, NEW p \in Positions
    PROVE  /\ Advanced(p) \in Positions
           /\ Advanced(p) \in {p, committed}
           /\ committed \in Positions => committed <= Advanced(p)
           /\ ~Supersedes(p) => Advanced(p) = committed
BY PositionsAssumption DEF TypeOK, Advanced, Supersedes, Offsets

(* Recording without writing keeps the invariant: the file is untouched    *)
(* and dirty becomes TRUE exactly when committed moves.                    *)
LEMMA RecordKeepsIInv ==
    ASSUME IInv, NEW p \in Positions, writer = "idle", Record(p),
           confirmed' = confirmed \cup {p},
           snapshotModeActive' \in BOOLEAN,
           UNCHANGED <<lastFlushed, offsetFile>>
    PROVE  IInv'
<1>1. Stored' = Stored
  BY DEF Stored
<1>2. TypeOK'
  BY AdvancedFacts DEF IInv, TypeOK, Record, Offsets
<1>3. WriterInv'
  BY DEF Record, WriterInv
<1>4. CacheInv'
  <2>1. dirty' <=> dirty \/ Supersedes(p)
    BY DEF IInv, TypeOK, Record
  <2>2. ~dirty' => committed' = lastFlushed'
    BY <2>1, AdvancedFacts DEF IInv, CacheInv, Record
  <2>3. lastFlushed' \in Positions => committed' \in Positions /\ lastFlushed' <= committed'
    BY AdvancedFacts, PositionsAssumption DEF IInv, TypeOK, CacheInv, Record, Offsets
  <2>. QED BY <1>1, <2>2, <2>3 DEF IInv, CacheInv
<1>5. ConfirmedInv'
  BY AdvancedFacts DEF IInv, ConfirmedInv, Record
<1>. QED BY <1>2, <1>3, <1>4, <1>5 DEF IInv

(* So does starting a write: the position to be written is committed, is   *)
(* not the file's, and cannot be behind it.                                *)
LEMMA FlushKeepsIInv ==
    ASSUME IInv, NEW p \in Positions, writer = "idle", Flush(p),
           confirmed' = confirmed \cup {p},
           ~snapshotModeActive', snapshotModeActive' \in BOOLEAN,
           UNCHANGED <<lastFlushed, offsetFile>>
    PROVE  IInv'
<1>1. Stored' = Stored
  BY DEF Stored
<1>2. TypeOK'
  BY AdvancedFacts DEF IInv, TypeOK, Flush, Offsets, Contents
<1>3. WriterInv'
  BY AdvancedFacts DEF IInv, TypeOK, WriterInv, Flush
<1>4. CacheInv'
  <2>1. ~dirty' => committed' = lastFlushed'
    <3>1. CASE Advanced(p) = lastFlushed
      BY <3>1 DEF Flush
    <3>2. CASE Advanced(p) # lastFlushed
      <4>1. dirty' <=> dirty \/ Supersedes(p)
        BY <3>2 DEF IInv, TypeOK, Flush
      <4>. QED BY <4>1, AdvancedFacts DEF IInv, CacheInv, Flush
    <3>. QED BY <3>1, <3>2
  <2>2. lastFlushed' \in Positions => committed' \in Positions /\ lastFlushed' <= committed'
    BY AdvancedFacts, PositionsAssumption DEF IInv, TypeOK, CacheInv, Flush, Offsets
  <2>. QED BY <1>1, <2>1, <2>2 DEF IInv, CacheInv
<1>5. ConfirmedInv'
  BY AdvancedFacts DEF IInv, ConfirmedInv, Flush
<1>. QED BY <1>2, <1>3, <1>4, <1>5 DEF IInv

LEMMA NextPreserves == IInv /\ [Next]_offsetVars => IInv'
<1>. SUFFICES ASSUME IInv, [Next]_offsetVars PROVE IInv'
  OBVIOUS
<1>. USE DEF IInv
<1>1. ASSUME NEW p \in Positions, Ack(p) PROVE IInv'
  <2>1. CASE AckDuringSnapshot(p)
    BY <1>1, <2>1 DEF Ack, AckDuringSnapshot, TypeOK, WriterInv, CacheInv,
                      ConfirmedInv, Stored
  <2>2. CASE AckDeferred(p)
    BY <1>1, <2>2, RecordKeepsIInv DEF Ack, AckDeferred, TypeOK
  <2>3. CASE AckFlushing(p)
    BY <1>1, <2>3, FlushKeepsIInv DEF Ack, AckFlushing, TypeOK
  <2>. QED BY <1>1, <2>1, <2>2, <2>3 DEF Ack
<1>2. ASSUME NEW p \in Positions, MarkSnapshotComplete(p) PROVE IInv'
  BY <1>2, FlushKeepsIInv DEF MarkSnapshotComplete
<1>3. CASE MarkSnapshotInProgress
  BY <1>3 DEF MarkSnapshotInProgress, files, TypeOK, WriterInv, CacheInv,
              ConfirmedInv, Stored
<1>4. CASE DumpTmp
  BY <1>4 DEF DumpTmp, TypeOK, WriterInv, CacheInv, ConfirmedInv, Stored,
              Offsets, Contents
<1>5. CASE Replace
  <2>1. committed \in Positions /\ offsetFile' = committed
    BY <1>5 DEF Replace, WriterInv
  <2>2. Stored' = committed
    BY <2>1 DEF Stored
  <2>3. TypeOK' /\ WriterInv'
    BY <1>5, <2>1 DEF Replace, TypeOK, WriterInv, Contents, Offsets
  <2>4. CacheInv'
    BY <1>5, <2>1, <2>2, PositionsAssumption DEF Replace, CacheInv
  <2>5. ConfirmedInv'
    BY <1>5, <2>1, PositionsAssumption DEF Replace, ConfirmedInv
  <2>. QED BY <2>3, <2>4, <2>5
<1>6. CASE StoreFails
  BY <1>6 DEF StoreFails, files, TypeOK, WriterInv, CacheInv, ConfirmedInv, Stored
<1>7. CASE ErrorPropagates
  BY <1>7 DEF ErrorPropagates, files, TypeOK, WriterInv, CacheInv, ConfirmedInv,
              Stored
<1>8. CASE Restart
  <2>1. Stored' = Stored /\ Stored \in Offsets /\ Stored \in confirmed \cup {NoOffset}
    BY <1>8, PositionsAssumption
       DEF Restart, files, Stored, TypeOK, Contents, Offsets, ConfirmedInv
  <2>2. TypeOK' /\ WriterInv' /\ ConfirmedInv'
    BY <1>8, <2>1 DEF Restart, LoadInitial, files, TypeOK, WriterInv, ConfirmedInv
  <2>3. CacheInv'
    BY <1>8, <2>1, PositionsAssumption DEF Restart, LoadInitial, CacheInv, Offsets
  <2>. QED BY <2>2, <2>3
<1>9. CASE UNCHANGED offsetVars
  BY <1>9 DEF offsetVars, memory, files, TypeOK, WriterInv, CacheInv,
              ConfirmedInv, Stored
<1>. QED
  BY <1>1, <1>2, <1>3, <1>4, <1>5, <1>6, <1>7, <1>8, <1>9 DEF Next

(* The chain from acknowledgement to file holds in every reachable state.  *)
THEOREM Inductive == Spec => []IInv
BY InitEstablishes, NextPreserves, PTL DEF Spec

-----------------------------------------------------------------------------
(* Every variable keeps its type (manager.py, the fields of __init__).     *)
THEOREM TypeCorrect == Spec => []TypeOK
<1>1. IInv => TypeOK
  BY DEF IInv
<1>. QED BY <1>1, Inductive, PTL

(* A crash at any step of FileOffsetStore.write leaves the offset file     *)
(* absent or a complete record of a position that was reported delivered.  *)
THEOREM NeverGarbled == Spec => []NoGarbledOffset
<1>1. IInv => NoGarbledOffset
  BY DEF IInv, ConfirmedInv, NoGarbledOffset
<1>. QED BY <1>1, Inductive, PTL

(* The early returns of _flush, which trust _dirty and _last_flushed, skip *)
(* a write only when the file already holds the committed position.        *)
THEOREM CacheCoherent == Spec => []CacheMatchesFile
<1>1. IInv => CacheMatchesFile
  BY DEF IInv, CacheInv, CacheMatchesFile
<1>. QED BY <1>1, Inductive, PTL

(* Between mark_snapshot_in_progress and mark_snapshot_complete nothing is *)
(* written, so a crash in the middle of a snapshot restarts it.            *)
THEOREM SnapshotHolds == Spec => SnapshotHoldsOffset
<1>1. IInv /\ [Next]_offsetVars =>
         [snapshotModeActive /\ snapshotModeActive' => offsetFile' = offsetFile]_offsetVars
  <2>. SUFFICES ASSUME IInv, Next, snapshotModeActive, snapshotModeActive'
                PROVE  offsetFile' = offsetFile
    OBVIOUS
  <2>. QED BY DEF IInv, WriterInv, Next, Ack, MarkSnapshotComplete,
                  MarkSnapshotInProgress, DumpTmp, Replace, StoreFails,
                  ErrorPropagates, Restart, files
<1>. QED BY <1>1, Inductive, PTL DEF Spec, SnapshotHoldsOffset

-----------------------------------------------------------------------------
(* A step of the manager is a step of the register or invisible to it.     *)
LEMMA StepSimulation == IInv /\ [Next]_offsetVars => [DO!Next]_DO!durableVars
<1>. SUFFICES ASSUME IInv, [Next]_offsetVars PROVE [DO!Next]_DO!durableVars
  OBVIOUS
<1>1. ASSUME NEW p \in Positions, Ack(p) \/ MarkSnapshotComplete(p)
      PROVE  DO!Confirm(p)
  BY <1>1 DEF Ack, MarkSnapshotComplete, DO!Confirm, Stored
<1>2. ASSUME Replace PROVE committed \in Positions /\ DO!Persist(committed)
  <2>1. committed \in Positions /\ committed # lastFlushed
    BY <1>2 DEF Replace, IInv, WriterInv
  <2>2. offsetFile' = committed /\ Stored' = committed
    BY <1>2, <2>1 DEF Replace, IInv, WriterInv, Stored
  <2>3. committed \in confirmed
    BY <2>1, PositionsAssumption DEF IInv, ConfirmedInv
  <2>4. Stored \in Positions => committed > Stored
    BY <2>1, PositionsAssumption DEF IInv, CacheInv
  <2>. QED BY <1>2, <2>1, <2>2, <2>3, <2>4 DEF Replace, DO!Persist
<1>3. ASSUME MarkSnapshotInProgress \/ DumpTmp \/ StoreFails \/ ErrorPropagates
             \/ Restart \/ UNCHANGED offsetVars
      PROVE  UNCHANGED DO!durableVars
  BY <1>3 DEF MarkSnapshotInProgress, DumpTmp, StoreFails, ErrorPropagates, Restart,
              files, memory, offsetVars, DO!durableVars, Stored
<1>. QED BY <1>1, <1>2, <1>3 DEF Next, DO!Next

(* OffsetManager over its file, crashes and failed writes included, is a   *)
(* durable register that only moves forward, to confirmed positions.       *)
THEOREM Refinement == Spec => ImplementsDurableOffset
<1>1. Init => DO!Init
  BY PositionsAssumption DEF Init, DO!Init, Stored
<1>. QED BY <1>1, StepSimulation, Inductive, PTL
         DEF Spec, DO!Spec, ImplementsDurableOffset
=============================================================================
