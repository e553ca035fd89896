--------------------------- MODULE MCOffsetManager ---------------------------
(* Model values for OffsetManager: four positions, so that an out-of-order *)
(* acknowledgement can fall below, between and above flushed ones.         *)
EXTENDS OffsetManager

MCPositions == 1..4
=============================================================================
