---------------------------- MODULE BinlogPosition ----------------------------
(***************************************************************************)
(* BinlogPosition, cdc_pipeline/log_parser/base.py.  Positions are         *)
(* compared as tuples of the file's name and an offset, and the names as   *)
(* strings.  The number in a name is padded to a fixed number of digits;   *)
(* Wrap is the first number that needs one digit more, and Wrap * Base the *)
(* first that needs two.                                                   *)
(***************************************************************************)
EXTENDS Integers

CONSTANTS Base, Wrap

(* A longer name is compared with a shorter one without its last digit. *)
NameLess(f, g) ==
    CASE (f < Wrap) = (g < Wrap) -> f < g
      [] f < Wrap /\ g >= Wrap   -> f <= g \div Base
      [] f >= Wrap /\ g < Wrap   -> f \div Base < g

(* Mutant: offsets are compared across files. *)
OffsetLess(p, q) == p.pos < q.pos

PositionLess(p, q) ==
    IF p.file = q.file THEN p.pos < q.pos ELSE NameLess(p.file, q.file)
===============================================================================
