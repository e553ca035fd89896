--------------------------------- MODULE Lists ---------------------------------
(* Lists, as the sinks filter their events and the tracker its columns.    *)
EXTENDS Integers, SequencesExt

(* The elements of s that are not in S, in the order of s.  (SelectSeq as  *)
(* a recursive function, which can be reasoned about.)                     *)
Without(s, S) ==
    LET kept[n \in 0..Len(s)] ==
            IF n = 0 THEN <<>>
            ELSE IF s[n] \in S THEN kept[n - 1] ELSE Append(kept[n - 1], s[n])
    IN  kept[Len(s)]
===============================================================================
