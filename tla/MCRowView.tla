------------------------------- MODULE MCRowView -------------------------------
(* Binlogs for RowView: every sequence of the units below that a table     *)
(* accepts, of up to MaxUnits units and MaxEvents events.                  *)
EXTENDS RowView

CONSTANTS MaxUnits, MaxEvents

Item(kind, changes) == [kind |-> kind, changes |-> changes]
Insert(k) == [old |-> 0, new |-> k]
Update(k) == [old |-> k, new |-> k]
Delete(k) == [old |-> k, new |-> 0]
Move(j, k) == [old |-> j, new |-> k]
Rows1(c) == Item("rows", <<c>>)
Rows2(c, d) == Item("rows", <<c, d>>)
Transaction(items, end) == <<Item("begin", <<>>)>> \o items \o <<Item(end, <<>>)>>

Units ==
    {Transaction(<<Rows2(Insert(1), Insert(2))>>, "xid"),
     Transaction(<<Rows1(Update(1)), Rows1(Delete(2))>>, "xid"),
     Transaction(<<Item("query", <<>>), Rows1(Insert(2))>>, "commit"),
     Transaction(<<Rows2(Move(2, 3), Update(1))>>, "xid"),
     <<Item("query", <<>>)>>,
     <<Item("rotate", <<>>)>>}

(* The items get their file, their position in it, their transaction, and  *)
(* the changes values of their own.                                        *)
Rotations(s, i) == {j \in 1..i - 1 : s[j].kind = "rotate"}
Begins(s, i) == {j \in 1..i : s[j].kind = "begin"}
Ends(s, i) == {j \in 1..i - 1 : s[j].kind \in {"xid", "commit"}}
Written(s) ==
    [i \in DOMAIN s |->
        [kind |-> s[i].kind,
         file |-> FirstFile + Cardinality(Rotations(s, i)),
         pos  |-> i - Max({0} \cup Rotations(s, i)),
         tx   |-> IF Cardinality(Begins(s, i)) = Cardinality(Ends(s, i)) THEN 0
                  ELSE Cardinality(Begins(s, i)),
         changes |-> [j \in DOMAIN s[i].changes |->
                         [old |-> s[i].changes[j].old, new |-> s[i].changes[j].new,
                          val |-> IF s[i].changes[j].new = 0 THEN 0 ELSE 10 * i + j]]]]

(* Changes meet the rows they need, and the table they leave behind. *)
Apply(table, change) ==
    [k \in PrimaryKeys |-> IF k = change.new THEN change.val
                           ELSE IF k = change.old THEN 0 ELSE table[k]]
WithTables(s) ==
    LET Empty == [k \in PrimaryKeys |-> 0]
        table[i \in 0..Len(s)] ==
            IF i = 0 THEN Empty ELSE FoldLeft(Apply, table[i - 1], s[i].changes)
    IN  [i \in DOMAIN s |->
            [kind |-> s[i].kind, file |-> s[i].file, pos |-> s[i].pos, tx |-> s[i].tx,
             changes |-> s[i].changes, table |-> table[i]]]

Accepted(s) ==
    LET c == FoldLeft(LAMBDA r, e : r \o e.changes, <<>>, s)
        live[n \in 0..Len(c)] ==
            IF n = 0 THEN {} ELSE (live[n - 1] \ {c[n].old}) \cup ({c[n].new} \ {0})
    IN  \A n \in DOMAIN c :
            /\ c[n].old # 0 => c[n].old \in live[n - 1]
            /\ c[n].new \notin {0, c[n].old} => c[n].new \notin live[n - 1]

MCBinlogs ==
    {WithTables(Written(s)) :
        s \in {t \in {FlattenSeq(u) : u \in UNION {[1..n -> Units] : n \in 1..MaxUnits}} :
                  Len(t) <= MaxEvents /\ Accepted(t)}}
================================================================================
