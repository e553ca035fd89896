-------------------------- MODULE MCSchemaTracker --------------------------
(* A table of two columns and the statements executed on it.               *)
EXTENDS SchemaTracker

Column(name, type) == [name |-> name, type |-> type]

TwoColumns == [columns |-> <<Column("a", "int"), Column("b", "text")>>,
               pks |-> {"a"}, version |-> 1]

Clause(op, name, new, type, place) ==
    [op |-> op, name |-> name, new |-> new, type |-> type, rest |-> "short", place |-> place]
AlterTable(clauses) == [kind |-> "alter", clauses |-> clauses]

DropTable     == [kind |-> "drop"]
RenameTable   == [kind |-> "rename"]
TruncateTable == [kind |-> "other"]
CreateTable   == [kind |-> "create",
                  schema |-> [columns |-> <<Column("b", "text"), Column("c", "int")>>,
                              pks |-> {"c"}, version |-> 1]]

AddBehind   == AlterTable(<<Clause("add", "c", "c", "int", "a")>>)
AddFirst    == AlterTable(<<Clause("add", "d", "d", "int", "first")>>)
DropAndType == AlterTable(<<Clause("modify", "a", "a", "bigint", "last"),
                            Clause("drop", "b", "b", "", "last")>>)
RenameKey   == AlterTable(<<Clause("change", "a", "k", "bigint", "last")>>)

(* What the tracker covers.                                                *)
Evolution == {AddBehind, DropAndType, RenameKey, TruncateTable, DropTable, CreateTable}

(* The table is renamed away and another one takes its name.               *)
Swap == {RenameTable, CreateTable}

(* What it does not cover: each of these, in place of Evolution, breaks    *)
(* DecodedAsWritten, the last one when it is read again.  A FIRST that is  *)
(* far behind its column is not found, and no PRIMARY KEY.                 *)
Misread ==
    {AlterTable(<<Clause("rename", "a", "k", "", "last")>>),
     AlterTable(<<Clause("modify", "b", "b", "text", "first")>>),
     AlterTable(<<Clause("index", "INDEX", "INDEX", "ix", "last")>>),
     AlterTable(<<Clause("add", "c", "c", "int", "last"), Clause("add", "d", "d", "int", "first")>>),
     AlterTable(<<[Clause("add", "d", "d", "text", "first") EXCEPT !.rest = "long"]>>),
     AlterTable(<<[Clause("add", "k", "k", "int", "last") EXCEPT !.rest = "key"]>>),
     AlterTable(<<Clause("add", "first", "first", "text", "last")>>),
     AlterTable(<<Clause("change", "a", "b2", "int", "last"), Clause("add", "a", "a", "int", "last")>>)}

(* One statement, read again after a crash.                                *)
OneStatement == {AddBehind}

(* The statements of Evolution and AddFirst are understood, those of       *)
(* Misread are not, on every table of up to three of these columns.        *)
Tables ==
    LET Names == {"a", "b", "c"}
        Orders == UNION {{ns \in [1..n -> Names] : \A i, j \in 1..n : i # j => ns[i] # ns[j]}
                         : n \in 1..3}
    IN [columns : {[i \in DOMAIN ns |-> Column(ns[i], "int")] : ns \in Orders},
        pks : {{}, {"a"}, {"a", "b"}}, version : {1}]

ASSUME EvolutionAssumption == Understood(Evolution \cup {AddFirst}, Tables, 1..2)
ASSUME SingleAssumption    ==
    \A ddl \in (Evolution \ {DropAndType}) \cup {AddFirst} : Single(ddl)
ASSUME MisreadAssumption   == \A ddl \in Misread : ~Understood({ddl}, Tables, 1..2)
=============================================================================
