----------------------------- MODULE SchemaDDL -----------------------------
(***************************************************************************)
(* What apply_ddl_to_schema (cdc_pipeline/schema_tracker/tracker.py) makes *)
(* of a DDL statement, and what MySQL makes of it.                         *)
(*                                                                         *)
(* A statement has a kind and, if it is an ALTER TABLE, clauses.  A clause *)
(* is what the regular expressions of the code extract from its text: the  *)
(* operation, the column (name), its new name and type where it has them,  *)
(* and the place ("last", "first", or the column behind which it goes).    *)
(* The rest is what stands between the type and the place: it can be "key" *)
(* (PRIMARY KEY) or "long" (more than 50 characters: a character set, a    *)
(* default, a comment), and is "short" otherwise.  Names and comments that *)
(* contain one of the words searched for are left out, except for a column *)
(* that is called "first"; so are DROP PRIMARY KEY and ADD with a list of  *)
(* columns in parentheses, of which no expression makes anything.          *)
(***************************************************************************)
EXTENDS Integers, SequencesExt, Lists

FirstWindow == 1  \* clauses behind its own to which the 50 characters that are
                  \* searched for FIRST reach (tracker.py:140)

Columns == [name : STRING, type : STRING]
Clauses == [op : STRING, name : STRING, new : STRING, type : STRING, rest : STRING,
            place : STRING]
Schemas == [columns : Seq(Columns), pks : SUBSET STRING, version : Nat]

(* Optional[TableSchema]: a table that does not exist has version 0, which *)
(* is also what current_schema_version reports for it.                     *)
NoSchema == [columns |-> <<>>, pks |-> {}, version |-> 0]

(* What CREATE TABLE leaves in the tracker: it is not parsed.              *)
Placeholder == [NoSchema EXCEPT !.version = 1]

Bump(schema) == [schema EXCEPT !.version = @ + 1]

NamesOf(columns) == {columns[i].name : i \in DOMAIN columns}

Rewrite(columns, old, new, type) ==
    [i \in DOMAIN columns |-> IF columns[i].name = old
                              THEN [name |-> new, type |-> type]
                              ELSE columns[i]]

WithoutColumn(columns, name) == Without(columns, {col \in Range(columns) : col.name = name})

(* Where the first column called name stands; 0 if there is none.          *)
IndexOf(columns, name) ==
    LET found == {i \in DOMAIN columns : columns[i].name = name}
    IN IF found = {} THEN 0 ELSE Min(found)

-----------------------------------------------------------------------------
(* The four loops of apply_ddl_to_schema, each over the clauses it matches. *)
DropColumn(schema, clause) ==
    IF clause.op # "drop" THEN schema
    ELSE [schema EXCEPT !.columns = WithoutColumn(@, clause.name), !.pks = @ \ {clause.name}]

ModifyColumn(schema, clause) ==
    IF clause.op # "modify" THEN schema
    ELSE [schema EXCEPT !.columns = Rewrite(@, clause.name, clause.name, clause.type)]

ChangeColumn(schema, clause) ==
    IF clause.op # "change" THEN schema
    ELSE [schema EXCEPT !.columns = Rewrite(@, clause.name, clause.new, clause.type),
                        !.pks = IF clause.name \in @ THEN (@ \ {clause.name}) \cup {clause.new}
                                                     ELSE @]

(* The place of an added column, as the code finds it in the text: a FIRST *)
(* close by wins, in this clause or behind it, and if it is the name of    *)
(* the column; else the first AFTER from here to the end of the statement  *)
(* counts, whichever clause it is in.                                      *)
PlaceOf(clauses, i, columns) ==
    LET nearFirst == \/ clauses[i].name = "first"
                     \/ \E j \in i..(i + FirstWindow) :
                           /\ j \in DOMAIN clauses /\ clauses[j].place = "first"
                           /\ \A m \in i..j : clauses[m].rest # "long"
        afters == {j \in i..Len(clauses) : clauses[j].place \notin {"last", "first"}}
        anchor == IF afters = {} THEN 0 ELSE IndexOf(columns, clauses[Min(afters)].place)
    IN IF nearFirst THEN 1 ELSE IF anchor > 0 THEN anchor + 1 ELSE Len(columns) + 1

AddColumn(schema, clauses, i) ==
    IF \/ clauses[i].op \notin {"add", "index"}
       \/ clauses[i].name \in NamesOf(schema.columns) THEN schema
    ELSE [schema EXCEPT !.columns =
            InsertAt(@, PlaceOf(clauses, i, @),
                     [name |-> clauses[i].name, type |-> clauses[i].type])]

(* Drops, then types, then renames, then additions, wherever they stand in *)
(* the statement.  RENAME COLUMN matches none of the expressions; ADD INDEX *)
(* and ADD PRIMARY KEY match ADD and make a column called INDEX or PRIMARY. *)
Alter(schema, clauses) ==
    LET dropped  == FoldLeft(DropColumn, schema, clauses)
        modified == FoldLeft(ModifyColumn, dropped, clauses)
        changed  == FoldLeft(ChangeColumn, modified, clauses)
        Add(s, i) == AddColumn(s, clauses, i)
    IN FoldLeftDomain(Add, changed, clauses)

(* apply_ddl_to_schema(ddl, schema, ...).                                  *)
ApplyDDL(ddl, schema) ==
    IF ddl.kind = "drop" THEN NoSchema
    ELSE IF schema = NoSchema THEN IF ddl.kind = "create" THEN Placeholder ELSE NoSchema
    ELSE IF ddl.kind = "alter" THEN Bump(Alter(schema, ddl.clauses))
    ELSE Bump(schema)

-----------------------------------------------------------------------------
(* What the database does, for the statements Legal admits.  An ALTER names *)
(* its columns as they are before it; a column that is added, or modified  *)
(* with a place, is put there afterwards, in the order of the clauses.     *)
Placed(columns, clause) ==
    IF clause.op = "add" \/ (clause.op \in {"modify", "change"} /\ clause.place # "last")
    THEN InsertAt(columns,
                  CASE clause.place = "last" -> Len(columns) + 1
                    [] clause.place = "first" -> 1
                    [] OTHER -> IndexOf(columns, clause.place) + 1,
                  [name |-> clause.new, type |-> clause.type])
    ELSE columns

SourceAlter(schema, clauses) ==
    LET ByName(ops, name) == {i \in DOMAIN clauses : clauses[i].op \in ops
                                                      /\ clauses[i].name = name}
        Gone(name) == ByName({"drop"}, name) # {}
        Touching(name) == ByName({"modify", "change", "rename"}, name)
        First(name) == clauses[Min(Touching(name))]
        NewName(name) == IF Touching(name) = {} THEN name ELSE First(name).new
        NewType(col) == IF Touching(col.name) = {} \/ First(col.name).op = "rename"
                       THEN col.type ELSE First(col.name).type
        Leaves(col) == \/ Gone(col.name)
                       \/ \E i \in Touching(col.name) : clauses[i].place # "last"
        keys == {i \in DOMAIN clauses : clauses[i].rest = "key"}
        kept == Without(schema.columns, {col \in Range(schema.columns) : Leaves(col)})
        base == [i \in DOMAIN kept |-> [name |-> NewName(kept[i].name), type |-> NewType(kept[i])]]
    IN [columns |-> FoldLeft(Placed, base, clauses),
        pks     |-> {NewName(name) : name \in {n \in schema.pks : ~Gone(n)}}
                    \cup {clauses[i].new : i \in keys},
        version |-> schema.version + 1]

SourceDDL(ddl, schema) ==
    CASE ddl.kind \in {"drop", "rename"} -> NoSchema
      [] ddl.kind = "create" -> ddl.schema
      [] ddl.kind = "alter"  -> SourceAlter(schema, ddl.clauses)
      [] OTHER -> Bump(schema)

(* The statement is one the server accepts on a table with this schema,    *)
(* which gets no second primary key.                                       *)
Legal(ddl, schema) ==
    /\ (ddl.kind = "create") <=> (schema = NoSchema)
    /\ ddl.kind = "alter" =>
         /\ \A i \in DOMAIN ddl.clauses :
                ddl.clauses[i].op \notin {"add", "index"}
                => ddl.clauses[i].name \in NamesOf(schema.columns)
         /\ \A i \in DOMAIN ddl.clauses :
                ddl.clauses[i].place \in {"last", "first"} \cup NamesOf(schema.columns)
         /\ \A i, j \in DOMAIN ddl.clauses :
                ddl.clauses[i].rest = "key" =>
                    /\ ddl.clauses[j].rest = "key" => i = j
                    /\ \A name \in schema.pks : \E m \in DOMAIN ddl.clauses :
                          ddl.clauses[m].op = "drop" /\ ddl.clauses[m].name = name
         /\ LET after == SourceAlter(schema, ddl.clauses).columns
            IN Cardinality(NamesOf(after)) = Len(after) /\ after # <<>>
=============================================================================
