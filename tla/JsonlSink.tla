------------------------------- MODULE JsonlSink -------------------------------
(***************************************************************************)
(* JsonlFileSink, cdc_pipeline/sinks/jsonl_sink.py: a consumer that writes *)
(* every event as a line of a data file and, if it has one, its            *)
(* idempotency key as a line of an index file, in this order.              *)
(*                                                                         *)
(* The data file is rewritten to a temporary file and replaced, so its     *)
(* content changes in one step; the index is appended to, so a failure or  *)
(* a crash leaves any part of the new lines, the last of them torn.  The   *)
(* line that is appended behind a torn one is joined to it and is no key   *)
(* any more.  Of the data file the model keeps the events in the order of  *)
(* their first lines, and those that have further lines.                   *)
(***************************************************************************)
EXTENDS Lists

CONSTANT Key(_)       \* build_idempotency_key of an event

VARIABLES
    options,  \* what the factory was given: [type, indexed, append, cut]
    batch,    \* the events deliver_batch was called with
    call,     \* "idle", "called", the step it has reached, "returned", "raised"
    output,   \* the events in the data file, or on stdout
    repeated, \* those that were written more than once
    index,    \* the keys of the index file
    torn,     \* its last line has no end
    seen,     \* _seen_keys
    todo      \* events_to_write

files     == <<output, repeated, index, torn>>
jsonlVars == <<files, seen, todo>>

KeysOf(s) == {Key(s[i]) : i \in DOMAIN s}

Init ==
    /\ output = <<>>
    /\ repeated = {}
    /\ index = {}
    /\ torn = FALSE
    /\ seen = {}
    /\ todo = <<>>

(* Mutant: the index is not consulted. *)
FilterNothing ==
    /\ call = "called"
    /\ todo' = batch
    /\ call' = "write"
    /\ UNCHANGED <<options, batch, files, seen>>

Filter ==
    /\ call = "called"
    /\ todo' = Without(batch, {e \in Range(batch) : Key(e) \in seen})
    /\ call' = IF todo' = <<>> THEN "returned" ELSE "write"
    /\ UNCHANGED <<options, batch, files, seen>>

Write(block) ==
    LET old == IF options.append THEN output ELSE <<>>
    IN  /\ output' = old \o Without(block, Range(old))
        /\ repeated' = IF options.append
                       THEN repeated \cup (Range(block) \cap Range(old)) ELSE {}

(* Mutant: the lines are written one by one. *)
WriteLine ==
    /\ options.type = "jsonl"
    /\ call = "write"
    /\ Write(<<Head(todo)>>)
    /\ todo' = Tail(todo)
    /\ call' = IF todo' = <<>> THEN "reopen" ELSE "write"
    /\ UNCHANGED <<options, batch, index, torn, seen>>

(* _write_atomic.  With append off a batch replaces the batches before it. *)
ReplaceData ==
    /\ options.type = "jsonl"
    /\ call = "write"
    /\ Write(todo)
    /\ call' = "reopen"
    /\ UNCHANGED <<options, batch, index, torn, seen, todo>>

(* Mutant: an error is swallowed, and the keys are written all the same.   *)
WriteErrorIgnored ==
    /\ options.type = "jsonl"
    /\ call = "write"
    /\ call' = IF options.indexed THEN "index" ELSE "returned"
    /\ UNCHANGED <<options, batch, jsonlVars>>

(* mkstemp, the copy, fsync or os.replace raise: the file is what it was.  *)
(* open() behind os.replace raises: the block is in the file.              *)
WriteRaises ==
    /\ options.type = "jsonl"
    /\ call \in {"write", "reopen"}
    /\ call' = "raised"
    /\ UNCHANGED <<options, batch, jsonlVars>>

DataWritten ==
    /\ call = "reopen"
    /\ call' = IF options.indexed THEN "index" ELSE "returned"
    /\ UNCHANGED <<options, batch, jsonlVars>>

(* Standard output takes the block, or a part of it and raises. *)
WriteStdout ==
    /\ options.type = "stdout"
    /\ call = "write"
    /\ Write(todo)
    /\ call' = "returned"
    /\ UNCHANGED <<options, batch, index, torn, seen, todo>>

StdoutRaises ==
    /\ options.type = "stdout"
    /\ call = "write"
    /\ \E n \in 0..Len(todo) : Write(SubSeq(todo, 1, n))
    /\ call' = "raised"
    /\ UNCHANGED <<options, batch, index, torn, seen, todo>>

(* The first n keys reach the index, the one behind them perhaps in part.  *)
AppendKeys(n, part) ==
    /\ index' = index \cup KeysOf(SubSeq(todo, IF torn THEN 2 ELSE 1, n))
    /\ torn' = (part \/ (torn /\ n = 0))

IndexKeys ==
    /\ call = "index"
    /\ AppendKeys(Len(todo), FALSE)
    /\ seen' = seen \cup KeysOf(todo)
    /\ call' = "returned"
    /\ UNCHANGED <<options, batch, output, repeated, todo>>

(* The append raises.  _seen_keys has the keys that were handed to the     *)
(* file's buffer, whether or not they reached the disk.                    *)
IndexRaises ==
    /\ call = "index"
    /\ \E n \in 0..Len(todo) - 1, m \in 0..Len(todo), part \in BOOLEAN :
          /\ n <= m
          /\ AppendKeys(n, part)
          /\ seen' = seen \cup KeysOf(SubSeq(todo, 1, m))
    /\ call' = "raised"
    /\ UNCHANGED <<options, batch, output, repeated, todo>>

(* The process dies, perhaps while it appends, and __init__ of the next    *)
(* one reads the index.  Without append it opens the data file for         *)
(* writing, which empties it.                                              *)
Restart ==
    /\ IF call = "index"
       THEN \E n \in 0..Len(todo) - 1, part \in BOOLEAN : AppendKeys(n, part)
       ELSE UNCHANGED <<index, torn>>
    /\ seen' = index'
    /\ todo' = <<>>
    /\ IF options.append
       THEN UNCHANGED <<output, repeated>>
       ELSE output' = <<>> /\ repeated' = {}

Deliver ==
    \/ Filter \/ ReplaceData \/ DataWritten \/ WriteStdout \/ IndexKeys
    \/ WriteRaises \/ StdoutRaises \/ IndexRaises
================================================================================
