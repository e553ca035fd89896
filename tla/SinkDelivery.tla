------------------------------ MODULE SinkDelivery -----------------------------
(***************************************************************************)
(* The delivery manager with a sink that cdc_pipeline/sinks/factory.py     *)
(* built: batches of Feed are handed over one at a time, repeated until    *)
(* deliver_batch returns, and confirmed.  The process may die at any step; *)
(* the next one goes on behind the offset that was persisted by then, and  *)
(* with transaction boundaries off it may cut the batches differently.     *)
(***************************************************************************)
EXTENDS Integers, SequencesExt, FiniteSetsExt

CONSTANTS
    Feed,         \* sequence of [pos, type, table, pk, tx]: the events
    NoTx,         \* no enclosing transaction
    Options,      \* set of [type, indexed, append, cut]: configurations
    BatchSize,    \* downstream_batch_size
    MaxAttempts,  \* attempts of one call of the webhook sink
    MaxCrashes    \* bound: how often the process dies

(* Events carry fresh ids, so no two of them are the same.                 *)
ASSUME FeedAssumption ==
    /\ Feed \in Seq(Range(Feed))
    /\ \A i, j \in DOMAIN Feed : i # j => Feed[i] # Feed[j]

ASSUME ParametersAssumption ==
    /\ Options \subseteq [type : {"jsonl", "stdout", "webhook"}, indexed : BOOLEAN,
                         append : BOOLEAN, cut : {"transaction", "size"}]
    /\ BatchSize \in Nat \ {0}
    /\ MaxAttempts \in Nat \ {0}
    /\ MaxCrashes \in Nat

VARIABLES
    options, batch, call,
    next,        \* the first event that this process has not confirmed
    offset,      \* the last event covered by the persisted offset
    confirmed,   \* the last event ever confirmed
    crashes      \* how often the process has died

VARIABLES output, repeated           \* what the downstream system has
VARIABLES index, torn, seen, todo    \* JsonlSink
VARIABLES attempt, late, handled     \* WebhookSink

(* build_idempotency_key: neither database nor table are part of it. *)
Key(e) == <<e.pos, e.type, e.pk>>

File == INSTANCE JsonlSink
Http == INSTANCE WebhookSink

outputVars == <<output, repeated>>
fileVars   == <<index, torn, seen, todo>>
httpVars   == <<attempt, late, handled>>
sinkVars   == <<outputVars, fileVars, httpVars>>
offsetVars == <<next, offset, confirmed>>
vars == <<options, batch, call, offsetVars, crashes, sinkVars>>

Init ==
    /\ options \in Options
    /\ batch = <<>>
    /\ call = "idle"
    /\ next = 1
    /\ offset = 0
    /\ confirmed = 0
    /\ crashes = 0
    /\ File!Init
    /\ Http!Init

(* The events i to j are a batch: a whole transaction, or as many events   *)
(* outside transactions, with boundaries off of any kind, as there are.    *)
IsBatch(i, j) ==
    IF options.cut = "transaction" /\ Feed[i].tx # NoTx
    THEN {Feed[k] : k \in i..j} = {e \in Range(Feed) : e.tx = Feed[i].tx}
    ELSE /\ j - i < BatchSize
         /\ options.cut = "transaction" => \A k \in i..j : Feed[k].tx = NoTx

HandOver ==
    /\ call = "idle"
    /\ \E j \in next..Len(Feed) : IsBatch(next, j) /\ batch' = SubSeq(Feed, next, j)
    /\ call' = "called"
    /\ UNCHANGED <<options, offsetVars, crashes, sinkVars>>

SinkStep ==
    \/ /\ options.type \in {"jsonl", "stdout"}
       /\ File!Deliver
       /\ UNCHANGED httpVars
    \/ /\ options.type = "webhook"
       /\ Http!Deliver \/ Http!LateArrives
       /\ UNCHANGED fileVars

Deliver == SinkStep /\ UNCHANGED <<offsetVars, crashes>>

(* Mutants: a batch that was not taken is confirmed; it is given up.       *)
ConfirmAnyway ==
    /\ call \in {"returned", "raised"}
    /\ next' = next + Len(batch)
    /\ confirmed' = Max({confirmed, next' - 1})
    /\ batch' = <<>>
    /\ call' = "idle"
    /\ UNCHANGED <<options, offset, crashes, sinkVars>>

SkipBatch ==
    /\ call = "raised"
    /\ next' = next + Len(batch)
    /\ batch' = <<>>
    /\ call' = "idle"
    /\ UNCHANGED <<options, offset, confirmed, crashes, sinkVars>>

Confirm ==
    /\ call = "returned"
    /\ next' = next + Len(batch)
    /\ confirmed' = Max({confirmed, next' - 1})
    /\ batch' = <<>>
    /\ call' = "idle"
    /\ UNCHANGED <<options, offset, crashes, sinkVars>>

Retry ==
    /\ call = "raised"
    /\ call' = "called"
    /\ UNCHANGED <<options, batch, offsetVars, crashes, sinkVars>>

(* The offset is written some time after an acknowledgement, and not       *)
(* before the whole snapshot is delivered.                                 *)
Persist ==
    /\ offset < next - 1
    /\ \A i \in next..Len(Feed) : Feed[i].type # "snapshot"
    /\ offset' = next - 1
    /\ UNCHANGED <<options, batch, call, next, confirmed, crashes, sinkVars>>

(* Mutant: the last confirmed event is delivered again. *)
RestartAtOffset ==
    /\ crashes < MaxCrashes
    /\ crashes' = crashes + 1
    /\ batch' = <<>>
    /\ call' = "idle"
    /\ next' = offset
    /\ IF options.type = "webhook"
       THEN Http!Restart /\ UNCHANGED fileVars
       ELSE File!Restart /\ UNCHANGED httpVars
    /\ UNCHANGED <<options, offset, confirmed>>

Restart ==
    /\ crashes < MaxCrashes
    /\ crashes' = crashes + 1
    /\ batch' = <<>>
    /\ call' = "idle"
    /\ next' = offset + 1
    /\ IF options.type = "webhook"
       THEN Http!Restart /\ UNCHANGED fileVars
       ELSE File!Restart /\ UNCHANGED httpVars
    /\ UNCHANGED <<options, offset, confirmed>>

Next == HandOver \/ Deliver \/ Confirm \/ Retry \/ Persist \/ Restart

Spec == Init /\ [][Next]_vars

(* The delivering thread runs, and the disk and the endpoint recover from  *)
(* their failures.  Nothing makes a late request arrive.                   *)
File1(A) == A /\ UNCHANGED <<httpVars, offsetVars, crashes>>
Http1(A) == A /\ UNCHANGED <<fileVars, offsetVars, crashes>>
Recovery ==
    /\ SF_vars(File1(File!ReplaceData))
    /\ SF_vars(File1(File!DataWritten))
    /\ SF_vars(File1(File!IndexKeys))
    /\ SF_vars(File1(File!WriteStdout))
    /\ SF_vars(Http1(Http!PostAccepted))

FairSpec ==
    /\ Spec
    /\ WF_vars(HandOver) /\ WF_vars(Deliver) /\ WF_vars(Confirm) /\ WF_vars(Retry)
    /\ Recovery

-----------------------------------------------------------------------------
(* The variables have their types.                                         *)
TypeOK ==
    /\ options \in Options
    /\ batch = <<>> \/ \E j \in next..Len(Feed) : batch = SubSeq(Feed, next, j)
    /\ call \in {"idle", "called", "write", "reopen", "index", "post", "returned",
                 "raised"}
    /\ next \in 1..Len(Feed) + 1
    /\ offset \in 0..next - 1
    /\ confirmed \in next - 1..Len(Feed)
    /\ crashes \in 0..MaxCrashes
    /\ output \in Seq(Range(Feed)) /\ todo \in Seq(Range(Feed))
    /\ repeated \subseteq Range(Feed)
    /\ index \cup seen \subseteq {Key(e) : e \in Range(Feed)}
    /\ torn \in BOOLEAN
    /\ attempt \in 0..MaxAttempts
    /\ \A request \in late : request.events \in Seq(Range(Feed))

(* Every sink keeps what DownstreamConsumer.deliver_batch promises: in     *)
(* spite of failed and repeated calls, late requests and crashes it holds  *)
(* the events in order and without a gap, and all it has confirmed.        *)
Ledger == INSTANCE ConsumerLedger WITH ledger <- output
ImplementsLedger == Ledger!Spec

(* An event the sink has confirmed is in the file ("Write every delivered  *)
(* event as a single JSON line").                                          *)
ConfirmedIsWritten ==
    \A i \in 1..confirmed : Feed[i] \in Range(output)

(* A key in the index stands for a line in the data file (jsonl_sink.py,   *)
(* "Only persist the keys AFTER the data block is durable").  Otherwise    *)
(* the event is skipped for good.                                          *)
IndexNeverAhead == index \subseteq File!KeysOf(output)

(* "On restart any event whose key is already in the index is skipped on   *)
(* write": across failed appends, torn lines and crashes.                  *)
IndexedNeverRewritten ==
    [][\A e \in repeated' \ repeated : Key(e) \notin index]_vars

(* "Downstream readers never see a partial batch", and a transaction is    *)
(* one batch: at no time is a part of one visible, in file or endpoint.    *)
TransactionsVisibleWhole ==
    options.cut = "transaction" /\ options.type # "stdout" =>
        \A e \in Range(output), f \in Range(Feed) :
            e.tx # NoTx /\ f.tx = e.tx => f \in Range(output)

(* The endpoint applies a transaction once, whichever of the two layers    *)
(* repeated the request, and in whichever process.                         *)
TransactionsAppliedOnce ==
    options.cut = "transaction" /\ options.type = "webhook" =>
        \A e \in repeated : e.tx = NoTx

(* A batch that is refused or fails again and again is neither skipped nor *)
(* lost: once the sink recovers, everything is confirmed.                  *)
FeedConfirmed == <>(confirmed = Len(Feed))
===============================================================================
