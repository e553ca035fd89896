------------------------------ MODULE WebhookSink ------------------------------
(***************************************************************************)
(* HttpWebhookSink, cdc_pipeline/sinks/webhook_sink.py: a consumer that    *)
(* posts a batch with an idempotency key, and posts it again up to         *)
(* MaxAttempts times if the attempt failed.                                *)
(*                                                                         *)
(* The endpoint is external.  It applies a batch whose key it has not seen *)
(* and answers 2xx to one it has.  A request may be lost, refused (4xx),   *)
(* answered with an error (5xx) before or after it took effect, or be      *)
(* under way for so long that the sink gives up waiting for the answer.    *)
(***************************************************************************)
EXTENDS Lists, FiniteSets

CONSTANTS Key(_),       \* build_idempotency_key of an event
          MaxAttempts   \* max_retries + 1

VARIABLES
    options,  \* what the factory was given
    batch,    \* the events deliver_batch was called with
    call,     \* "idle", "called", "post", "returned", "raised"
    attempt,  \* attempts made by this call
    late,     \* requests nobody waits for any more
    output,   \* the events the endpoint has applied
    repeated, \* those it has applied more than once
    handled   \* the keys of the batches it has applied

endpoint == <<output, repeated, handled>>

Init ==
    /\ attempt = 0
    /\ late = {}
    /\ output = <<>>
    /\ repeated = {}
    /\ handled = {}

(* _batch_idempotency_key: the sorted keys of the events, as a bag.        *)
BatchKey(b) ==
    LET keys == {Key(b[i]) : i \in DOMAIN b}
    IN  [k \in keys |-> Cardinality({i \in DOMAIN b : Key(b[i]) = k})]

(* Mutant: the key says which attempt it is. *)
KeyOfAttempt == [key |-> <<BatchKey(batch), attempt>>, events |-> batch]

Request == [key |-> BatchKey(batch), events |-> batch]

(* A request reaches the endpoint. *)
Arrives(request) ==
    IF request.key \in handled THEN UNCHANGED endpoint
    ELSE LET known == Range(output) IN
         /\ output' = output \o Without(request.events, known)
         /\ repeated' = repeated \cup (Range(request.events) \cap known)
         /\ handled' = handled \cup {request.key}

Begin ==
    /\ call = "called"
    /\ attempt' = 0
    /\ call' = "post"
    /\ UNCHANGED <<options, batch, late, endpoint>>

PostAccepted ==
    /\ call = "post"
    /\ Arrives(Request)
    /\ attempt' = attempt + 1
    /\ call' = "returned"
    /\ UNCHANGED <<options, batch, late>>

(* 4xx: _PermanentHttpError is raised at once. *)
PostRefused ==
    /\ call = "post"
    /\ attempt' = attempt + 1
    /\ call' = "raised"
    /\ UNCHANGED <<options, batch, late, endpoint>>

(* No connection, no answer in time, or 5xx: the request had no effect, it *)
(* had its effect, or it is still under way.                               *)
PostFails ==
    /\ call = "post"
    /\ \/ UNCHANGED <<late, endpoint>>
       \/ Arrives(Request) /\ UNCHANGED late
       \/ late' = late \cup {Request} /\ UNCHANGED <<endpoint>>
    /\ attempt' = attempt + 1
    /\ call' = IF attempt' >= MaxAttempts THEN "raised" ELSE "post"
    /\ UNCHANGED <<options, batch>>

LateArrives ==
    /\ \E request \in late : Arrives(request) /\ late' = late \ {request}
    /\ UNCHANGED <<options, batch, call, attempt>>

(* A new process: the network and the endpoint go on. *)
Restart ==
    /\ attempt' = 0
    /\ UNCHANGED <<late, endpoint>>

Deliver == Begin \/ PostAccepted \/ PostRefused \/ PostFails
================================================================================
