--------------------------- MODULE ProviderClient ---------------------------
(***************************************************************************)
(* One embed_batch call: the host wrapper, the callback of the             *)
(* openai-compatible provider and its HTTP client, which splits the texts  *)
(* into batches, retries each request and puts the answers in order, while *)
(* the caller may cancel at any time and the endpoint may answer anything. *)
(***************************************************************************)
EXTENDS Integers, Sequences, FiniteSets

CONSTANTS
    Texts,      \* the texts to embed
    MaxTexts,   \* bound on their number
    BatchSize,  \* ProviderConfig.batch_size
    MaxRetries  \* ProviderConfig.max_retries

VARIABLES
    texts,      \* the request
    phase,      \* called, ready, sent, sleeping, done, failed
    attempt,    \* retries of the current batch
    out,        \* the vectors so far
    failure,    \* FailureKind
    cancelled,  \* what is_cancelled() answers
    requests,   \* HTTP requests sent
    batch,      \* EmbeddingBatchV1 allocations the host holds
    error,      \* EmbeddingErrorV1 allocations the host holds
    result      \* what the host's caller gets

vars == <<texts, phase, attempt, out, failure, cancelled, requests, batch, error, result>>

Ended == {"done", "failed"}

Init ==
    /\ texts \in UNION {[1..n -> Texts] : n \in 0..MaxTexts}
    /\ phase = "called" /\ attempt = 0 /\ out = <<>> /\ failure = "none"
    /\ cancelled \in BOOLEAN
    /\ requests = 0 /\ batch = 0 /\ error = 0 /\ result = "none"

Least(a, b) == IF a < b THEN a ELSE b

(* The texts of the current request: texts.chunks(batch_size).             *)
Chunk == SubSeq(texts, Len(out) + 1, Least(Len(texts), Len(out) + BatchSize))

-----------------------------------------------------------------------------
(* The endpoint: a refused or broken exchange, a status, or items that     *)
(* each carry an index and the vector of that input or a damaged one.      *)

Items(n) == UNION {[1..k -> [index : 0..n, good : BOOLEAN]] : k \in 0..n + 1}

Replies(n) ==
    [kind : {"io", "headers", "retryable", "refused", "garbled"}, items : {<<>>}]
        \cup [kind : {"success"}, items : Items(n)]

(* Mutant: the vectors are taken in the order of the answer.               *)
DecodeInAnswerOrder(items, n) ==
    IF /\ Len(items) = n
       /\ \A i \in 1..n : items[i].index < n /\ items[i].good
       /\ \A i, j \in 1..n : items[i].index = items[j].index => i = j
    THEN [ok |-> TRUE, order |-> [i \in 1..n |-> items[i].index + 1]]
    ELSE [ok |-> FALSE, order |-> <<>>]

(* decode_response and flatten_slots: as many items as inputs, each index  *)
(* once and in range, each vector of the requested dimension and finite;   *)
(* slot i then holds the vector of input i.                                *)
Decode(items, n) ==
    IF /\ Len(items) = n
       /\ \A i \in 1..n : items[i].index < n /\ items[i].good
       /\ \A i, j \in 1..n : items[i].index = items[j].index => i = j
    THEN [ok |-> TRUE, order |-> [i \in 1..n |-> i]]
    ELSE [ok |-> FALSE, order |-> <<>>]

-----------------------------------------------------------------------------
(* The client                                                              *)

Fail(kind) == phase' = "failed" /\ failure' = kind /\ UNCHANGED <<texts, attempt, out, requests>>

(* RegisteredEmbeddingProvider::embed_batch looks before it calls.         *)
HostCall ==
    /\ phase = "called" /\ result = "none"
    /\ \/ cancelled /\ result' = "Cancelled" /\ UNCHANGED phase
       \/ ~ cancelled /\ phase' = "ready" /\ UNCHANGED result
    /\ UNCHANGED <<texts, attempt, out, failure, cancelled, requests, batch, error>>

(* embed_impl: nothing to embed, and the end of the batches.               *)
Shape ==
    /\ phase = "ready"
    /\ \/ texts = <<>> /\ Fail("InvalidConfig")
       \/ /\ texts # <<>> /\ Len(out) = Len(texts)
          /\ phase' = "done" /\ UNCHANGED <<texts, attempt, out, failure, requests>>
    /\ UNCHANGED <<cancelled, batch, error, result>>

(* The head of the loops: ensure_not_cancelled, then send.                 *)
Send ==
    /\ phase = "ready" /\ Len(out) < Len(texts)
    /\ \/ cancelled /\ Fail("Cancelled")
       \/ /\ ~ cancelled
          /\ phase' = "sent" /\ requests' = requests + 1
          /\ UNCHANGED <<texts, attempt, out, failure>>
    /\ UNCHANGED <<cancelled, batch, error, result>>

(* retryable_status and the attempts that are left.                        *)
MayRetry(kind) == kind \in {"retryable", "io"} /\ attempt < MaxRetries

(* embed_one_batch, after send has returned.                               *)
Receive(reply) ==
    /\ phase = "sent"
    /\ CASE reply.kind = "headers" -> Fail("InvalidConfig")
         [] reply.kind # "io" /\ reply.kind # "headers" /\ cancelled -> Fail("Cancelled")
         [] reply.kind = "success" /\ ~ cancelled ->
                LET decoded == Decode(reply.items, Len(Chunk)) IN
                IF decoded.ok
                THEN /\ out' = out \o [i \in 1..Len(Chunk) |-> Chunk[decoded.order[i]]]
                     /\ attempt' = 0 /\ phase' = "ready"
                     /\ UNCHANGED <<texts, failure, requests>>
                ELSE Fail("Internal")
         [] MayRetry(reply.kind) /\ (reply.kind = "io" \/ ~ cancelled) ->
                /\ attempt' = attempt + 1 /\ phase' = "sleeping"
                /\ UNCHANGED <<texts, out, failure, requests>>
         [] OTHER -> Fail("Io")
    /\ UNCHANGED <<cancelled, batch, error, result>>

(* interruptible_sleep                                                     *)
Wake ==
    /\ phase = "sleeping"
    /\ \/ cancelled /\ Fail("Cancelled")
       \/ ~ cancelled /\ phase' = "ready" /\ UNCHANGED <<texts, attempt, out, failure, requests>>
    /\ UNCHANGED <<cancelled, batch, error, result>>

Panic ==
    /\ phase \in {"ready", "sent"} /\ Fail("Internal")
    /\ UNCHANGED <<cancelled, batch, error, result>>

-----------------------------------------------------------------------------
(* embed_batch_callback and ffi_boundary hand over an allocation.          *)
CallbackReturns ==
    /\ phase \in Ended /\ result = "none" /\ batch = 0 /\ error = 0
    /\ batch' = IF phase = "done" THEN 1 ELSE 0
    /\ error' = IF phase = "failed" THEN 1 ELSE 0
    /\ UNCHANGED <<texts, phase, attempt, out, failure, cancelled, requests, result>>

(* RegisteredEmbeddingProvider::embed_batch after the callback:            *)
(* finish_status frees the error, every path frees the batch.              *)
HostFinish ==
    /\ phase \in Ended /\ result = "none" /\ batch + error > 0
    /\ error' = 0 /\ batch' = 0
    /\ result' = CASE phase = "failed" -> failure
                   [] phase = "done" /\ cancelled -> "Cancelled"
                   [] OTHER -> "Ok"
    /\ UNCHANGED <<texts, phase, attempt, out, failure, cancelled, requests>>

Cancel ==
    /\ ~ cancelled /\ result = "none" /\ cancelled' = TRUE
    /\ UNCHANGED <<texts, phase, attempt, out, failure, requests, batch, error, result>>

Client == HostCall \/ Shape \/ Send \/ Wake \/ CallbackReturns \/ HostFinish
Network == \E reply \in Replies(Len(Chunk)) : Receive(reply)
Next == Client \/ Network \/ Panic \/ Cancel

(* The code runs on, and every request is bounded by the agent's timeout.  *)
Spec == Init /\ [][Next]_vars /\ WF_vars(Client) /\ WF_vars(Network)

-----------------------------------------------------------------------------
(* Properties                                                              *)

(* A call that succeeds returns the vector of every text at its place,     *)
(* however the endpoint ordered its answers and whatever was tried again.  *)
OutputInOrder == result = "Ok" => out = texts

(* The client asks the endpoint at most MaxRetries + 1 times per batch.    *)
RequestsBounded == requests <= (Len(out) \div BatchSize + 1) * (MaxRetries + 1)

(* When the call is over, the host holds no allocation of the provider.    *)
NothingLeaks == result # "none" => batch = 0 /\ error = 0

(* Every call ends, and one that is cancelled ends without the vectors.    *)
Returned == result # "none"
CallEnds == <>Returned
Failed == result \notin {"none", "Ok"}
CancelIsSeen == cancelled ~> Failed
=============================================================================
