------------------------------- MODULE Bridge -------------------------------
(***************************************************************************)
(* tools/nomicbridge: a unary Embedder in front of a model endpoint that   *)
(* takes arrays.  Embed queues its text and waits on a reply channel of    *)
(* capacity 1; one collector goroutine gathers batches, posts each and     *)
(* hands every waiter its part of the response.  Waiters may have given up *)
(* at any moment.                                                          *)
(*                                                                         *)
(* A vector is named by the text it embeds; normalisation does not change  *)
(* what it is the embedding of.  Only the collector talks to the endpoint, *)
(* so a POST and its response are one step.                                *)
(***************************************************************************)
EXTENDS Integers, Sequences, FiniteSets

CONSTANTS Calls,           \* Embed RPCs; a client's retry is another call
          Bytes,           \* bytes a text is made of
          RuneStarts,      \* those at which a rune starts (utf8.RuneStart)
          TextOf,          \* TextOf[c]: EmbedRequest.text
          MaxEmbedChars,   \* maxEmbedChars
          Oversize,        \* texts the endpoint refuses as too large
          NoVec,           \* no vector (nil)
          BatchMax,        \* batchMax
          QueueDepth       \* queueDepth

ASSUME BridgeAssumption ==
    /\ RuneStarts \subseteq Bytes
    /\ TextOf \in [Calls -> Seq(Bytes)]
    /\ MaxEmbedChars \in Nat
    /\ NoVec \notin Seq(Bytes)
    /\ BatchMax \in Nat \ {0}
    /\ QueueDepth \in Nat \ {0}

VARIABLES call,       \* call[c]: where the Embed RPC stands
          result,     \* result[c]: what it returned
          reply,      \* reply[c]: its reply channel
          queue,      \* s.queue
          collector,  \* where the collector goroutine stands
          batch,      \* its batch
          results,    \* what flush is handing out, one entry per item
          next        \* the next item of batch to get its result

bvars == <<call, result, reply, queue, collector, batch, results, next>>

-----------------------------------------------------------------------------
(* Texts and the endpoint. *)

(* Embed shortens a long text, at the last rune start within the limit.    *)
Cut(text) ==
    CHOOSE k \in 0..MaxEmbedChars :
        /\ k = 0 \/ text[k + 1] \in RuneStarts
        /\ \A j \in (k + 1)..MaxEmbedChars : text[j + 1] \notin RuneStarts

Text(c) ==
    IF Len(TextOf[c]) > MaxEmbedChars
    THEN SubSeq(TextOf[c], 1, Cut(TextOf[c]))
    ELSE TextOf[c]

Unary == INSTANCE Embedder
    WITH Embedding <- [c \in Calls |-> Text(c)],
         TooLong <- {c \in Calls : Text(c) \in Oversize},
         status <- [c \in Calls |->
                      IF call[c] \in {"offering", "waiting"} THEN "open"
                                                             ELSE call[c]],
         answer <- result

(* An entry of the response's data: the index it claims, the embedding of  *)
(* the input at that index, and whether it has 768 dimensions.             *)
Entry(b, index, full) ==
    [index |-> index,
     vec |-> IF index \in 1..Len(b) THEN Text(b[index]) ELSE NoVec,
     full |-> full]

(* What may come back for a POST: no usable response; an error status; or  *)
(* data, perhaps too little or too much, with indices in any order,        *)
(* repeated or out of range.  "too large" comes back only, and data never, *)
(* when an input is oversize.                                              *)
Status(s) == [status |-> s, data |-> <<>>]

HasOversize(b) == \E i \in 1..Len(b) : Text(b[i]) \in Oversize

Entries(b) == {Entry(b, index, full) : index \in 0..Len(b), full \in BOOLEAN}

DataFor(b) == UNION {[1..k -> Entries(b)] : k \in 0..(Len(b) + 1)}

Responses(b) ==
    {Status(s) : s \in {"none", "5xx", "4xx", "not JSON"}}
    \cup IF HasOversize(b)
         THEN {Status("500 too large")}
         ELSE {[status |-> "200", data |-> d] : d \in DataFor(b)}

(* Mutant: entries are taken in the order they come. *)
VecAt_ByPosition(data, j) == data[j].vec

(* vecs[idx] = d.Embedding *)
VecAt(data, j) == data[CHOOSE i \in 1..Len(data) : data[i].index = j].vec

(* The checks of the parsed response. *)
Aligned(data, n) ==
    /\ Len(data) = n
    /\ \A i \in 1..n : data[i].index \in 1..n /\ data[i].full
    /\ \A i, k \in 1..n : data[i].index = data[k].index => i = k

(* The error embedBatch makes of a response; NoAnswer for none. *)
ErrorOf(resp, n) ==
    CASE resp.status \in {"none", "5xx"} -> Unary!Failure("Unavailable", "upstream")
      [] resp.status = "500 too large"   -> Unary!TooLarge
      [] resp.status = "4xx"             -> Unary!Failure("Internal", "status")
      [] resp.status = "not JSON"        -> Unary!Failure("Internal", "malformed")
      [] resp.status = "200"             ->
            IF Aligned(resp.data, n) THEN Unary!NoAnswer
                                     ELSE Unary!Failure("Internal", "malformed")

(* The vectors and the error of embedBatch, as one result per item. *)
embedBatch(b, resp) ==
    LET err == ErrorOf(resp, Len(b))
    IN  [i \in 1..Len(b) |->
           IF err = Unary!NoAnswer THEN Unary!Answered(VecAt(resp.data, i))
                                   ELSE err]

-----------------------------------------------------------------------------
(* The Embed handler. *)

BInit ==
    /\ call = [c \in Calls |-> "idle"]
    /\ result = [c \in Calls |-> Unary!NoAnswer]
    /\ reply = [c \in Calls |-> <<>>]
    /\ queue = <<>>
    /\ collector = "idle"
    /\ batch = <<>>
    /\ results = <<>>
    /\ next = 1

(* The RPC arrives and reaches its first select. *)
Offer(c) ==
    /\ call[c] = "idle"
    /\ call' = [call EXCEPT ![c] = "offering"]
    /\ UNCHANGED <<result, reply, queue, collector, batch, results, next>>

(* s.queue <- p, once there is room. *)
Enqueue(c) ==
    /\ call[c] = "offering"
    /\ Len(queue) < QueueDepth
    /\ call' = [call EXCEPT ![c] = "waiting"]
    /\ queue' = Append(queue, c)
    /\ UNCHANGED <<result, reply, collector, batch, results, next>>

(* res := <-p.reply *)
Receive(c) ==
    /\ call[c] = "waiting"
    /\ reply[c] # <<>>
    /\ call' = [call EXCEPT ![c] = "answered"]
    /\ result' = [result EXCEPT ![c] = Head(reply[c])]
    /\ reply' = [reply EXCEPT ![c] = Tail(@)]
    /\ UNCHANGED <<queue, collector, batch, results, next>>

(* <-ctx.Done() in either select; a queued item stays where it is. *)
GiveUp(c) ==
    /\ call[c] \in {"offering", "waiting"}
    /\ call' = [call EXCEPT ![c] = "gone"]
    /\ UNCHANGED <<result, reply, queue, collector, batch, results, next>>

-----------------------------------------------------------------------------
(* The collector goroutine. *)

(* first := <-s.queue *)
CollectFirst ==
    /\ collector = "idle"
    /\ queue # <<>>
    /\ batch' = <<Head(queue)>>
    /\ queue' = Tail(queue)
    /\ collector' = "gathering"
    /\ UNCHANGED <<call, result, reply, results, next>>

(* Mutant: len(batch) <= batchMax in the loop's condition. *)
Gather_OneMore ==
    /\ collector = "gathering"
    /\ Len(batch) <= BatchMax
    /\ queue # <<>>
    /\ batch' = Append(batch, Head(queue))
    /\ queue' = Tail(queue)
    /\ UNCHANGED <<call, result, reply, collector, results, next>>

(* p := <-s.queue while the batch has room. *)
Gather ==
    /\ collector = "gathering"
    /\ Len(batch) < BatchMax
    /\ queue # <<>>
    /\ batch' = Append(batch, Head(queue))
    /\ queue' = Tail(queue)
    /\ UNCHANGED <<call, result, reply, collector, results, next>>

(* The batch is full, or batchWindow has elapsed. *)
CloseBatch ==
    /\ collector = "gathering"
    /\ collector' = "flushing"
    /\ UNCHANGED <<call, result, reply, queue, batch, results, next>>

(* Mutant: an error is dropped with its batch. *)
Flush_DropsError ==
    /\ collector = "flushing"
    /\ \E resp \in Responses(batch) :
       LET res == embedBatch(batch, resp)
       IN  IF res[1].code = "OK"
           THEN collector' = "delivering" /\ results' = res /\ UNCHANGED batch
           ELSE collector' = "idle" /\ batch' = <<>> /\ UNCHANGED results
    /\ next' = 1
    /\ UNCHANGED <<call, result, reply, queue>>

(* The call of embedBatch in flush.  An error or vectors are handed out;   *)
(* after "too large" the items are tried one by one.                       *)
Flush ==
    /\ collector = "flushing"
    /\ \E resp \in Responses(batch) :
       LET res == embedBatch(batch, resp)
       IN  IF res[1] = Unary!TooLarge
           THEN collector' = "singly" /\ UNCHANGED results
           ELSE collector' = "delivering" /\ results' = res
    /\ next' = 1
    /\ UNCHANGED <<call, result, reply, queue, batch>>

(* Mutant: the counter of the delivery loop is not advanced. *)
AfterItem_Stuck ==
    /\ collector' = collector
    /\ UNCHANGED <<batch, results, next>>

(* On to the next item, or back to the queue after the last. *)
AfterItem ==
    IF next = Len(batch)
    THEN /\ collector' = "idle"
         /\ batch' = <<>>
         /\ results' = <<>>
         /\ next' = 1
    ELSE /\ next' = next + 1
         /\ UNCHANGED <<collector, batch, results>>

(* Mutant: the reply channel is not buffered. *)
Send_Unbuffered(c, r) ==
    /\ call[c] = "waiting"
    /\ reply[c] = <<>>
    /\ reply' = [reply EXCEPT ![c] = <<r>>]

(* p.reply <- r: blocks while the channel holds a result already. *)
Send(c, r) ==
    /\ reply[c] = <<>>
    /\ reply' = [reply EXCEPT ![c] = <<r>>]

(* One round of a delivery loop of flush. *)
Deliver ==
    /\ collector = "delivering"
    /\ Send(batch[next], results[next])
    /\ AfterItem
    /\ UNCHANGED <<call, result, queue>>

(* One round of flushIndividually: an item too large even alone gets the   *)
(* permanent error, any other its vector or error.                         *)
FlushOne ==
    /\ collector = "singly"
    /\ \E resp \in Responses(<<batch[next]>>) :
          Send(batch[next], embedBatch(<<batch[next]>>, resp)[1])
    /\ AfterItem
    /\ UNCHANGED <<call, result, queue>>

Collector ==
    \/ CollectFirst
    \/ Gather
    \/ CloseBatch
    \/ Flush
    \/ Deliver
    \/ FlushOne

BNext ==
    \/ \E c \in Calls : Offer(c) \/ Enqueue(c) \/ Receive(c) \/ GiveUp(c)
    \/ Collector

BSpec == BInit /\ [][BNext]_bvars

(* The goroutines run, the batch timer fires and a POST ends, if only by   *)
(* its timeout.  Callers need not ever give up.                            *)
BFairSpec ==
    /\ BSpec
    /\ WF_bvars(Collector)
    /\ \A c \in Calls : WF_bvars(Enqueue(c)) /\ WF_bvars(Receive(c))

-----------------------------------------------------------------------------
(* Properties. *)

Results == [code : {"none", "OK", "Unavailable", "Internal"},
            why : {"none", "upstream", "malformed", "status", "too large"},
            vec : {Text(c) : c \in Calls} \cup {NoVec}]

(* The states of the variables, with the batch and queue within bounds.    *)
BTypeOK ==
    /\ call \in [Calls -> {"idle", "offering", "waiting", "answered", "gone"}]
    /\ result \in [Calls -> Results]
    /\ reply \in [Calls -> {<<>>} \cup {<<r>> : r \in Results}]
    /\ queue \in Seq(Calls) /\ Len(queue) <= QueueDepth
    /\ collector \in {"idle", "gathering", "flushing", "delivering", "singly"}
    /\ batch \in Seq(Calls) /\ Len(batch) <= BatchMax
    /\ (collector = "idle") = (batch = <<>>)
    /\ results \in Seq(Results)
    /\ collector = "delivering" => Len(results) = Len(batch)
    /\ next \in 1..(IF batch = <<>> THEN 1 ELSE Len(batch))

(* Items of the batch that have no result yet. *)
Unserved == {batch[i] : i \in next..Len(batch)}
Queued == {queue[i] : i \in 1..Len(queue)}

(* "the collector never blocks on a waiter that gave up": whatever waiters *)
(* do, the reply channel of every item without a result has room, and no   *)
(* item is to be served twice.                                             *)
ReplyNeverBlocks ==
    /\ \A c \in Unserved \cup Queued : reply[c] = <<>>
    /\ Unserved \cap Queued = {}
    /\ \A i, k \in next..Len(batch) : batch[i] = batch[k] => i = k
    /\ \A i, k \in 1..Len(queue) : queue[i] = queue[k] => i = k

(* A call that waits is still going to be served: it is in the queue, in   *)
(* the batch, or its reply is there.  No error path of flush forgets one.  *)
NoCallForgotten ==
    \A c \in Calls :
        call[c] = "waiting" => c \in Queued \cup Unserved \/ reply[c] # <<>>

(* The bridge is a unary Embedder: batching, reordered responses and       *)
(* fallback never give a caller another's vector or another's refusal.     *)
ImplementsUnary == Unary!ESpec

(* Every RPC returns, even if its caller would wait for ever and the queue *)
(* was full.                                                               *)
EveryCallReturns ==
    \A c \in Calls :
        call[c] \in {"offering", "waiting"} ~> call[c] \in {"answered", "gone"}

(* internal/embed/grpc.go: "reserves INTERNAL for non-retryable conditions *)
(* (malformed reply, wrong dims, text over the model's hard token limit)". *)
InternalIsPermanent ==
    \A c \in Calls :
        result[c].code = "Internal" => result[c].why \in {"malformed", "too large"}
=============================================================================
