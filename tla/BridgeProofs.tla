---------------------------- MODULE BridgeProofs ----------------------------
(***************************************************************************)
(* Proofs about the bridge: delivery never blocks, no waiting call is      *)
(* forgotten, and batching cannot be told from a unary server.             *)
(***************************************************************************)
EXTENDS Bridge, FiniteSetTheorems, TLAPS

(* A call that is not queued yet has left no trace in the collector. *)
Untouched ==
    \A c \in Calls :
        call[c] \in {"idle", "offering"} =>
            c \notin Queued \cup Unserved /\ reply[c] = <<>>

(* Items are handed out from the first on. *)
FromTheFirst == collector \in {"idle", "gathering", "flushing"} => next = 1

(* A result on its way is one its call may get. *)
OnTheWay ==
    /\ \A c \in Calls :
          reply[c] # <<>> => Head(reply[c]) \in Unary!Legitimate(c)
    /\ collector = "delivering" =>
          \A i \in next..Len(batch) : results[i] \in Unary!Legitimate(batch[i])

BInv ==
    /\ BTypeOK
    /\ ReplyNeverBlocks
    /\ NoCallForgotten
    /\ Untouched
    /\ FromTheFirst
    /\ OnTheWay

-----------------------------------------------------------------------------
(* What embedBatch makes of a response. *)

(* embedBatch's checks leave no index out: n entries with distinct indices *)
(* in range name every index, so vecs[idx] is set for every idx.           *)
LEMMA EveryIndexNamed ==
    ASSUME NEW n \in Nat, NEW data, Aligned(data, n), NEW j \in 1..n
    PROVE  \E i \in 1..n : data[i].index = j
  <1> DEFINE f == [i \in 1..n |-> data[i].index]
  <1>1. f \in Injection(1..n, 1..n)
    BY DEF Aligned, Injection, IsInjective
  <1>2. IsFiniteSet(1..n)
    BY FS_Interval
  <1>3. f \in Surjection(1..n, 1..n)
    BY <1>1, <1>2, FS_Injection
  <1> QED
    BY <1>3 DEF Surjection

(* The vector embedBatch returns for an item is that of the item's text.   *)
LEMMA OwnVector ==
    ASSUME NEW b \in Seq(Calls), NEW data \in DataFor(b),
           Aligned(data, Len(b)), NEW j \in 1..Len(b)
    PROVE  VecAt(data, j) = Text(b[j])
  <1>1. Len(b) \in Nat
    OBVIOUS
  <1>2. Len(data) = Len(b)
    BY DEF Aligned
  <1>3. \E i \in 1..Len(data) : data[i].index = j
    BY <1>1, <1>2, EveryIndexNamed
  <1> DEFINE i == CHOOSE k \in 1..Len(data) : data[k].index = j
  <1>4. i \in 1..Len(data) /\ data[i].index = j
    BY <1>3
  <1> HIDE DEF i
  <1>5. PICK k \in 0..(Len(b) + 1) : data \in [1..k -> Entries(b)]
    BY DEF DataFor
  <1>6. 1..Len(data) = 1..k
    <2>1. Len(data) = k
      BY <1>5, <1>1
    <2> QED
      BY <2>1
  <1>7. PICK index \in 0..Len(b), full \in BOOLEAN : data[i] = Entry(b, index, full)
    <2>1. data[i] \in Entries(b)
      BY <1>4, <1>5, <1>6
    <2> QED
      BY <2>1 DEF Entries
  <1>8. index = j
    BY <1>4, <1>7 DEF Entry
  <1>9. data[i].vec = Text(b[j])
    BY <1>7, <1>8 DEF Entry
  <1> QED
    BY <1>9 DEF VecAt, i

(* The three ways embedBatch ends, by the response. *)
LEMMA ErrorCases ==
    ASSUME NEW b, NEW resp \in Responses(b), NEW n
    PROVE  \/ /\ ErrorOf(resp, n) = Unary!NoAnswer
              /\ ~HasOversize(b)
              /\ resp.data \in DataFor(b)
              /\ Aligned(resp.data, n)
           \/ /\ ErrorOf(resp, n) = Unary!TooLarge
              /\ HasOversize(b)
           \/ ErrorOf(resp, n) \in Unary!AnyoneMayGet
  <1>1. CASE \E s \in {"none", "5xx", "4xx", "not JSON"} : resp = Status(s)
    <2>1. resp.status \in {"none", "5xx", "4xx", "not JSON"}
      <3>1. PICK s \in {"none", "5xx", "4xx", "not JSON"} : resp = Status(s)
        BY <1>1
      <3>2. resp.status = s
        BY <3>1 DEF Status
      <3> QED
        BY <3>2
    <2>2. ErrorOf(resp, n) \in Unary!AnyoneMayGet
      BY <2>1 DEF ErrorOf, Unary!AnyoneMayGet
    <2> QED
      BY <2>2
  <1>2. CASE HasOversize(b) /\ resp = Status("500 too large")
    BY <1>2 DEF Status, ErrorOf
  <1>3. CASE /\ ~HasOversize(b)
             /\ \E d \in DataFor(b) : resp = [status |-> "200", data |-> d]
    <2>1. PICK d \in DataFor(b) : resp = [status |-> "200", data |-> d]
      BY <1>3
    <2>2. resp.status = "200" /\ resp.data = d
      BY <2>1
    <2>3. ErrorOf(resp, n) = IF Aligned(d, n) THEN Unary!NoAnswer
                                   ELSE Unary!Failure("Internal", "malformed")
      BY <2>2 DEF ErrorOf
    <2> QED
      BY <1>3, <2>2, <2>3 DEF Unary!AnyoneMayGet
  <1> QED
    BY <1>1, <1>2, <1>3 DEF Responses

(* embedBatch's error tells a vector from a refusal. *)
LEMMA ErrorsDiffer ==
    /\ Unary!NoAnswer # Unary!TooLarge
    /\ Unary!NoAnswer \notin Unary!AnyoneMayGet
    /\ Unary!TooLarge \notin Unary!AnyoneMayGet
    /\ \A v : Unary!Answered(v) # Unary!TooLarge
  BY DEF Unary!NoAnswer, Unary!TooLarge, Unary!AnyoneMayGet, Unary!Failure,
         Unary!Answered

(* flush hands out only what each waiter may get: a batch with an oversize *)
(* text is not answered as one.                                            *)
LEMMA FlushLegitimate ==
    ASSUME NEW b \in Seq(Calls), NEW resp \in Responses(b),
           NEW i \in 1..Len(b),
           embedBatch(b, resp)[1] # Unary!TooLarge \/ Len(b) = 1
    PROVE  embedBatch(b, resp)[i] \in Unary!Legitimate(b[i])
  <1> DEFINE err == ErrorOf(resp, Len(b))
  <1>1. b[i] \in Calls /\ Len(b) \in Nat /\ 1 \in 1..Len(b)
    OBVIOUS
  <1>2. \A k \in 1..Len(b) :
           embedBatch(b, resp)[k] =
              IF err = Unary!NoAnswer THEN Unary!Answered(VecAt(resp.data, k))
                                      ELSE err
    BY DEF embedBatch
  <1> HIDE DEF err
  <1>3. CASE err = Unary!NoAnswer
    <2>1. ~HasOversize(b) /\ resp.data \in DataFor(b) /\ Aligned(resp.data, Len(b))
      BY <1>3, ErrorCases, ErrorsDiffer DEF err
    <2>2. VecAt(resp.data, i) = Text(b[i])
      BY <2>1, OwnVector
    <2>3. Text(b[i]) \notin Oversize
      BY <2>1 DEF HasOversize
    <2> QED
      BY <1>1, <1>2, <1>3, <2>2, <2>3 DEF Unary!Legitimate
  <1>4. CASE err = Unary!TooLarge
    <2>1. embedBatch(b, resp)[1] = Unary!TooLarge
      BY <1>1, <1>2, <1>4, ErrorsDiffer
    <2>2. HasOversize(b)
      BY <1>4, ErrorCases, ErrorsDiffer DEF err
    <2>3. Text(b[i]) \in Oversize
      <3>1. Len(b) = 1
        BY <2>1
      <3>2. \A k \in 1..Len(b) : k = i
        BY <3>1
      <3> QED
        BY <2>2, <3>2 DEF HasOversize
    <2> QED
      BY <1>1, <1>2, <1>4, <2>3, ErrorsDiffer DEF Unary!Legitimate
  <1>5. CASE err \in Unary!AnyoneMayGet
    BY <1>2, <1>5, ErrorsDiffer DEF Unary!Legitimate
  <1> QED
    BY <1>3, <1>4, <1>5, ErrorCases DEF err

(* Every answer a call may get is a result of the model. *)
LEMMA LegitimateResults ==
    ASSUME NEW c \in Calls
    PROVE  Unary!Legitimate(c) \subseteq Results
  <1>1. Text(c) \in {Text(d) : d \in Calls}
    OBVIOUS
  <1>2. Unary!Answered(Text(c)) \in Results
    BY <1>1 DEF Unary!Answered, Results
  <1>3. Unary!AnyoneMayGet \cup {Unary!TooLarge} \subseteq Results
    <2>1. /\ Unary!Failure("Unavailable", "upstream") \in Results
          /\ Unary!Failure("Internal", "malformed") \in Results
          /\ Unary!Failure("Internal", "status") \in Results
          /\ Unary!Failure("Internal", "too large") \in Results
      BY DEF Unary!Failure, Results
    <2> QED
      BY <2>1 DEF Unary!AnyoneMayGet, Unary!TooLarge
  <1> QED
    BY <1>2, <1>3 DEF Unary!Legitimate

-----------------------------------------------------------------------------
(* The steps of the handler. *)

(* A new RPC has no item anywhere. *)
LEMMA OfferStep ==
    ASSUME BInv, NEW c \in Calls, Offer(c)
    PROVE  BInv'
  <1> USE DEF BInv, Offer
  <1>1. BTypeOK'
    BY DEF BTypeOK
  <1>2. Queued' = Queued /\ Unserved' = Unserved
    BY DEF Queued, Unserved
  <1>3. ReplyNeverBlocks'
    BY <1>2 DEF ReplyNeverBlocks
  <1>4. FromTheFirst' /\ OnTheWay'
    BY DEF FromTheFirst, OnTheWay
  <1>5. NoCallForgotten' /\ Untouched'
    BY <1>2 DEF BTypeOK, NoCallForgotten, Untouched
  <1> QED
    BY <1>1, <1>3, <1>4, <1>5

(* A call that gives up leaves its item where it is. *)
LEMMA GiveUpStep ==
    ASSUME BInv, NEW c \in Calls, GiveUp(c)
    PROVE  BInv'
  <1> USE DEF BInv, GiveUp
  <1>1. BTypeOK'
    BY DEF BTypeOK
  <1>2. Queued' = Queued /\ Unserved' = Unserved
    BY DEF Queued, Unserved
  <1>3. ReplyNeverBlocks'
    BY <1>2 DEF ReplyNeverBlocks
  <1>4. FromTheFirst' /\ OnTheWay'
    BY DEF FromTheFirst, OnTheWay
  <1>5. NoCallForgotten' /\ Untouched'
    BY <1>2 DEF BTypeOK, NoCallForgotten, Untouched
  <1> QED
    BY <1>1, <1>3, <1>4, <1>5

(* What a send on s.queue does to its content. *)
LEMMA AppendFacts ==
    ASSUME NEW S, NEW q \in Seq(S), NEW x \in S
    PROVE  /\ Append(q, x) \in Seq(S)
           /\ Len(Append(q, x)) = Len(q) + 1
           /\ \A i \in 1..Len(q) : Append(q, x)[i] = q[i]
           /\ Append(q, x)[Len(q) + 1] = x
  OBVIOUS

(* The item of a call enters the queue once. *)
LEMMA EnqueueStep ==
    ASSUME BInv, NEW c \in Calls, Enqueue(c)
    PROVE  BInv'
  <1> USE DEF BInv, Enqueue
  <1>1. /\ queue \in Seq(Calls) /\ Len(queue) \in Nat
        /\ Len(queue') = Len(queue) + 1
        /\ \A i \in 1..Len(queue) : queue'[i] = queue[i]
        /\ queue'[Len(queue) + 1] = c
        /\ queue' \in Seq(Calls)
    BY AppendFacts DEF BTypeOK
  <1>2. Queued' = Queued \cup {c}
    BY <1>1 DEF Queued
  <1>3. Unserved' = Unserved
    BY DEF Unserved
  <1>4. c \notin Queued \cup Unserved /\ reply[c] = <<>>
    BY DEF Untouched
  <1>5. BTypeOK'
    BY <1>1, BridgeAssumption DEF BTypeOK
  <1>6. ReplyNeverBlocks'
    <2>1. \A i, k \in 1..Len(queue') : queue'[i] = queue'[k] => i = k
      BY <1>1, <1>4 DEF ReplyNeverBlocks, Queued
    <2> QED
      BY <1>2, <1>3, <1>4, <2>1 DEF ReplyNeverBlocks
  <1>7. NoCallForgotten' /\ Untouched'
    BY <1>2, <1>3 DEF BTypeOK, NoCallForgotten, Untouched
  <1>8. FromTheFirst' /\ OnTheWay'
    BY DEF FromTheFirst, OnTheWay
  <1> QED
    BY <1>5, <1>6, <1>7, <1>8

(* The one result of the reply channel is taken. *)
LEMMA ReceiveStep ==
    ASSUME BInv, NEW c \in Calls, Receive(c)
    PROVE  BInv'
  <1> USE DEF BInv, Receive
  <1>1. PICK r \in Results : reply[c] = <<r>>
    BY DEF BTypeOK
  <1>2. Head(reply[c]) = r /\ Tail(reply[c]) = <<>>
    BY <1>1
  <1>3. reply' = [reply EXCEPT ![c] = <<>>] /\ result' = [result EXCEPT ![c] = r]
    BY <1>2
  <1>4. Queued' = Queued /\ Unserved' = Unserved
    BY DEF Queued, Unserved
  <1>5. BTypeOK'
    BY <1>1, <1>3 DEF BTypeOK
  <1>6. ReplyNeverBlocks'
    BY <1>3, <1>4 DEF ReplyNeverBlocks, BTypeOK
  <1>7. NoCallForgotten' /\ Untouched'
    BY <1>3, <1>4 DEF BTypeOK, NoCallForgotten, Untouched
  <1>8. FromTheFirst' /\ OnTheWay'
    BY <1>3 DEF FromTheFirst, OnTheWay, BTypeOK
  <1> QED
    BY <1>5, <1>6, <1>7, <1>8

-----------------------------------------------------------------------------
(* The steps of the collector. *)

(* What a receive from s.queue does to its content. *)
LEMMA TailFacts ==
    ASSUME NEW S, NEW q \in Seq(S), q # <<>>
    PROVE  /\ Len(q) \in Nat \ {0}
           /\ Head(q) = q[1] /\ q[1] \in S
           /\ Tail(q) \in Seq(S)
           /\ Len(Tail(q)) = Len(q) - 1
           /\ \A i \in 1..(Len(q) - 1) : Tail(q)[i] = q[i + 1]
  OBVIOUS

(* The first item leaves the queue for good. *)
LEMMA DequeueFacts ==
    ASSUME BInv, queue # <<>>, queue' = Tail(queue)
    PROVE  /\ queue' \in Seq(Calls) /\ Len(queue') < Len(queue)
           /\ Head(queue) \in Calls
           /\ Queued = Queued' \cup {Head(queue)}
           /\ Head(queue) \notin Queued'
           /\ \A i, k \in 1..Len(queue') : queue'[i] = queue'[k] => i = k
  <1>1. queue \in Seq(Calls)
    BY DEF BInv, BTypeOK
  <1>2. /\ Len(queue) \in Nat \ {0}
        /\ Head(queue) = queue[1] /\ queue[1] \in Calls
        /\ queue' \in Seq(Calls)
        /\ Len(queue') = Len(queue) - 1
        /\ \A i \in 1..Len(queue') : queue'[i] = queue[i + 1]
    BY <1>1, TailFacts
  <1>3. \A i, k \in 1..Len(queue) : queue[i] = queue[k] => i = k
    BY DEF BInv, ReplyNeverBlocks
  <1>4. Queued = Queued' \cup {Head(queue)}
    <2>1. ASSUME NEW i \in 1..Len(queue) PROVE queue[i] \in Queued' \cup {Head(queue)}
      <3>1. CASE i = 1
        BY <1>2, <3>1
      <3>2. CASE i # 1
        <4>1. i - 1 \in 1..Len(queue') /\ queue'[i - 1] = queue[i]
          BY <1>2, <3>2
        <4> QED
          BY <4>1 DEF Queued
      <3> QED
        BY <3>1, <3>2
    <2>2. ASSUME NEW i \in 1..Len(queue') PROVE queue'[i] \in Queued
      <3>1. i + 1 \in 1..Len(queue)
        BY <1>2
      <3> QED
        BY <1>2, <3>1 DEF Queued
    <2>3. Head(queue) \in Queued
      BY <1>2 DEF Queued
    <2> QED
      BY <2>1, <2>2, <2>3 DEF Queued
  <1>5. Head(queue) \notin Queued'
    <2> SUFFICES ASSUME NEW i \in 1..Len(queue'), queue'[i] = Head(queue)
                 PROVE  FALSE
      BY DEF Queued
    <2>1. i + 1 \in 1..Len(queue) /\ 1 \in 1..Len(queue) /\ queue[i + 1] = queue[1]
      BY <1>2
    <2> QED
      BY <1>3, <2>1
  <1>6. ASSUME NEW i \in 1..Len(queue'), NEW k \in 1..Len(queue'),
               queue'[i] = queue'[k]
        PROVE  i = k
    <2>1. i + 1 \in 1..Len(queue) /\ k + 1 \in 1..Len(queue)
          /\ queue[i + 1] = queue[k + 1]
      BY <1>2, <1>6
    <2> QED
      BY <1>3, <2>1
  <1> QED
    BY <1>2, <1>4, <1>5, <1>6

(* Moving an item from queue to batch keeps the calls' bookkeeping. *)
LEMMA MovedToBatch ==
    ASSUME BInv, queue # <<>>, queue' = Tail(queue),
           UNCHANGED <<call, result, reply>>,
           Unserved' = Unserved \cup {Head(queue)},
           \A i, k \in (next..Len(batch))' : batch'[i] = batch'[k] => i = k
    PROVE  ReplyNeverBlocks' /\ NoCallForgotten' /\ Untouched'
  <1>1. Queued' \cup Unserved' = Queued \cup Unserved
    BY DequeueFacts
  <1>2. Queued' \cap Unserved' = {}
    BY DequeueFacts DEF BInv, ReplyNeverBlocks
  <1>3. ReplyNeverBlocks'
    BY <1>1, <1>2, DequeueFacts DEF BInv, ReplyNeverBlocks
  <1>4. NoCallForgotten' /\ Untouched'
    BY <1>1 DEF BInv, NoCallForgotten, Untouched
  <1> QED
    BY <1>3, <1>4

(* A batch starts with one item. *)
LEMMA CollectFirstStep ==
    ASSUME BInv, CollectFirst
    PROVE  BInv'
  <1> USE DEF CollectFirst
  <1>1. batch = <<>> /\ next = 1 /\ Unserved = {}
    BY DEF BInv, BTypeOK, Unserved
  <1>2. batch' = <<Head(queue)>> /\ Len(batch') = 1 /\ batch'[1] = Head(queue)
        /\ next' = 1
    BY <1>1
  <1>3. Unserved' = Unserved \cup {Head(queue)}
    BY <1>1, <1>2 DEF Unserved
  <1>4. \A i, k \in (next..Len(batch))' : batch'[i] = batch'[k] => i = k
    BY <1>2
  <1>5. ReplyNeverBlocks' /\ NoCallForgotten' /\ Untouched'
    BY <1>3, <1>4, MovedToBatch
  <1>6. BTypeOK'
    <2>1. batch' \in Seq(Calls) /\ batch' # <<>>
      BY <1>2, DequeueFacts
    <2> QED
      BY <1>2, <2>1, DequeueFacts, BridgeAssumption DEF BInv, BTypeOK
  <1>7. FromTheFirst' /\ OnTheWay'
    BY <1>2 DEF BInv, FromTheFirst, OnTheWay
  <1> QED
    BY <1>5, <1>6, <1>7 DEF BInv

(* The batch grows by one item, within batchMax. *)
LEMMA GatherStep ==
    ASSUME BInv, Gather
    PROVE  BInv'
  <1> USE DEF Gather
  <1>1. next = 1 /\ next' = 1
    BY DEF BInv, FromTheFirst
  <1>2. /\ batch \in Seq(Calls) /\ Len(batch) \in Nat
        /\ batch' \in Seq(Calls)
        /\ Len(batch') = Len(batch) + 1
        /\ \A i \in 1..Len(batch) : batch'[i] = batch[i]
        /\ batch'[Len(batch) + 1] = Head(queue)
    BY AppendFacts, DequeueFacts DEF BInv, BTypeOK
  <1>3. Unserved' = Unserved \cup {Head(queue)}
    BY <1>1, <1>2 DEF Unserved
  <1>4. \A i, k \in (next..Len(batch))' : batch'[i] = batch'[k] => i = k
    <2>1. Head(queue) \notin Unserved
      BY DequeueFacts DEF BInv, ReplyNeverBlocks
    <2>2. \A i \in 1..Len(batch) : batch[i] # Head(queue)
      BY <1>1, <2>1 DEF Unserved
    <2> QED
      BY <1>1, <1>2, <2>2 DEF BInv, ReplyNeverBlocks
  <1>5. ReplyNeverBlocks' /\ NoCallForgotten' /\ Untouched'
    BY <1>3, <1>4, MovedToBatch
  <1>6. BTypeOK'
    <2>1. batch' # <<>>
      BY <1>2
    <2> QED
      BY <1>1, <1>2, <2>1, DequeueFacts, BridgeAssumption, SMTT(30) DEF BInv, BTypeOK
  <1>7. FromTheFirst' /\ OnTheWay'
    BY <1>1 DEF BInv, FromTheFirst, OnTheWay
  <1> QED
    BY <1>5, <1>6, <1>7 DEF BInv

(* The batch is closed. *)
LEMMA CloseBatchStep ==
    ASSUME BInv, CloseBatch
    PROVE  BInv'
  <1> USE DEF BInv, CloseBatch
  <1>1. BTypeOK'
    BY DEF BTypeOK
  <1>2. Queued' = Queued /\ Unserved' = Unserved
    BY DEF Queued, Unserved
  <1>3. ReplyNeverBlocks' /\ NoCallForgotten' /\ Untouched'
    BY <1>2 DEF ReplyNeverBlocks, NoCallForgotten, Untouched
  <1>4. FromTheFirst' /\ OnTheWay'
    BY DEF FromTheFirst, OnTheWay
  <1> QED
    BY <1>1, <1>3, <1>4

(* The response to a batch becomes legitimate results, or the items are    *)
(* tried one by one.                                                       *)
LEMMA FlushStep ==
    ASSUME BInv, Flush
    PROVE  BInv'
  <1>1. PICK resp \in Responses(batch) :
            IF embedBatch(batch, resp)[1] = Unary!TooLarge
            THEN collector' = "singly" /\ UNCHANGED results
            ELSE collector' = "delivering" /\ results' = embedBatch(batch, resp)
    BY DEF Flush
  <1>2. /\ collector = "flushing" /\ next = 1 /\ next' = 1
        /\ UNCHANGED <<call, result, reply, queue, batch>>
    BY DEF BInv, FromTheFirst, Flush
  <1>3. batch \in Seq(Calls) /\ batch # <<>> /\ Len(batch) \in Nat
    BY <1>2 DEF BInv, BTypeOK
  <1>4. ReplyNeverBlocks' /\ NoCallForgotten' /\ Untouched'
    <2>1. Queued' = Queued /\ Unserved' = Unserved
      BY <1>2 DEF Queued, Unserved
    <2> QED
      BY <1>2, <2>1 DEF BInv, ReplyNeverBlocks, NoCallForgotten, Untouched
  <1>5. CASE embedBatch(batch, resp)[1] = Unary!TooLarge
    <2>1. collector' = "singly" /\ results' = results
      BY <1>1, <1>5
    <2>2. BTypeOK'
      BY <1>2, <1>3, <2>1 DEF BInv, BTypeOK
    <2>3. FromTheFirst' /\ OnTheWay'
      BY <1>2, <2>1 DEF BInv, FromTheFirst, OnTheWay
    <2> QED
      BY <1>4, <2>2, <2>3 DEF BInv
  <1>6. CASE embedBatch(batch, resp)[1] # Unary!TooLarge
    <2>1. collector' = "delivering" /\ results' = embedBatch(batch, resp)
      BY <1>1, <1>6
    <2>2. \A i \in 1..Len(batch) : results'[i] \in Unary!Legitimate(batch[i])
      BY <1>3, <1>6, <2>1, FlushLegitimate
    <2>3. \A i \in 1..Len(batch) : results'[i] \in Results
      BY <1>3, <2>2, LegitimateResults
    <2>4. results' \in Seq(Results) /\ Len(results') = Len(batch)
      <3>1. results' = [i \in 1..Len(batch) |-> results'[i]]
        BY <2>1 DEF embedBatch
      <3> QED
        BY <1>3, <2>3, <3>1
    <2>5. BTypeOK'
      BY <1>2, <1>3, <2>1, <2>4 DEF BInv, BTypeOK
    <2>6. FromTheFirst' /\ OnTheWay'
      BY <1>2, <2>1, <2>2 DEF BInv, FromTheFirst, OnTheWay
    <2> QED
      BY <1>4, <2>5, <2>6 DEF BInv
  <1> QED
    BY <1>5, <1>6

(* A delivery loop gives its next item a legitimate result. *)
LEMMA ServedOne ==
    ASSUME BInv, collector \in {"delivering", "singly"},
           NEW r, r \in Unary!Legitimate(batch[next]),
           Send(batch[next], r), AfterItem,
           UNCHANGED <<call, result, queue>>
    PROVE  BInv'
  <1> DEFINE c == batch[next]
  <1>1. /\ batch \in Seq(Calls) /\ batch # <<>> /\ Len(batch) \in Nat
        /\ next \in 1..Len(batch)
        /\ c \in Calls
    BY DEF BInv, BTypeOK
  <1>2. r \in Results
    BY <1>1, LegitimateResults
  <1>3. reply' = [reply EXCEPT ![c] = <<r>>] /\ reply \in [Calls -> {<<>>} \cup {<<q>> : q \in Results}]
    BY DEF Send, BInv, BTypeOK
  <1>4. reply'[c] = <<r>> /\ \A d \in Calls \ {c} : reply'[d] = reply[d]
    BY <1>1, <1>3
  <1>5. c \in Unserved
    BY <1>1 DEF Unserved
  <1>6. Queued' = Queued
    BY DEF Queued
  <1>7. Unserved' = Unserved \ {c}
    <2>1. \A i, k \in next..Len(batch) : batch[i] = batch[k] => i = k
      BY DEF BInv, ReplyNeverBlocks
    <2>2. CASE next = Len(batch)
      <3>1. batch' = <<>> /\ next' = 1
        BY <2>2 DEF AfterItem
      <3>2. Unserved' = {}
        BY <3>1 DEF Unserved
      <3>3. Unserved = {c}
        BY <1>1, <2>2 DEF Unserved
      <3> QED
        BY <3>2, <3>3
    <2>3. CASE next # Len(batch)
      <3>1. batch' = batch /\ next' = next + 1
        BY <2>3 DEF AfterItem
      <3>2. \A i \in (next + 1)..Len(batch) : batch[i] # c
        BY <1>1, <2>1
      <3> QED
        BY <1>1, <3>1, <3>2 DEF Unserved
    <2> QED
      BY <2>2, <2>3
  <1>8. BTypeOK'
    <2>1. reply' \in [Calls -> {<<>>} \cup {<<q>> : q \in Results}]
      BY <1>2, <1>3
    <2>2. CASE next = Len(batch)
      <3>1. batch' = <<>> /\ next' = 1 /\ results' = <<>> /\ collector' = "idle"
        BY <2>2 DEF AfterItem
      <3> QED
        BY <2>1, <3>1, BridgeAssumption DEF BInv, BTypeOK
    <2>3. CASE next # Len(batch)
      <3>1. batch' = batch /\ next' = next + 1 /\ UNCHANGED <<results, collector>>
        BY <2>3 DEF AfterItem
      <3>2. next' \in 1..Len(batch)
        BY <1>1, <2>3, <3>1
      <3> QED
        BY <1>1, <2>1, <3>1, <3>2 DEF BInv, BTypeOK
    <2> QED
      BY <2>2, <2>3
  <1>9. \A i, k \in (next..Len(batch))' : batch'[i] = batch'[k] => i = k
    BY <1>1 DEF AfterItem, BInv, ReplyNeverBlocks
  <1> HIDE DEF c
  <1>10. Queued \subseteq Calls /\ Unserved \subseteq Calls
    BY <1>1 DEF BInv, BTypeOK, Queued, Unserved
  <1>11. ReplyNeverBlocks'
    <2>1. c \notin Queued'
      BY <1>5, <1>6 DEF BInv, ReplyNeverBlocks
    <2>2. \A d \in Unserved' \cup Queued' : reply'[d] = <<>>
      BY <1>4, <1>6, <1>7, <1>10, <2>1 DEF BInv, ReplyNeverBlocks
    <2>3. \A i, k \in 1..Len(queue') : queue'[i] = queue'[k] => i = k
      BY DEF BInv, ReplyNeverBlocks
    <2> QED
      BY <1>6, <1>7, <1>9, <2>2, <2>3 DEF BInv, ReplyNeverBlocks
  <1>12. NoCallForgotten'
    <2>1. <<r>> # <<>>
      OBVIOUS
    <2> QED
      BY <1>4, <1>6, <1>7, <2>1 DEF BInv, NoCallForgotten
  <1>13. Untouched'
    BY <1>4, <1>5, <1>6, <1>7 DEF BInv, Untouched
  <1>14. FromTheFirst'
    BY DEF AfterItem, FromTheFirst
  <1>15. OnTheWay'
    <2>1. Head(<<r>>) = r
      OBVIOUS
    <2>2. \A d \in Calls :
             reply'[d] # <<>> => Head(reply'[d]) \in Unary!Legitimate(d)
      BY <1>4, <2>1 DEF BInv, OnTheWay, c
    <2>3. collector' = "delivering" =>
             \A i \in (next..Len(batch))' :
                results'[i] \in Unary!Legitimate(batch'[i])
      BY <1>1 DEF AfterItem, BInv, OnTheWay
    <2> QED
      BY <2>2, <2>3 DEF OnTheWay
  <1> QED
    BY <1>8, <1>11, <1>12, <1>13, <1>14, <1>15 DEF BInv

(* flush delivers an item of its results. *)
LEMMA DeliverStep ==
    ASSUME BInv, Deliver
    PROVE  BInv'
  <1>1. next \in next..Len(batch)
    BY DEF BInv, BTypeOK, Deliver
  <1>2. results[next] \in Unary!Legitimate(batch[next])
    BY <1>1 DEF BInv, OnTheWay, Deliver
  <1> QED
    BY <1>2, ServedOne DEF Deliver

(* flushIndividually delivers what the item got by itself. *)
LEMMA FlushOneStep ==
    ASSUME BInv, FlushOne
    PROVE  BInv'
  <1>1. batch[next] \in Calls
    BY DEF BInv, BTypeOK, FlushOne
  <1> DEFINE b == <<batch[next]>>
  <1>2. PICK resp \in Responses(b) : Send(batch[next], embedBatch(b, resp)[1])
    BY DEF FlushOne
  <1>3. b \in Seq(Calls) /\ Len(b) = 1 /\ b[1] = batch[next] /\ 1 \in 1..Len(b)
    BY <1>1
  <1> HIDE DEF b
  <1>4. embedBatch(b, resp)[1] \in Unary!Legitimate(batch[next])
    BY <1>3, FlushLegitimate
  <1> QED
    BY <1>2, <1>4, ServedOne DEF FlushOne

-----------------------------------------------------------------------------
(* The theorems. *)

(* The inductive invariant of the bridge holds in every reachable state.   *)
THEOREM BridgeInvariance == BSpec => []BInv
  <1>1. BInit => BInv
    <2> SUFFICES ASSUME BInit PROVE BInv
      OBVIOUS
    <2>1. Unary!NoAnswer \in Results
      BY DEF Unary!NoAnswer, Results
    <2>2. Queued = {} /\ Unserved = {}
      BY DEF BInit, Queued, Unserved
    <2>3. BTypeOK
      BY <2>1, BridgeAssumption DEF BInit, BTypeOK
    <2>4. ReplyNeverBlocks /\ NoCallForgotten /\ Untouched
      BY <2>2 DEF BInit, ReplyNeverBlocks, NoCallForgotten, Untouched
    <2>5. FromTheFirst /\ OnTheWay
      BY DEF BInit, FromTheFirst, OnTheWay
    <2> QED
      BY <2>3, <2>4, <2>5 DEF BInv
  <1>2. BInv /\ [BNext]_bvars => BInv'
    <2> SUFFICES ASSUME BInv, [BNext]_bvars PROVE BInv'
      OBVIOUS
    <2>1. CASE UNCHANGED bvars
      <3>1. BTypeOK'
        BY <2>1 DEF bvars, BInv, BTypeOK
      <3>2. ReplyNeverBlocks' /\ NoCallForgotten' /\ Untouched'
        <4>1. Queued' = Queued /\ Unserved' = Unserved
          BY <2>1 DEF bvars, Queued, Unserved
        <4> QED
          BY <2>1, <4>1 DEF bvars, BInv, ReplyNeverBlocks, NoCallForgotten,
              Untouched
      <3>3. FromTheFirst' /\ OnTheWay'
        BY <2>1 DEF bvars, BInv, FromTheFirst, OnTheWay
      <3> QED
        BY <3>1, <3>2, <3>3 DEF BInv
    <2>2. CASE \E c \in Calls : Offer(c) \/ Enqueue(c) \/ Receive(c) \/ GiveUp(c)
      BY <2>2, OfferStep, EnqueueStep, ReceiveStep, GiveUpStep
    <2>3. CASE Collector
      BY <2>3, CollectFirstStep, GatherStep, CloseBatchStep, FlushStep,
         DeliverStep, FlushOneStep DEF Collector
    <2> QED
      BY <2>1, <2>2, <2>3 DEF BNext
  <1> QED
    BY <1>1, <1>2, PTL DEF BSpec

(* The collector's batch stays within --batch-max and the channel within   *)
(* its depth, and every result it holds belongs to an item of the batch.   *)
THEOREM BridgeTyped == BSpec => []BTypeOK
  <1>1. BInv => BTypeOK
    BY DEF BInv
  <1> QED
    BY <1>1, BridgeInvariance, PTL

(* The collector's send on a reply channel never blocks, whatever the      *)
(* waiters do: "the collector never blocks on a waiter that gave up".      *)
THEOREM CollectorNeverBlocks == BSpec => []ReplyNeverBlocks
  <1>1. BInv => ReplyNeverBlocks
    BY DEF BInv
  <1> QED
    BY <1>1, BridgeInvariance, PTL

(* Every waiting Embed call is in the queue, in the batch or has its       *)
(* reply.                                                                  *)
THEOREM NoneForgotten == BSpec => []NoCallForgotten
  <1>1. BInv => NoCallForgotten
    BY DEF BInv
  <1> QED
    BY <1>1, BridgeInvariance, PTL

(* Callers of the bridge cannot tell it from a server that embeds one text *)
(* per request: it implements Embedder, for every batch size, queue depth  *)
(* and number of calls.                                                    *)
THEOREM BridgeIsUnary == BSpec => ImplementsUnary
  <1> DEFINE st == [c \in Calls |->
                      IF call[c] \in {"offering", "waiting"} THEN "open"
                                                             ELSE call[c]]
  <1>1. BInit => Unary!EInit
    BY DEF BInit, Unary!EInit
  <1>2. BInv /\ [BNext]_bvars => [Unary!ENext]_Unary!evars
    <2> SUFFICES ASSUME BInv, [BNext]_bvars
                 PROVE  Unary!ENext \/ (st' = st /\ UNCHANGED result)
      BY DEF Unary!evars
    <2>1. call \in [Calls -> {"idle", "offering", "waiting", "answered", "gone"}]
      BY DEF BInv, BTypeOK
    <2>2. ASSUME NEW c \in Calls, Offer(c)
          PROVE  Unary!Open(c)
      BY <2>1, <2>2 DEF Offer, Unary!Open
    <2>3. ASSUME NEW c \in Calls, Enqueue(c)
          PROVE  st' = st /\ UNCHANGED result
      BY <2>1, <2>3 DEF Enqueue
    <2>4. ASSUME NEW c \in Calls, Receive(c)
          PROVE  Unary!Answer(c)
      <3>1. Head(reply[c]) \in Unary!Legitimate(c)
        BY <2>4 DEF Receive, BInv, OnTheWay
      <3> HIDE DEF Unary!Legitimate
      <3> QED
        BY <2>1, <2>4, <3>1 DEF Receive, Unary!Answer
    <2>5. ASSUME NEW c \in Calls, GiveUp(c)
          PROVE  Unary!Leave(c)
      BY <2>1, <2>5 DEF GiveUp, Unary!Leave
    <2>6. CASE Collector
      BY <2>6 DEF Collector, CollectFirst, Gather, CloseBatch, Flush, Deliver,
          FlushOne
    <2>7. CASE UNCHANGED bvars
      BY <2>7 DEF bvars
    <2> QED
      BY <2>2, <2>3, <2>4, <2>5, <2>6, <2>7 DEF BNext, Unary!ENext
  <1> QED
    BY <1>1, <1>2, BridgeInvariance, PTL DEF BSpec, ImplementsUnary, Unary!ESpec
=============================================================================
