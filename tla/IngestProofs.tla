---------------------------- MODULE IngestProofs ----------------------------
(* For every number of uploads, datasets and faults: the types of ingest,  *)
(* that the blob of every committed row can be read, what acks and         *)
(* counters say of the rows, which memories eval finds, and that uploads   *)
(* implement the ledger.                                                   *)
EXTENDS Ingest, DataFacts, FiniteSetTheorems, TLAPS

Keys == {Key(i) : i \in Item}
HandlerRec == [pc : Pcs, pos : Nat, put : SUBSET Keys,
               accepted : Nat, deduped : Nat]
ClientRec == [data : Datasets \cup {<<>>},
              result : {"none", "running", "ok", "failed"}]
RowRec == [id : 1..(nextId - 1), turn : Turns \cup {NoTurn}, key : Keys]

(* The stores: a row is written after its blob. *)
StoreInv ==
    /\ objects \subseteq Keys
    /\ nextId \in Nat \ {0}
    /\ \A r \in table : r \in RowRec /\ r.key \in objects
    /\ breaks \in 0..MaxBreaks

(* One stream: a key it remembers as put is in the bucket, and a handler   *)
(* about to insert has its blob there.                                     *)
StreamInv(s) ==
    /\ handler[s] \in HandlerRec
    /\ client[s] \in ClientRec
    /\ handler[s].pos <= Len(client[s].data)
    /\ handler[s].pc \in {"put", "insert"} => handler[s].pos > 0
    /\ handler[s].put \subseteq objects
    /\ handler[s].pc = "insert" => Key(Current(s)) \in objects
    /\ client[s].result = "none" => handler[s] = NoHandler

(* The inductive invariant. *)
IngestInv ==
    /\ StoreInv
    /\ client \in [Streams -> ClientRec]
    /\ handler \in [Streams -> HandlerRec]
    /\ \A s \in Streams : StreamInv(s)

(* The memory a handler is working on is one of its client's dataset. *)
LEMMA CurrentItem ==
    ASSUME NEW s \in Streams, StreamInv(s),
           handler[s].pc \in {"put", "insert"}
    PROVE  Current(s) \in Item
<1>1. client[s].data \in Seq(Item)
  <2>1. <<>> \in Seq(Item)
    OBVIOUS
  <2>2. client[s].data \in Datasets \cup {<<>>}
    BY DEF StreamInv, ClientRec
  <2>3. QED  BY <2>1, <2>2, IngestAssumption
<1>2. handler[s].pos \in 1..Len(client[s].data)
  BY <1>1 DEF StreamInv, HandlerRec
<1>3. QED  BY <1>1, <1>2 DEF Current

(* Inserting a row whose blob is there, or burning its id, keeps the table *)
(* well-typed and every row's blob readable.                               *)
LEMMA InsertRowInv ==
    ASSUME StoreInv, NEW item \in Item, Key(item) \in objects,
           InsertRow(item), UNCHANGED objects, breaks' \in 0..MaxBreaks
    PROVE  StoreInv'
<1>1. nextId \in Nat \ {0} /\ nextId' = nextId + 1
  BY DEF StoreInv, InsertRow
<1>2. \A r \in RowRec : r \in RowRec'
  BY <1>1 DEF RowRec
<1>3. NewRow(item) \in RowRec'
  BY <1>1 DEF NewRow, Item, RowRec, Keys
<1>4. \A r \in table' : r \in table \/ r = NewRow(item)
  BY DEF InsertRow
<1>5. NewRow(item).key = Key(item)
  BY DEF NewRow
<1>6. \A r \in table' : r \in RowRec' /\ r.key \in objects'
  BY <1>2, <1>3, <1>4, <1>5 DEF StoreInv
<1>7. QED  BY <1>1, <1>6 DEF StoreInv

(* A step of stream s that deletes no object leaves the others' invariant  *)
(* alone.                                                                  *)
LEMMA OneStream ==
    ASSUME IngestInv, NEW s \in Streams, NEW h \in HandlerRec,
           NEW c \in ClientRec,
           handler' = [handler EXCEPT ![s] = h],
           client' = [client EXCEPT ![s] = c],
           objects \subseteq objects', StoreInv',
           h.pos <= Len(c.data),
           h.pc \in {"put", "insert"} => h.pos > 0,
           h.put \subseteq objects',
           h.pc = "insert" => Key(c.data[h.pos]) \in objects',
           c.result # "none"
    PROVE  IngestInv'
<1>1. /\ handler' \in [Streams -> HandlerRec] /\ handler'[s] = h
      /\ client' \in [Streams -> ClientRec] /\ client'[s] = c
  BY DEF IngestInv
<1>2. StreamInv(s)'
  BY <1>1 DEF StreamInv, Current
<1>3. ASSUME NEW t \in Streams, t # s  PROVE StreamInv(t)'
  <2>1. handler'[t] = handler[t] /\ client'[t] = client[t] /\ StreamInv(t)
    BY <1>3 DEF IngestInv
  <2>2. QED  BY <2>1 DEF StreamInv, Current
<1>4. QED  BY <1>1, <1>2, <1>3 DEF IngestInv

(* A handler that fails has nothing left to write. *)
LEMMA HandlerFailsInv ==
    ASSUME IngestInv, NEW s \in Streams, HandlerFails(s),
           objects \subseteq objects', StoreInv'
    PROVE  IngestInv'
<1> DEFINE h == [handler[s] EXCEPT !.pc = "end"]
           c == [client[s] EXCEPT !.result = "failed"]
<1>1. StreamInv(s)
  BY DEF IngestInv
<1>2. /\ h \in HandlerRec /\ c \in ClientRec
      /\ h.pc = "end" /\ h.pos = handler[s].pos /\ h.put = handler[s].put
      /\ c.result = "failed" /\ c.data = client[s].data
  BY <1>1 DEF StreamInv, HandlerRec, ClientRec, Pcs
<1>3. /\ handler' = [handler EXCEPT ![s] = h]
      /\ client' = [client EXCEPT ![s] = c]
  BY DEF HandlerFails
<1> HIDE DEF h, c
<1>4. QED
  BY <1>1, <1>2, <1>3, OneStream DEF StreamInv

(* A fault changes no store. *)
LEMMA BreakInv ==
    ASSUME StoreInv, UNCHANGED <<objects, table, nextId>>,
           Break \/ UNCHANGED breaks
    PROVE  StoreInv'
  BY IngestAssumption DEF StoreInv, RowRec, Break

(* Putting an object deletes none. *)
LEMMA PutInv ==
    ASSUME StoreInv, NEW item \in Item, objects' = objects \cup {Key(item)},
           UNCHANGED <<table, nextId>>, Break \/ UNCHANGED breaks
    PROVE  StoreInv'
  BY IngestAssumption DEF StoreInv, RowRec, Break, Keys

-----------------------------------------------------------------------------
(* One lemma per action of a stream.                                       *)

(* A new stream has put nothing. *)
LEMMA StartIngestInv ==
    ASSUME IngestInv, NEW s \in Streams, NEW d \in Datasets, StartIngest(s, d)
    PROVE  IngestInv'
<1> DEFINE h == [NoHandler EXCEPT !.pc = "recv"]
           c == [data |-> d, result |-> "running"]
<1>1. handler[s] = NoHandler /\ d \in Seq(Item)
  BY IngestAssumption DEF IngestInv, StreamInv, StartIngest
<1>2. /\ h \in HandlerRec /\ h.pc = "recv" /\ h.pos = 0 /\ h.put = {}
      /\ c \in ClientRec /\ c.data = d /\ c.result = "running"
  BY DEF HandlerRec, ClientRec, Pcs, NoHandler
<1>3. /\ handler' = [handler EXCEPT ![s] = h]
      /\ client' = [client EXCEPT ![s] = c]
      /\ UNCHANGED <<objects, table, nextId, breaks>>
  BY <1>1 DEF StartIngest
<1>4. StoreInv'
  BY <1>3, BreakInv DEF IngestInv
<1> HIDE DEF h, c
<1>5. h.pos <= Len(c.data)
  BY <1>1, <1>2
<1>6. QED
  BY <1>2, <1>3, <1>4, <1>5, OneStream

(* The handler skips the put only for a key it has put before. *)
LEMMA RecvInv ==
    ASSUME IngestInv, NEW s \in Streams, Recv(s)
    PROVE  IngestInv'
<1>1. /\ StreamInv(s) /\ handler[s].pc = "recv"
      /\ handler[s].pos < Len(client[s].data)
      /\ UNCHANGED <<objects, table, nextId, client, breaks>>
  BY DEF IngestInv, Recv
<1>2. PICK n \in Nat, p \in {"insert", "put"} :
         /\ n = handler[s].pos + 1
         /\ p = "insert" => Key(client[s].data[n]) \in handler[s].put
         /\ handler' = [handler EXCEPT ![s] =
                          [handler[s] EXCEPT !.pos = n, !.pc = p]]
  <2>1. PICK n \in Nat : n = handler[s].pos + 1
    BY <1>1 DEF StreamInv, HandlerRec
  <2>2. PICK p \in {"insert", "put"} :
           p = IF Key(client[s].data[n]) \in handler[s].put
               THEN "insert" ELSE "put"
    OBVIOUS
  <2>3. handler' = [handler EXCEPT ![s] =
                      [handler[s] EXCEPT !.pos = n, !.pc = p]]
    BY <2>1, <2>2 DEF Recv
  <2>4. QED  BY <2>1, <2>2, <2>3
<1>3. PICK h \in HandlerRec :
         /\ h.pos = n /\ h.put = handler[s].put /\ h.pc = p
         /\ handler' = [handler EXCEPT ![s] = h]
  <2>1. PICK h : h = [handler[s] EXCEPT !.pos = n, !.pc = p]
    OBVIOUS
  <2>2. /\ h \in HandlerRec /\ h.pos = n /\ h.put = handler[s].put
        /\ h.pc = p
    BY <1>1, <2>1 DEF StreamInv, HandlerRec, Pcs
  <2>3. QED  BY <1>2, <2>1, <2>2
<1>4. /\ client' = [client EXCEPT ![s] = client[s]]
      /\ client[s] \in ClientRec /\ client[s].result # "none"
  BY <1>1 DEF IngestInv, StreamInv, NoHandler
<1>5. StoreInv'
  BY <1>1, BreakInv DEF IngestInv
<1>6. Len(client[s].data) \in Nat /\ handler[s].pos \in Nat
  <2>1. <<>> \in Seq(Item)
    OBVIOUS
  <2>2. QED  BY <1>1, <2>1, IngestAssumption DEF StreamInv, ClientRec, HandlerRec
<1>7. /\ h.pos <= Len(client[s].data) /\ h.pos > 0
      /\ h.put \subseteq objects'
      /\ h.pc = "insert" => Key(client[s].data[h.pos]) \in objects'
  BY <1>1, <1>2, <1>3, <1>6 DEF StreamInv
<1>8. QED
  BY <1>1, <1>3, <1>4, <1>5, <1>7, OneStream

(* Acknowledging writes nothing. *)
LEMMA AckInv ==
    ASSUME IngestInv, NEW s \in Streams, Ack(s)
    PROVE  IngestInv'
<1>1. /\ StreamInv(s) /\ handler[s].pc = "recv"
      /\ UNCHANGED <<objects, table, nextId>>
      /\ Break \/ UNCHANGED breaks
  BY DEF IngestInv, Ack
<1>2. PICK h : /\ h = [handler[s] EXCEPT !.pc = "end"]
               /\ handler' = [handler EXCEPT ![s] = h]
  BY DEF Ack
<1>3. /\ h \in HandlerRec /\ h.pc = "end" /\ h.pos = handler[s].pos
      /\ h.put = handler[s].put
  BY <1>1, <1>2 DEF StreamInv, HandlerRec, Pcs
<1>4. PICK c \in ClientRec : /\ c.data = client[s].data /\ c.result # "none"
                             /\ client' = [client EXCEPT ![s] = c]
  <2>1. client[s] \in ClientRec
    BY <1>1 DEF StreamInv
  <2>2. CASE client[s].result = "failed"
    BY <2>1, <2>2 DEF Ack, IngestInv
  <2>3. CASE client' = [client EXCEPT ![s].result = "ok"]
    <3>1. [client[s] EXCEPT !.result = "ok"] \in ClientRec
      BY <2>1 DEF ClientRec
    <3>2. QED  BY <2>1, <2>3, <3>1 DEF ClientRec
  <2>4. CASE client' = [client EXCEPT ![s].result = "failed"]
    <3>1. [client[s] EXCEPT !.result = "failed"] \in ClientRec
      BY <2>1 DEF ClientRec
    <3>2. QED  BY <2>1, <2>4, <3>1 DEF ClientRec
  <2>5. QED  BY <2>2, <2>3, <2>4 DEF Ack
<1>5. StoreInv'
  BY <1>1, BreakInv DEF IngestInv
<1>6. QED
  BY <1>1, <1>2, <1>3, <1>4, <1>5, OneStream DEF StreamInv

(* After PutObject the blob of the row to insert is there. *)
LEMMA PutObjectInv ==
    ASSUME IngestInv, NEW s \in Streams, PutObject(s)
    PROVE  IngestInv'
<1>1. /\ StreamInv(s) /\ handler[s].pc = "put" /\ UNCHANGED client
      /\ objects' = objects \cup {Key(Current(s))}
      /\ UNCHANGED <<table, nextId, breaks>>
  BY DEF IngestInv, PutObject
<1>2. Current(s) \in Item
  BY <1>1, CurrentItem
<1>3. StoreInv'
  BY <1>1, <1>2, PutInv DEF IngestInv
<1>4. PICK h : /\ h = [handler[s] EXCEPT !.pc = "insert",
                          !.put = handler[s].put \cup {Key(Current(s))}]
               /\ handler' = [handler EXCEPT ![s] = h]
  BY DEF PutObject
<1>5. /\ h \in HandlerRec /\ h.pc = "insert" /\ h.pos = handler[s].pos
      /\ h.put = handler[s].put \cup {Key(Current(s))}
  BY <1>1, <1>2, <1>4 DEF StreamInv, HandlerRec, Pcs, Keys
<1>6. /\ client' = [client EXCEPT ![s] = client[s]]
      /\ client[s] \in ClientRec /\ client[s].result # "none"
  BY <1>1 DEF IngestInv, StreamInv, NoHandler
<1>7. Key(client[s].data[h.pos]) \in objects'
  BY <1>1, <1>5 DEF Current
<1>8. h.put \subseteq objects'
  BY <1>1, <1>5 DEF StreamInv
<1>9. QED
  BY <1>1, <1>3, <1>4, <1>5, <1>6, <1>7, <1>8, OneStream DEF StreamInv

(* The row is inserted after its blob. *)
LEMMA InsertInv ==
    ASSUME IngestInv, NEW s \in Streams, Insert(s)
    PROVE  IngestInv'
<1>1. /\ StreamInv(s) /\ handler[s].pc = "insert" /\ InsertRow(Current(s))
      /\ UNCHANGED <<objects, client, breaks>>
  BY DEF IngestInv, Insert
<1>2. Current(s) \in Item /\ Key(Current(s)) \in objects
  BY <1>1, CurrentItem DEF StreamInv
<1>3. StoreInv'
  BY <1>1, <1>2, InsertRowInv DEF IngestInv, StoreInv
<1>4. PICK h \in HandlerRec :
         /\ h.pc = "recv" /\ h.pos = handler[s].pos
         /\ h.put = handler[s].put
         /\ handler' = [handler EXCEPT ![s] = h]
  <2>1. handler[s] \in HandlerRec
    BY <1>1 DEF StreamInv
  <2>2. CASE Duplicate(Current(s))
    <3>1. PICK n \in Nat : n = handler[s].deduped + 1
      BY <2>1 DEF HandlerRec
    <3>2. PICK h : h = [handler[s] EXCEPT !.pc = "recv", !.deduped = n]
      OBVIOUS
    <3>3. /\ h \in HandlerRec /\ h.pc = "recv" /\ h.pos = handler[s].pos
          /\ h.put = handler[s].put
      BY <2>1, <3>2 DEF HandlerRec, Pcs
    <3>4. handler' = [handler EXCEPT ![s] = h]
      BY <2>2, <3>1, <3>2 DEF Insert
    <3>5. QED  BY <3>3, <3>4
  <2>3. CASE ~Duplicate(Current(s))
    <3>1. PICK n \in Nat : n = handler[s].accepted + 1
      BY <2>1 DEF HandlerRec
    <3>2. PICK h : h = [handler[s] EXCEPT !.pc = "recv", !.accepted = n]
      OBVIOUS
    <3>3. /\ h \in HandlerRec /\ h.pc = "recv" /\ h.pos = handler[s].pos
          /\ h.put = handler[s].put
      BY <2>1, <3>2 DEF HandlerRec, Pcs
    <3>4. handler' = [handler EXCEPT ![s] = h]
      BY <2>3, <3>1, <3>2 DEF Insert
    <3>5. QED  BY <3>3, <3>4
  <2>4. QED  BY <2>2, <2>3
<1>5. /\ client' = [client EXCEPT ![s] = client[s]]
      /\ client[s] \in ClientRec /\ client[s].result # "none"
  BY <1>1 DEF IngestInv, StreamInv, NoHandler
<1>6. QED
  BY <1>1, <1>3, <1>4, <1>5, OneStream DEF StreamInv

(* The three ways a handler returns an error. *)
LEMMA RecvFailsInv ==
    ASSUME IngestInv, NEW s \in Streams, RecvFails(s)
    PROVE  IngestInv'
<1>1. StoreInv' /\ HandlerFails(s) /\ UNCHANGED objects
  BY BreakInv DEF IngestInv, RecvFails
<1>2. QED  BY <1>1, HandlerFailsInv

(* A failed put ends the stream before any row. *)
LEMMA PutFailsInv ==
    ASSUME IngestInv, NEW s \in Streams, PutFails(s)
    PROVE  IngestInv'
<1>1. /\ Current(s) \in Item /\ HandlerFails(s) /\ Break
      /\ UNCHANGED <<table, nextId>>
  BY CurrentItem DEF IngestInv, PutFails
<1>2. CASE UNCHANGED objects
  BY <1>1, <1>2, BreakInv, HandlerFailsInv DEF IngestInv
<1>3. CASE objects' = objects \cup {Key(Current(s))}
  BY <1>1, <1>3, PutInv, HandlerFailsInv DEF IngestInv
<1>4. QED  BY <1>2, <1>3 DEF PutFails

(* A failed insert may have committed a row, whose blob is there. *)
LEMMA InsertFailsInv ==
    ASSUME IngestInv, NEW s \in Streams, InsertFails(s)
    PROVE  IngestInv'
<1>1. /\ StreamInv(s) /\ handler[s].pc = "insert"
      /\ HandlerFails(s) /\ Break /\ UNCHANGED objects
  BY DEF IngestInv, InsertFails
<1>2. Current(s) \in Item /\ Key(Current(s)) \in objects
  BY <1>1, CurrentItem DEF StreamInv
<1>3. CASE UNCHANGED <<table, nextId>>
  BY <1>1, <1>3, BreakInv, HandlerFailsInv DEF IngestInv
<1>4. CASE InsertRow(Current(s))
  <2>1. breaks' \in 0..MaxBreaks
    BY <1>1, IngestAssumption DEF Break, IngestInv, StoreInv
  <2>2. QED
    BY <1>1, <1>2, <1>4, <2>1, InsertRowInv, HandlerFailsInv DEF IngestInv
<1>5. QED  BY <1>3, <1>4 DEF InsertFails

(* A client that gives up leaves the handler as it is. *)
LEMMA ClientGivesUpInv ==
    ASSUME IngestInv, NEW s \in Streams, ClientGivesUp(s)
    PROVE  IngestInv'
<1>1. /\ StreamInv(s) /\ UNCHANGED <<objects, table, nextId, handler>>
      /\ Break
  BY DEF IngestInv, ClientGivesUp
<1>2. PICK c : /\ c = [client[s] EXCEPT !.result = "failed"]
               /\ client' = [client EXCEPT ![s] = c]
  BY DEF ClientGivesUp
<1>3. /\ c \in ClientRec /\ c.data = client[s].data /\ c.result = "failed"
      /\ handler[s] \in HandlerRec
      /\ handler' = [handler EXCEPT ![s] = handler[s]]
  BY <1>1, <1>2 DEF StreamInv, ClientRec, IngestInv
<1>4. StoreInv'
  BY <1>1, BreakInv DEF IngestInv
<1>5. handler[s].pc = "insert" => Key(c.data[handler[s].pos]) \in objects'
  BY <1>1, <1>3 DEF StreamInv, Current
<1>6. QED
  BY <1>1, <1>2, <1>3, <1>4, <1>5, OneStream DEF StreamInv

(* A crash loses handlers, not objects or rows. *)
LEMMA ServerCrashInv ==
    ASSUME IngestInv, ServerCrash
    PROVE  IngestInv'
<1>1. StoreInv' /\ UNCHANGED objects
  BY BreakInv DEF IngestInv, ServerCrash
<1>2. ASSUME NEW s \in Streams
      PROVE  /\ StreamInv(s)' /\ handler'[s] \in HandlerRec
             /\ client'[s] \in ClientRec
  <2>1. /\ StreamInv(s) /\ handler[s] \in HandlerRec
        /\ client[s] \in ClientRec
    BY DEF IngestInv, StreamInv
  <2>2. /\ client'[s] \in ClientRec /\ client'[s].data = client[s].data
        /\ client'[s].result = "none" => client[s].result = "none"
    BY <2>1 DEF ServerCrash, ClientRec
  <2>3. CASE handler[s].pc = "none"
    <3>1. handler'[s] = NoHandler
      BY <2>3 DEF ServerCrash
    <3>2. /\ NoHandler \in HandlerRec /\ NoHandler.pos = 0
          /\ NoHandler.put = {} /\ NoHandler.pc = "none"
      BY DEF NoHandler, HandlerRec, Pcs
    <3>3. 0 <= Len(client[s].data)
      <4>1. <<>> \in Seq(Item)
        OBVIOUS
      <4>2. QED  BY <2>1, <4>1, IngestAssumption DEF ClientRec
    <3>4. QED  BY <2>2, <3>1, <3>2, <3>3 DEF StreamInv
  <2>4. CASE handler[s].pc # "none"
    <3>1. handler'[s] = [handler[s] EXCEPT !.pc = "end"]
      BY <2>4 DEF ServerCrash
    <3>2. /\ handler'[s] \in HandlerRec /\ handler'[s].pc = "end"
          /\ handler'[s].pos = handler[s].pos
          /\ handler'[s].put = handler[s].put
      BY <2>1, <3>1 DEF HandlerRec, Pcs
    <3>3. client'[s].result # "none"
      BY <2>1, <2>2, <2>4 DEF StreamInv, NoHandler
    <3>4. QED  BY <1>1, <2>1, <2>2, <3>2, <3>3 DEF StreamInv
  <2>5. QED  BY <2>3, <2>4
<1>3. /\ client' \in [Streams -> ClientRec]
      /\ handler' \in [Streams -> HandlerRec]
  BY <1>2 DEF ServerCrash
<1>4. QED  BY <1>1, <1>2, <1>3 DEF IngestInv

-----------------------------------------------------------------------------
(* The invariant behind every safety property of ingest: it holds of every *)
(* behaviour of the upload streams, the S3 bucket and table memories.      *)
THEOREM IngestInvariance == ISpec => []IngestInv
<1>1. IInit => IngestInv
  <2>1. /\ NoHandler \in HandlerRec /\ NoHandler.pos = 0
        /\ NoHandler.put = {} /\ NoHandler.pc = "none"
        /\ NoClient \in ClientRec /\ NoClient.data = <<>>
    BY DEF NoHandler, NoClient, HandlerRec, ClientRec, Pcs
  <2>2. QED
    BY <2>1, IngestAssumption DEF IInit, IngestInv, StoreInv, StreamInv
<1>2. IngestInv /\ [INext]_ivars => IngestInv'
  <2> SUFFICES ASSUME IngestInv, [INext]_ivars  PROVE IngestInv'
    OBVIOUS
  <2>1. CASE UNCHANGED ivars
    BY <2>1 DEF IngestInv, StoreInv, StreamInv, RowRec, Current, ivars
  <2>2. ASSUME NEW s \in Streams,
               \/ \E d \in Datasets : StartIngest(s, d)
               \/ Recv(s) \/ Ack(s) \/ RecvFails(s)
               \/ PutObject(s) \/ PutFails(s)
               \/ Insert(s) \/ InsertFails(s)
               \/ ClientGivesUp(s)
        PROVE  IngestInv'
    BY <2>2, StartIngestInv, RecvInv, AckInv, RecvFailsInv, PutObjectInv,
       PutFailsInv, InsertInv, InsertFailsInv, ClientGivesUpInv
  <2>3. QED  BY <2>1, <2>2, ServerCrashInv DEF INext
<1>3. QED  BY <1>1, <1>2, PTL DEF ISpec

(* The types of ingest's state hold for every set of streams, datasets and *)
(* faults.                                                                 *)
THEOREM IngestTypeCorrect == ISpec => []ITypeOK
<1>1. IngestInv => ITypeOK
  BY DEF IngestInv, StoreInv, StreamInv, ITypeOK, HandlerRec, ClientRec,
         RowRec, Keys
<1>2. QED  BY <1>1, IngestInvariance, PTL

(* "write blob first": for any number of concurrent, failing and repeated  *)
(* uploads, FetchTexts finds the blob of every committed row.              *)
THEOREM BlobAlwaysFirst == ISpec => []BlobFirst
<1>1. IngestInv => BlobFirst
  BY DEF IngestInv, StoreInv, BlobFirst, FetchTextsFinds
<1>2. QED  BY <1>1, IngestInvariance, PTL
-----------------------------------------------------------------------------
(* What was acknowledged is stored.  The invariant above says nothing of   *)
(* how many rows there are; a second one, proved on top of it, does.       *)

(* The items of its dataset a handler is done with. *)
Done(h) == IF h.pc \in {"put", "insert"} THEN h.pos - 1 ELSE h.pos

(* The first n items of dataset d have a row in T, their own if they have  *)
(* no turn; those that have one of their own text.                         *)
Stored(d, T, n) ==
    \A i \in 1..n : \E r \in T :
        r.turn = d[i].turn /\ (d[i].turn = NoTurn => r.key = Key(d[i]))
Own(d, T, n) ==
    {i \in 1..n : \E r \in T : r.turn = d[i].turn /\ r.key = Key(d[i])}

(* A stream: until the handler fails its counters add up to the items it   *)
(* is done with, each of which has a row; the accepted ones keep theirs    *)
(* even after it fails.                                                    *)
StreamRows(h, c, T) ==
    /\ c.result = "none" => c = NoClient
    /\ c.result = "ok" => h.pc = "end" /\ h.pos = Len(c.data)
    /\ h.pc \in {"recv", "put", "insert"} \/ c.result = "ok" =>
          h.accepted + h.deduped = Done(h) /\ Stored(c.data, T, Done(h))
    /\ h.accepted <= Cardinality(Own(c.data, T, Done(h)))

OneRowPerTurn(T) ==
    \A r, q \in T : r.turn = q.turn /\ r.turn # NoTurn => r = q

(* Row r is of an item that clients C uploaded. *)
FromUpload(r, C) ==
    \E t \in Streams : \E i \in DOMAIN C[t].data :
        r.turn = C[t].data[i].turn /\ r.key = Key(C[t].data[i])

RowsInv ==
    /\ OneRowPerTurn(table)
    /\ \A r \in table : FromUpload(r, client)
    /\ \A s \in Streams : StreamRows(handler[s], client[s], table)

(* The records of one stream fit each other. *)
StreamTyped(h, c) ==
    /\ h \in HandlerRec /\ c \in ClientRec
    /\ h.pos <= Len(c.data)
    /\ h.pc \in {"put", "insert"} => h.pos > 0

(* Datasets are finite sequences of items, and a handler is never past the *)
(* end of its own.                                                         *)
LEMMA DoneBounds ==
    ASSUME NEW h, NEW c, StreamTyped(h, c)
    PROVE  /\ c.data \in Seq(Item) /\ Len(c.data) \in Nat
           /\ DOMAIN c.data = 1..Len(c.data)
           /\ Done(h) \in Nat /\ Done(h) <= Len(c.data)
<1>1. c.data \in Seq(Item)
  <2>1. <<>> \in Seq(Item)
    OBVIOUS
  <2>2. QED  BY <2>1, IngestAssumption DEF StreamTyped, ClientRec
<1>2. Len(c.data) \in Nat /\ DOMAIN c.data = 1..Len(c.data)
  BY <1>1
<1>3. Done(h) \in Nat /\ Done(h) <= Len(c.data)
  BY <1>2 DEF StreamTyped, HandlerRec, Done
<1>4. QED  BY <1>1, <1>2, <1>3

(* The items with rows of their own are finitely many, and more rows or    *)
(* more items make them no fewer.                                          *)
LEMMA OwnGrows ==
    ASSUME NEW d, NEW T, NEW U, T \subseteq U, NEW n \in Nat, NEW k \in Nat,
           n <= k
    PROVE  /\ IsFiniteSet(Own(d, T, n)) /\ IsFiniteSet(Own(d, U, k))
           /\ Cardinality(Own(d, T, n)) \in Nat
           /\ Cardinality(Own(d, U, k)) \in Nat
           /\ Own(d, T, n) \subseteq Own(d, U, k)
           /\ Cardinality(Own(d, T, n)) <= Cardinality(Own(d, U, k))
<1>1. IsFiniteSet(1..k) /\ IsFiniteSet(1..n)
  BY FS_Interval
<1>2. Own(d, T, n) \subseteq 1..n /\ Own(d, U, k) \subseteq 1..k
  BY DEF Own
<1>3. IsFiniteSet(Own(d, T, n)) /\ IsFiniteSet(Own(d, U, k))
  BY <1>1, <1>2, FS_Subset
<1>4. Own(d, T, n) \subseteq Own(d, U, k)
  BY DEF Own
<1>5. Cardinality(Own(d, T, n)) \in Nat /\ Cardinality(Own(d, U, k)) \in Nat
  BY <1>3, FS_CardinalityType
<1>6. Cardinality(Own(d, T, n)) <= Cardinality(Own(d, U, k))
  BY <1>3, <1>4, FS_Subset
<1>7. QED  BY <1>3, <1>4, <1>5, <1>6

(* One more own row, of an item not looked at before, is one more. *)
LEMMA OwnAdds ==
    ASSUME NEW d, NEW T, NEW U, T \subseteq U, NEW n \in Nat,
           n + 1 \in Own(d, U, n + 1)
    PROVE  Cardinality(Own(d, T, n)) + 1 <= Cardinality(Own(d, U, n + 1))
<1>0. n + 1 \in Nat /\ n <= n + 1
  OBVIOUS
<1>1. /\ IsFiniteSet(Own(d, T, n)) /\ IsFiniteSet(Own(d, U, n + 1))
      /\ Own(d, T, n) \subseteq Own(d, U, n + 1)
  BY <1>0, OwnGrows
<1>2. n + 1 \notin Own(d, T, n)
  BY DEF Own
<1>3. Cardinality(Own(d, T, n) \cup {n + 1}) = Cardinality(Own(d, T, n)) + 1
  BY <1>1, <1>2, FS_AddElement
<1>4. Own(d, T, n) \cup {n + 1} \subseteq Own(d, U, n + 1)
  BY <1>1
<1>5. Cardinality(Own(d, T, n) \cup {n + 1})
         <= Cardinality(Own(d, U, n + 1))
  BY <1>1, <1>4, FS_Subset
<1>6. QED  BY <1>3, <1>5

(* Rows that others add disturb no stream. *)
LEMMA StreamRowsGrow ==
    ASSUME NEW h, NEW c, StreamTyped(h, c), NEW T, NEW U, T \subseteq U,
           StreamRows(h, c, T)
    PROVE  StreamRows(h, c, U)
<1>1. Done(h) \in Nat /\ Done(h) <= Done(h)
  BY DoneBounds
<1>2. /\ Cardinality(Own(c.data, T, Done(h)))
           <= Cardinality(Own(c.data, U, Done(h)))
      /\ Cardinality(Own(c.data, T, Done(h))) \in Nat
      /\ Cardinality(Own(c.data, U, Done(h))) \in Nat
  BY <1>1, OwnGrows
<1>3. h.accepted \in Nat
  BY DEF StreamTyped, HandlerRec
<1>4. h.accepted <= Cardinality(Own(c.data, U, Done(h)))
  BY <1>2, <1>3 DEF StreamRows
<1>5. Stored(c.data, T, Done(h)) => Stored(c.data, U, Done(h))
  BY DEF Stored
<1>6. QED  BY <1>4, <1>5 DEF StreamRows

(* A step of stream s that deletes no row, and adds rows of its own items  *)
(* only, leaves the others' rows alone.                                    *)
LEMMA OneStreamRows ==
    ASSUME IngestInv, RowsInv, NEW s \in Streams, NEW h, NEW c,
           handler' = [handler EXCEPT ![s] = h],
           client' = [client EXCEPT ![s] = c],
           table \subseteq table', OneRowPerTurn(table'),
           c.data = client[s].data \/ client[s].data = <<>>,
           StreamRows(h, c, table'),
           \A r \in table' \ table : \E i \in DOMAIN c.data :
               r.turn = c.data[i].turn /\ r.key = Key(c.data[i])
    PROVE  RowsInv'
<1>1. /\ handler'[s] = h /\ client'[s] = c
      /\ \A t \in Streams : t # s => /\ handler'[t] = handler[t]
                                     /\ client'[t] = client[t]
  BY DEF IngestInv
<1>2. ASSUME NEW t \in Streams, t # s
      PROVE  StreamRows(handler'[t], client'[t], table')
  <2>1. StreamTyped(handler[t], client[t])
    BY DEF IngestInv, StreamInv, StreamTyped
  <2>2. StreamRows(handler[t], client[t], table)
    BY DEF RowsInv
  <2>3. PICK T : T = table'
    OBVIOUS
  <2>4. StreamRows(handler[t], client[t], T)
    BY <2>1, <2>2, <2>3, StreamRowsGrow
  <2>5. QED  BY <1>1, <1>2, <2>3, <2>4
<1>3. ASSUME NEW r \in table'  PROVE FromUpload(r, client')
  <2>1. CASE r \in table
    <3>1. PICK t \in Streams : \E i \in DOMAIN client[t].data :
             r.turn = client[t].data[i].turn /\ r.key = Key(client[t].data[i])
      BY <2>1 DEF RowsInv, FromUpload
    <3>2. client'[t].data = client[t].data
      BY <1>1, <3>1
    <3>3. QED  BY <3>1, <3>2 DEF FromUpload
  <2>2. CASE r \notin table
    BY <1>1, <2>2 DEF FromUpload
  <2>3. QED  BY <2>1, <2>2
<1>4. QED  BY <1>1, <1>2, <1>3 DEF RowsInv

-----------------------------------------------------------------------------
(* One lemma per action again.                                             *)

(* What the invariants say of one stream. *)
LEMMA StreamFacts ==
    ASSUME IngestInv, RowsInv, NEW s \in Streams
    PROVE  /\ StreamTyped(handler[s], client[s])
           /\ StreamRows(handler[s], client[s], table)
           /\ handler[s] \in HandlerRec /\ client[s] \in ClientRec
           /\ client[s].result = "none" => handler[s] = NoHandler
           /\ handler[s].pc \in {"recv", "put", "insert"} =>
                 client[s].result \in {"running", "failed"}
           /\ OneRowPerTurn(table)
<1>1. /\ StreamTyped(handler[s], client[s])
      /\ StreamRows(handler[s], client[s], table)
      /\ handler[s] \in HandlerRec /\ client[s] \in ClientRec
      /\ client[s].result = "none" => handler[s] = NoHandler
      /\ OneRowPerTurn(table)
  BY DEF IngestInv, StreamInv, StreamTyped, RowsInv
<1>2. /\ client[s].result \in {"none", "running", "ok", "failed"}
      /\ client[s].result = "ok" => handler[s].pc = "end"
      /\ client[s].result = "none" => handler[s].pc = "none"
  BY <1>1 DEF ClientRec, StreamRows, NoHandler
<1>3. QED  BY <1>1, <1>2

(* A stream that fails, or whose client does, keeps the rows it has. *)
LEMMA FailureKeepsRows ==
    ASSUME NEW h, NEW c, StreamTyped(h, c), NEW T, NEW U, T \subseteq U,
           StreamRows(h, c, T), NEW k, NEW b, StreamTyped(k, b),
           k.pc \in {"none", "end"} \/ k.pc = h.pc, k.pos = h.pos,
           k.accepted = h.accepted, k.deduped = h.deduped,
           b.data = c.data, b.result = "failed"
    PROVE  StreamRows(k, b, U)
<1>1. Done(h) \in Nat /\ Done(k) \in Nat
  BY DoneBounds
<1>2. Done(h) <= Done(k)
  BY DEF Done, StreamTyped, HandlerRec
<1>3. /\ Cardinality(Own(c.data, T, Done(h)))
           <= Cardinality(Own(c.data, U, Done(k)))
      /\ Cardinality(Own(c.data, T, Done(h))) \in Nat
      /\ Cardinality(Own(c.data, U, Done(k))) \in Nat
  BY <1>1, <1>2, OwnGrows
<1>4. h.accepted \in Nat
  BY DEF StreamTyped, HandlerRec
<1>5. k.accepted <= Cardinality(Own(b.data, U, Done(k)))
  BY <1>3, <1>4 DEF StreamRows
<1>6. ASSUME k.pc \in {"recv", "put", "insert"}
      PROVE  /\ k.accepted + k.deduped = Done(k)
             /\ Stored(b.data, U, Done(k))
  <2>1. k.pc = h.pc /\ Done(k) = Done(h)
    BY <1>6 DEF Done
  <2>2. QED  BY <1>6, <2>1 DEF StreamRows, Stored
<1>7. QED  BY <1>5, <1>6 DEF StreamRows

(* The handler returns an error, after adding rows of its items or none. *)
LEMMA HandlerFailsRows ==
    ASSUME IngestInv, RowsInv, NEW s \in Streams, HandlerFails(s),
           table \subseteq table', OneRowPerTurn(table'),
           \A r \in table' \ table : \E i \in DOMAIN client[s].data :
               r.turn = client[s].data[i].turn /\ r.key = Key(client[s].data[i])
    PROVE  RowsInv'
<1>1. PICK h : h = [handler[s] EXCEPT !.pc = "end"]
  OBVIOUS
<1>2. PICK c : c = [client[s] EXCEPT !.result = "failed"]
  OBVIOUS
<1>3. /\ StreamTyped(handler[s], client[s])
      /\ StreamRows(handler[s], client[s], table)
      /\ handler[s] \in HandlerRec /\ client[s] \in ClientRec
  BY StreamFacts
<1>4. /\ h \in HandlerRec /\ h.pc = "end" /\ h.pos = handler[s].pos
      /\ h.accepted = handler[s].accepted /\ h.deduped = handler[s].deduped
  BY <1>1, <1>3 DEF HandlerRec, Pcs
<1>5. c \in ClientRec /\ c.data = client[s].data /\ c.result = "failed"
  BY <1>2, <1>3 DEF ClientRec
<1>6. /\ handler' = [handler EXCEPT ![s] = h]
      /\ client' = [client EXCEPT ![s] = c]
  BY <1>1, <1>2 DEF HandlerFails
<1>7. StreamTyped(h, c)
  BY <1>3, <1>4, <1>5 DEF StreamTyped
<1>8. PICK U : U = table'
  OBVIOUS
<1>9. StreamRows(h, c, U)
  BY <1>3, <1>4, <1>5, <1>7, <1>8, FailureKeepsRows
<1>10. QED  BY <1>5, <1>6, <1>8, <1>9, OneStreamRows

(* The unique constraint: InsertRow adds at most one row, and none to a    *)
(* turn that has one.                                                      *)
LEMMA InsertRowUnique ==
    ASSUME OneRowPerTurn(table), NEW item \in Item, InsertRow(item)
    PROVE  /\ OneRowPerTurn(table')
           /\ table \subseteq table'
           /\ \E r \in table' :
                 r.turn = item.turn /\ (item.turn = NoTurn => r.key = Key(item))
           /\ \A r \in table' \ table :
                 r.turn = item.turn /\ r.key = Key(item)
           /\ ~Duplicate(item) =>
                 \E r \in table' : r.turn = item.turn /\ r.key = Key(item)
<1>1. CASE Duplicate(item)
  BY <1>1 DEF InsertRow, Duplicate, OneRowPerTurn
<1>2. CASE ~Duplicate(item)
  <2>1. PICK q : q = NewRow(item)
    OBVIOUS
  <2>2. q.turn = item.turn /\ q.key = Key(item)
    BY <2>1 DEF NewRow
  <2>3. table' = table \cup {q}
    BY <1>2, <2>1 DEF InsertRow
  <2>4. ASSUME NEW r \in table, r.turn = item.turn  PROVE item.turn = NoTurn
    BY <1>2, <2>4 DEF Duplicate
  <2>5. OneRowPerTurn(table')
    BY <2>2, <2>3, <2>4 DEF OneRowPerTurn
  <2>6. QED  BY <2>2, <2>3, <2>5
<1>3. QED  BY <1>1, <1>2

(* A new stream has done nothing yet. *)
LEMMA StartIngestRows ==
    ASSUME IngestInv, RowsInv, NEW s \in Streams, NEW d \in Datasets,
           StartIngest(s, d)
    PROVE  RowsInv'
<1>1. PICK h : h = [NoHandler EXCEPT !.pc = "recv"]
  OBVIOUS
<1>2. PICK c : c = [data |-> d, result |-> "running"]
  OBVIOUS
<1>3. handler[s] = NoHandler /\ client[s] = NoClient /\ OneRowPerTurn(table)
  BY StreamFacts DEF StartIngest, StreamRows
<1>4. /\ handler' = [handler EXCEPT ![s] = h]
      /\ client' = [client EXCEPT ![s] = c] /\ table' = table
  BY <1>1, <1>2, <1>3 DEF StartIngest
<1>5. /\ h.pc = "recv" /\ h.pos = 0 /\ h.accepted = 0 /\ h.deduped = 0
      /\ c.data = d /\ c.result = "running"
  BY <1>1, <1>2 DEF NoHandler
<1>6. Done(h) = 0
  BY <1>5 DEF Done
<1>7. Own(d, table, 0) = {}
  BY DEF Own
<1>8. Cardinality({}) = 0
  BY FS_EmptySet
<1>9. StreamRows(h, c, table)
  BY <1>5, <1>6, <1>7, <1>8 DEF StreamRows, Stored
<1>10. client[s].data = <<>>
  BY <1>3 DEF NoClient
<1>11. QED  BY <1>3, <1>4, <1>9, <1>10, OneStreamRows

(* Receiving an item does not make it done. *)
LEMMA RecvRows ==
    ASSUME IngestInv, RowsInv, NEW s \in Streams, Recv(s)
    PROVE  RowsInv'
<1>1. /\ StreamTyped(handler[s], client[s])
      /\ StreamRows(handler[s], client[s], table)
      /\ handler[s] \in HandlerRec /\ client[s] \in ClientRec
      /\ client[s].result \in {"running", "failed"} /\ OneRowPerTurn(table)
      /\ handler[s].pc = "recv" /\ table' = table
      /\ client' = [client EXCEPT ![s] = client[s]]
  BY StreamFacts DEF Recv, IngestInv
<1>2. PICK n \in Nat : n = handler[s].pos + 1
  BY <1>1 DEF HandlerRec
<1>3. PICK p \in {"insert", "put"} :
         p = IF Key(client[s].data[n]) \in handler[s].put
             THEN "insert" ELSE "put"
  OBVIOUS
<1>4. PICK h : h = [handler[s] EXCEPT !.pos = n, !.pc = p]
  OBVIOUS
<1>5. handler' = [handler EXCEPT ![s] = h]
  BY <1>2, <1>3, <1>4 DEF Recv
<1>6. /\ h.pos = n /\ h.pc = p /\ h.accepted = handler[s].accepted
      /\ h.deduped = handler[s].deduped
  BY <1>1, <1>4 DEF HandlerRec
<1>7. Done(h) = Done(handler[s])
  BY <1>1, <1>2, <1>3, <1>6 DEF Done, HandlerRec
<1>8. StreamRows(h, client[s], table)
  BY <1>1, <1>6, <1>7 DEF StreamRows
<1>9. QED  BY <1>1, <1>5, <1>8, OneStreamRows

(* The ack is sent when the handler is done with every item. *)
LEMMA AckRows ==
    ASSUME IngestInv, RowsInv, NEW s \in Streams, Ack(s)
    PROVE  RowsInv'
<1>1. /\ StreamTyped(handler[s], client[s])
      /\ StreamRows(handler[s], client[s], table)
      /\ handler[s] \in HandlerRec /\ client[s] \in ClientRec
      /\ OneRowPerTurn(table)
      /\ handler[s].pc = "recv" /\ table' = table
      /\ handler[s].pos = Len(client[s].data)
  BY StreamFacts DEF Ack
<1>2. PICK h : h = [handler[s] EXCEPT !.pc = "end"]
  OBVIOUS
<1>3. /\ h.pc = "end" /\ h.pos = handler[s].pos
      /\ h.accepted = handler[s].accepted /\ h.deduped = handler[s].deduped
      /\ handler' = [handler EXCEPT ![s] = h]
  BY <1>1, <1>2 DEF HandlerRec, Ack
<1>4. PICK c : /\ c.data = client[s].data /\ c.result \in {"ok", "failed"}
               /\ client' = [client EXCEPT ![s] = c]
  <2>1. CASE client[s].result = "failed"
    BY <1>1, <2>1 DEF Ack, IngestInv
  <2>2. CASE client' = [client EXCEPT ![s].result = "ok"]
    <3>1. PICK c : c = [client[s] EXCEPT !.result = "ok"]
      OBVIOUS
    <3>2. QED  BY <1>1, <2>2, <3>1 DEF ClientRec
  <2>3. CASE client' = [client EXCEPT ![s].result = "failed"]
    <3>1. PICK c : c = [client[s] EXCEPT !.result = "failed"]
      OBVIOUS
    <3>2. QED  BY <1>1, <2>3, <3>1 DEF ClientRec
  <2>4. QED  BY <2>1, <2>2, <2>3 DEF Ack
<1>5. Done(h) = Done(handler[s])
  BY <1>1, <1>3 DEF Done
<1>6. StreamRows(h, c, table)
  BY <1>1, <1>3, <1>4, <1>5 DEF StreamRows
<1>7. QED  BY <1>1, <1>3, <1>4, <1>6, OneStreamRows

(* Putting a blob counts nothing. *)
LEMMA PutObjectRows ==
    ASSUME IngestInv, RowsInv, NEW s \in Streams, PutObject(s)
    PROVE  RowsInv'
<1>1. /\ StreamTyped(handler[s], client[s])
      /\ StreamRows(handler[s], client[s], table)
      /\ handler[s] \in HandlerRec /\ client[s] \in ClientRec
      /\ client[s].result \in {"running", "failed"} /\ OneRowPerTurn(table)
      /\ handler[s].pc = "put" /\ table' = table
      /\ client' = [client EXCEPT ![s] = client[s]]
  BY StreamFacts DEF PutObject, IngestInv
<1>2. PICK h : h = [handler[s] EXCEPT !.pc = "insert",
                       !.put = handler[s].put \cup {Key(Current(s))}]
  OBVIOUS
<1>3. /\ h.pc = "insert" /\ h.pos = handler[s].pos
      /\ h.accepted = handler[s].accepted /\ h.deduped = handler[s].deduped
      /\ handler' = [handler EXCEPT ![s] = h]
  BY <1>1, <1>2 DEF HandlerRec, PutObject
<1>4. Done(h) = Done(handler[s])
  BY <1>1, <1>3 DEF Done
<1>5. StreamRows(h, client[s], table)
  BY <1>1, <1>3, <1>4 DEF StreamRows
<1>6. QED  BY <1>1, <1>3, <1>5, OneStreamRows

(* The item being inserted is the first one that is not done. *)
LEMMA InsertPosition ==
    ASSUME IngestInv, NEW s \in Streams, handler[s].pc = "insert"
    PROVE  /\ Current(s) \in Item
           /\ handler[s].pos \in DOMAIN client[s].data
           /\ Done(handler[s]) \in Nat
           /\ handler[s].pos = Done(handler[s]) + 1
<1>1. /\ StreamInv(s) /\ StreamTyped(handler[s], client[s])
  BY DEF IngestInv, StreamInv, StreamTyped
<1>2. Current(s) \in Item
  BY <1>1, CurrentItem
<1>3. Done(handler[s]) \in Nat /\ handler[s].pos = Done(handler[s]) + 1
  BY <1>1 DEF StreamTyped, HandlerRec, Done
<1>4. DOMAIN client[s].data = 1..Len(client[s].data)
  BY <1>1, DoneBounds
<1>5. handler[s].pos \in DOMAIN client[s].data
  BY <1>1, <1>3, <1>4 DEF StreamTyped
<1>6. QED  BY <1>2, <1>3, <1>5

(* An insert makes its item done: its row was there, or is there now and   *)
(* its own.                                                                *)
LEMMA InsertRows ==
    ASSUME IngestInv, RowsInv, NEW s \in Streams, Insert(s)
    PROVE  RowsInv'
<1>1. /\ StreamTyped(handler[s], client[s])
      /\ StreamRows(handler[s], client[s], table)
      /\ handler[s] \in HandlerRec /\ client[s] \in ClientRec
      /\ client[s].result \in {"running", "failed"} /\ OneRowPerTurn(table)
      /\ handler[s].pc = "insert" /\ InsertRow(Current(s))
      /\ client' = [client EXCEPT ![s] = client[s]]
  BY StreamFacts DEF Insert, IngestInv
<1>2. PICK n, d :
         /\ n \in Nat /\ n = Done(handler[s]) /\ handler[s].pos = n + 1
         /\ d = client[s].data /\ Current(s) = d[n + 1]
         /\ n + 1 \in DOMAIN d /\ Current(s) \in Item
  BY <1>1, InsertPosition DEF Current
<1> n \in Nat
  BY <1>2
<1>3. PICK T, U : T = table /\ U = table'
  OBVIOUS
<1>4. /\ OneRowPerTurn(U) /\ T \subseteq U
      /\ \E r \in U : /\ r.turn = d[n + 1].turn
                      /\ d[n + 1].turn = NoTurn => r.key = Key(d[n + 1])
      /\ \A r \in U \ T : r.turn = d[n + 1].turn /\ r.key = Key(d[n + 1])
      /\ ~Duplicate(Current(s)) =>
            \E r \in U : r.turn = d[n + 1].turn /\ r.key = Key(d[n + 1])
  BY <1>1, <1>2, <1>3, InsertRowUnique
<1>5. /\ handler[s].accepted + handler[s].deduped = n /\ Stored(d, T, n)
      /\ handler[s].accepted <= Cardinality(Own(d, T, n))
      /\ handler[s].accepted \in Nat /\ handler[s].deduped \in Nat
  BY <1>1, <1>2, <1>3 DEF StreamRows, HandlerRec
<1>6. Stored(d, U, n + 1)
  BY <1>4, <1>5 DEF Stored
<1>7. PICK h : /\ h.pc = "recv" /\ h.pos = n + 1
               /\ h.accepted + h.deduped = n + 1
               /\ h.accepted <= Cardinality(Own(d, U, n + 1))
               /\ handler' = [handler EXCEPT ![s] = h]
  <2>0. n + 1 \in Nat /\ n <= n + 1
    OBVIOUS
  <2>1. /\ Cardinality(Own(d, T, n)) \in Nat
        /\ Cardinality(Own(d, U, n + 1)) \in Nat
        /\ Cardinality(Own(d, T, n)) <= Cardinality(Own(d, U, n + 1))
    BY <1>4, <2>0, OwnGrows
  <2>2. CASE Duplicate(Current(s))
    <3>1. PICK k \in Nat : k = handler[s].deduped + 1
      BY <1>5
    <3>2. PICK h : h = [handler[s] EXCEPT !.pc = "recv", !.deduped = k]
      OBVIOUS
    <3>3. /\ h.pc = "recv" /\ h.pos = handler[s].pos /\ h.deduped = k
          /\ h.accepted = handler[s].accepted
      BY <1>1, <3>2 DEF HandlerRec
    <3>4. handler' = [handler EXCEPT ![s] = h]
      BY <2>2, <3>1, <3>2 DEF Insert
    <3>5. h.accepted + h.deduped = n + 1
      BY <1>5, <3>1, <3>3
    <3>6. h.accepted <= Cardinality(Own(d, U, n + 1))
      BY <1>5, <2>1, <3>3
    <3>7. QED  BY <1>2, <3>3, <3>4, <3>5, <3>6
  <2>3. CASE ~Duplicate(Current(s))
    <3>1. PICK k \in Nat : k = handler[s].accepted + 1
      BY <1>5
    <3>2. PICK h : h = [handler[s] EXCEPT !.pc = "recv", !.accepted = k]
      OBVIOUS
    <3>3. /\ h.pc = "recv" /\ h.pos = handler[s].pos /\ h.accepted = k
          /\ h.deduped = handler[s].deduped
      BY <1>1, <3>2 DEF HandlerRec
    <3>4. handler' = [handler EXCEPT ![s] = h]
      BY <2>3, <3>1, <3>2 DEF Insert
    <3>5. n + 1 \in Own(d, U, n + 1)
      BY <1>4, <2>3 DEF Own
    <3>6. Cardinality(Own(d, T, n)) + 1 <= Cardinality(Own(d, U, n + 1))
      BY <1>4, <3>5, OwnAdds
    <3>7. h.accepted + h.deduped = n + 1
      <4>1. PICK a \in Nat, e \in Nat :
               a = handler[s].accepted /\ e = handler[s].deduped
        BY <1>5
      <4>2. a + e = n /\ h.accepted = a + 1 /\ h.deduped = e
        BY <1>5, <3>1, <3>3, <4>1
      <4>3. QED  BY <4>2
    <3>8. h.accepted <= Cardinality(Own(d, U, n + 1))
      BY <1>5, <2>1, <3>1, <3>3, <3>6
    <3>9. QED  BY <1>2, <3>3, <3>4, <3>7, <3>8
  <2>4. QED  BY <2>2, <2>3
<1>8. Done(h) = n + 1
  BY <1>7 DEF Done
<1>9. StreamRows(h, client[s], U)
  <2>1. client[s].result # "none" /\ client[s].result # "ok"
    BY <1>1
  <2>2. QED  BY <1>2, <1>6, <1>7, <1>8, <2>1 DEF StreamRows
<1>10. \A r \in table' \ table : \E i \in DOMAIN client[s].data :
           r.turn = client[s].data[i].turn /\ r.key = Key(client[s].data[i])
  BY <1>2, <1>3, <1>4
<1>11. QED  BY <1>1, <1>3, <1>4, <1>7, <1>9, <1>10, OneStreamRows

(* A failing insert may still add the row of the item it was at. *)
LEMMA InsertFailsRows ==
    ASSUME IngestInv, RowsInv, NEW s \in Streams, InsertFails(s)
    PROVE  RowsInv'
<1>1. /\ handler[s].pc = "insert" /\ HandlerFails(s) /\ OneRowPerTurn(table)
  BY StreamFacts DEF InsertFails
<1>2. /\ Current(s) \in Item /\ handler[s].pos \in DOMAIN client[s].data
      /\ Current(s) = client[s].data[handler[s].pos]
  BY <1>1, InsertPosition DEF Current
<1>3. CASE UNCHANGED <<table, nextId>>
  BY <1>1, <1>3, HandlerFailsRows
<1>4. CASE InsertRow(Current(s))
  <2>1. /\ OneRowPerTurn(table') /\ table \subseteq table'
        /\ \A r \in table' \ table :
              r.turn = Current(s).turn /\ r.key = Key(Current(s))
    BY <1>1, <1>2, <1>4, InsertRowUnique
  <2>2. QED  BY <1>1, <1>2, <2>1, HandlerFailsRows
<1>5. QED  BY <1>3, <1>4 DEF InsertFails

(* A client that gives up leaves the rows of its upload. *)
LEMMA ClientGivesUpRows ==
    ASSUME IngestInv, RowsInv, NEW s \in Streams, ClientGivesUp(s)
    PROVE  RowsInv'
<1>1. /\ StreamTyped(handler[s], client[s])
      /\ StreamRows(handler[s], client[s], table)
      /\ handler[s] \in HandlerRec /\ client[s] \in ClientRec
      /\ OneRowPerTurn(table) /\ table' = table
      /\ handler' = [handler EXCEPT ![s] = handler[s]]
  BY StreamFacts DEF ClientGivesUp, IngestInv
<1>2. PICK c : /\ c = [client[s] EXCEPT !.result = "failed"]
               /\ client' = [client EXCEPT ![s] = c]
  BY DEF ClientGivesUp
<1>3. c \in ClientRec /\ c.data = client[s].data /\ c.result = "failed"
  BY <1>1, <1>2 DEF ClientRec
<1>4. StreamTyped(handler[s], c)
  BY <1>1, <1>3 DEF StreamTyped
<1>5. StreamRows(handler[s], c, table)
  BY <1>1, <1>3, <1>4, FailureKeepsRows
<1>6. QED  BY <1>1, <1>2, <1>3, <1>5, OneStreamRows

(* A crash ends every handler and fails every client that still runs; no   *)
(* row goes.                                                               *)
LEMMA ServerCrashRows ==
    ASSUME IngestInv, RowsInv, ServerCrash
    PROVE  RowsInv'
<1>1. /\ table' = table
      /\ \A s \in Streams : client'[s] = IF client[s].result = "running"
                                         THEN [client[s] EXCEPT !.result = "failed"]
                                         ELSE client[s]
      /\ \A s \in Streams : handler'[s] = IF handler[s].pc = "none" THEN NoHandler
                                          ELSE [handler[s] EXCEPT !.pc = "end"]
  BY DEF ServerCrash
<1>2. ASSUME NEW s \in Streams
      PROVE  /\ client'[s].data = client[s].data
             /\ StreamRows(handler'[s], client'[s], table)
  <2>1. /\ StreamTyped(handler[s], client[s])
        /\ StreamRows(handler[s], client[s], table)
        /\ handler[s] \in HandlerRec /\ client[s] \in ClientRec
        /\ client[s].result = "none" => handler[s] = NoHandler
    BY StreamFacts
  <2>2. PICK c : c = client'[s]
    OBVIOUS
  <2>3. PICK h : h = handler'[s]
    OBVIOUS
  <2>4. /\ c \in ClientRec /\ c.data = client[s].data
        /\ \/ c.result = "failed"
           \/ c = client[s] /\ client[s].result # "running"
    <3>1. CASE client[s].result = "running"
      BY <1>1, <2>1, <2>2, <3>1 DEF ClientRec
    <3>2. CASE client[s].result # "running"
      BY <1>1, <2>1, <2>2, <3>2
    <3>3. QED  BY <3>1, <3>2
  <2>5. CASE handler[s].pc = "none"
    <3>1. h = NoHandler
      BY <1>1, <2>3, <2>5
    <3>2. /\ h.pc = "none" /\ h.pos = 0 /\ h.accepted = 0 /\ h.deduped = 0
          /\ h \in HandlerRec
      BY <3>1 DEF NoHandler, HandlerRec, Pcs
    <3>3. Done(h) = 0 /\ Own(c.data, table, 0) = {}
      BY <3>2 DEF Done, Own
    <3>4. Cardinality({}) = 0
      BY FS_EmptySet
    <3>5. c.result # "ok"
      BY <2>1, <2>4, <2>5 DEF StreamRows
    <3>6. c.result = "none" => c = NoClient
      BY <2>1, <2>4 DEF StreamRows
    <3>7. StreamRows(h, c, table)
      BY <3>2, <3>3, <3>4, <3>5, <3>6 DEF StreamRows
    <3>8. QED  BY <2>2, <2>3, <2>4, <3>7
  <2>6. CASE handler[s].pc # "none"
    <3>1. h = [handler[s] EXCEPT !.pc = "end"]
      BY <1>1, <2>3, <2>6
    <3>2. /\ h \in HandlerRec /\ h.pc = "end" /\ h.pos = handler[s].pos
          /\ h.accepted = handler[s].accepted
          /\ h.deduped = handler[s].deduped
      BY <2>1, <3>1 DEF HandlerRec, Pcs
    <3>3. CASE c.result = "failed"
      <4>1. StreamTyped(h, c)
        BY <2>1, <2>4, <3>2 DEF StreamTyped
      <4>2. StreamRows(h, c, table)
        BY <2>1, <2>4, <3>2, <3>3, <4>1, FailureKeepsRows
      <4>3. QED  BY <2>2, <2>3, <2>4, <4>2
    <3>4. CASE c = client[s] /\ c.result = "ok"
      <4>1. h = handler[s]
        BY <2>1, <3>1, <3>4 DEF StreamRows, HandlerRec
      <4>2. QED  BY <2>1, <2>2, <2>3, <2>4, <3>4, <4>1
    <3>5. c.result # "none" \/ c.result = "failed"
      BY <2>1, <2>4, <2>6 DEF NoHandler
    <3>6. QED  BY <2>4, <3>3, <3>4, <3>5 DEF ClientRec
  <2>7. QED  BY <2>5, <2>6
<1>3. ASSUME NEW r \in table  PROVE FromUpload(r, client')
  BY <1>2 DEF RowsInv, FromUpload
<1>4. QED  BY <1>1, <1>2, <1>3 DEF RowsInv

(* Uploads account for what they store, in every behaviour: one row to a   *)
(* turn, every row an item of some upload, and the counters of a handler   *)
(* true to the rows of its dataset, whatever other uploads do.             *)
THEOREM RowsInvariance == ISpec => [](IngestInv /\ RowsInv)
<1>1. IInit => RowsInv
  <2> SUFFICES ASSUME IInit  PROVE RowsInv
    OBVIOUS
  <2>1. /\ NoHandler.pc = "none" /\ NoHandler.pos = 0
        /\ NoHandler.accepted = 0 /\ NoClient.result = "none"
    BY DEF NoHandler, NoClient
  <2>2. Done(NoHandler) = 0 /\ Own(NoClient.data, {}, 0) = {}
    BY <2>1 DEF Done, Own
  <2>3. Cardinality({}) = 0
    BY FS_EmptySet
  <2>4. StreamRows(NoHandler, NoClient, {})
    BY <2>1, <2>2, <2>3 DEF StreamRows
  <2>5. QED  BY <2>4 DEF IInit, RowsInv, OneRowPerTurn
<1>2. IngestInv /\ RowsInv /\ [INext]_ivars => RowsInv'
  <2> SUFFICES ASSUME IngestInv, RowsInv, [INext]_ivars  PROVE RowsInv'
    OBVIOUS
  <2>1. CASE UNCHANGED ivars
    BY <2>1 DEF RowsInv, ivars
  <2>2. ASSUME NEW s \in Streams, RecvFails(s)  PROVE RowsInv'
    <3>1. HandlerFails(s) /\ table' = table /\ OneRowPerTurn(table)
      BY <2>2 DEF RecvFails, RowsInv
    <3>2. QED  BY <3>1, HandlerFailsRows
  <2>3. ASSUME NEW s \in Streams, PutFails(s)  PROVE RowsInv'
    <3>1. HandlerFails(s) /\ table' = table /\ OneRowPerTurn(table)
      BY <2>3 DEF PutFails, RowsInv
    <3>2. QED  BY <3>1, HandlerFailsRows
  <2>4. ASSUME NEW s \in Streams,
               \/ \E d \in Datasets : StartIngest(s, d)
               \/ Recv(s) \/ Ack(s) \/ RecvFails(s)
               \/ PutObject(s) \/ PutFails(s)
               \/ Insert(s) \/ InsertFails(s)
               \/ ClientGivesUp(s)
        PROVE  RowsInv'
    BY <2>2, <2>3, <2>4, StartIngestRows, RecvRows, AckRows, PutObjectRows,
       InsertRows, InsertFailsRows, ClientGivesUpRows
  <2>5. QED  BY <2>1, <2>4, ServerCrashRows DEF INext
<1>3. QED  BY <1>1, <1>2, IngestInvariance, PTL DEF ISpec

(* An acknowledged upload is complete: for any number of uploads at once,  *)
(* failing and repeated, when UploadMemories has acknowledged a dataset    *)
(* each of its memories has its row, exactly one if it has a turn, and     *)
(* accepted + deduped counts each once.                                    *)
THEOREM AckMeansComplete == ISpec => []AckComplete
<1>1. IngestInv /\ RowsInv => AckComplete
  <2> SUFFICES ASSUME IngestInv, RowsInv, NEW s \in Streams,
                      client[s].result = "ok"
               PROVE  /\ handler[s].accepted + handler[s].deduped
                            = Len(client[s].data)
                      /\ \A i \in DOMAIN client[s].data :
                            LET rows == {r \in table :
                                           r.turn = client[s].data[i].turn}
                            IN  /\ rows # {}
                                /\ client[s].data[i].turn # NoTurn =>
                                      Cardinality(rows) = 1
    BY DEF AckComplete
  <2>1. /\ StreamTyped(handler[s], client[s])
        /\ StreamRows(handler[s], client[s], table)
        /\ OneRowPerTurn(table)
    BY StreamFacts
  <2>2. /\ handler[s].pc = "end"
        /\ Done(handler[s]) = Len(client[s].data)
        /\ handler[s].accepted + handler[s].deduped = Done(handler[s])
        /\ Stored(client[s].data, table, Done(handler[s]))
    BY <2>1 DEF StreamRows, Done
  <2>3. DOMAIN client[s].data = 1..Len(client[s].data)
    BY <2>1, DoneBounds
  <2>4. ASSUME NEW i \in DOMAIN client[s].data
        PROVE  LET rows == {r \in table : r.turn = client[s].data[i].turn}
               IN  /\ rows # {}
                   /\ client[s].data[i].turn # NoTurn => Cardinality(rows) = 1
    <3> DEFINE rows == {r \in table : r.turn = client[s].data[i].turn}
    <3>1. PICK r \in table : r.turn = client[s].data[i].turn
      BY <2>2, <2>3 DEF Stored
    <3>2. ASSUME client[s].data[i].turn # NoTurn
          PROVE  Cardinality(rows) = 1
      <4>1. rows = {r}
        BY <2>1, <3>1, <3>2 DEF OneRowPerTurn
      <4>2. QED  BY <4>1, FS_Singleton
    <3>3. QED  BY <3>1, <3>2
  <2>5. QED  BY <2>2, <2>4
<1>2. QED  BY <1>1, RowsInvariance, PTL

(* What a handler counted as accepted keeps its own text: no other upload, *)
(* of an edited dataset either, takes a row from it, and no failure.       *)
THEOREM AcceptedTextsKept == ISpec => []AcceptedKeepTheirText
<1>1. IngestInv /\ RowsInv => AcceptedKeepTheirText
  <2> SUFFICES ASSUME IngestInv, RowsInv, NEW s \in Streams
               PROVE  handler[s].accepted <=
                        Cardinality({i \in DOMAIN client[s].data :
                          \E r \in table : /\ r.turn = client[s].data[i].turn
                                           /\ r.key = Key(client[s].data[i])})
    BY DEF AcceptedKeepTheirText
  <2>1. /\ StreamTyped(handler[s], client[s])
        /\ StreamRows(handler[s], client[s], table)
        /\ handler[s] \in HandlerRec
    BY StreamFacts
  <2>2. PICK d, n, k : /\ d = client[s].data /\ n = Done(handler[s])
                       /\ k = Len(client[s].data)
    OBVIOUS
  <2>3. n \in Nat /\ k \in Nat /\ n <= k /\ DOMAIN d = 1..k
    BY <2>1, <2>2, DoneBounds
  <2>4. /\ Cardinality(Own(d, table, n)) <= Cardinality(Own(d, table, k))
        /\ Cardinality(Own(d, table, n)) \in Nat
        /\ Cardinality(Own(d, table, k)) \in Nat
    BY <2>3, OwnGrows
  <2>5. /\ handler[s].accepted <= Cardinality(Own(d, table, n))
        /\ handler[s].accepted \in Nat
    BY <2>1, <2>2 DEF StreamRows, HandlerRec
  <2>6. Own(d, table, k) =
           {i \in DOMAIN client[s].data :
              \E r \in table : /\ r.turn = client[s].data[i].turn
                               /\ r.key = Key(client[s].data[i])}
    BY <2>2, <2>3 DEF Own
  <2>7. QED  BY <2>4, <2>5, <2>6
<1>2. QED  BY <1>1, RowsInvariance, PTL

(* What eval cannot find after an ack was lost to an edit: for any uploads *)
(* at once, failing and repeated, a memory of an acknowledged dataset that *)
(* fetchCorpus finds no row for has a turn, and the row of that turn holds *)
(* another text that some upload has for it.                               *)
THEOREM EvalMissesEdits == ISpec => []EvalMissesOnlyEdits
<1>1. IngestInv /\ RowsInv => EvalMissesOnlyEdits
  <2> SUFFICES ASSUME IngestInv, RowsInv, NEW s \in Streams,
                      client[s].result = "ok", NEW i \in DOMAIN client[s].data,
                      ~EvalFinds(client[s].data, i)
               PROVE  LET item == client[s].data[i]
                      IN  /\ item.turn # NoTurn
                          /\ \E r \in table : r.turn = item.turn
                          /\ \A r \in table : r.turn = item.turn =>
                                \E other \in Uploaded :
                                   /\ other.turn = item.turn
                                   /\ other.text # item.text
                                   /\ r.key = Key(other)
    BY DEF EvalMissesOnlyEdits
  <2>0. PICK d : d = client[s].data
    OBVIOUS
  <2>1. /\ StreamTyped(handler[s], client[s])
        /\ StreamRows(handler[s], client[s], table)
    BY StreamFacts
  <2>2. /\ d \in Seq(Item) /\ Len(d) \in Nat /\ DOMAIN d = 1..Len(d)
        /\ Stored(d, table, Len(d))
    BY <2>0, <2>1, DoneBounds DEF StreamRows, Done
  <2>3. ASSUME NEW r \in table, r.key = Key(d[i])  PROVE FALSE
    <3>1. PICK J : J = {j \in DOMAIN d : Key(d[j]) = Key(d[i])}
      OBVIOUS
    <3>2. J \in SUBSET Int /\ J # {} /\ IsFiniteSet(J)
      <4>1. IsFiniteSet(1..Len(d))
        <5>1. \A n \in Nat : n \in Int /\ 1 \in Int
          OBVIOUS
        <5>2. Len(d) \in Int /\ 1 \in Int
          BY <2>2, <5>1, Zenon
        <5>3. QED  BY <5>2, FS_Interval, Zenon
      <4>2. QED  BY <2>0, <2>2, <3>1, <4>1, FS_Subset
    <3>3. PICK j \in J : \A k \in J : k <= j
      BY <3>2, GreatestInt
    <3>4. <<r, j>> \in fetchCorpus(d)
      BY <2>3, <3>1, <3>3 DEF fetchCorpus
    <3>5. Key(d[j]) = Key(d[i])
      BY <3>1
    <3>6. QED  BY <2>0, <3>4, <3>5 DEF EvalFinds
  <2>4. PICK q \in table :
           q.turn = d[i].turn /\ (d[i].turn = NoTurn => q.key = Key(d[i]))
    BY <2>0, <2>2 DEF Stored
  <2>5. d[i].turn # NoTurn
    BY <2>3, <2>4
  <2>6. ASSUME NEW r \in table, r.turn = d[i].turn
        PROVE  \E other \in Uploaded :
                  /\ other.turn = d[i].turn /\ other.text # d[i].text
                  /\ r.key = Key(other)
    <3>1. PICK t \in Streams : \E j \in DOMAIN client[t].data :
             r.turn = client[t].data[j].turn /\ r.key = Key(client[t].data[j])
      BY DEF RowsInv, FromUpload
    <3>2. PICK j \in DOMAIN client[t].data :
             r.turn = client[t].data[j].turn /\ r.key = Key(client[t].data[j])
      BY <3>1
    <3>3. client[t].data[j] \in Item /\ d[i] \in Item
      <4>1. client[t].data \in Seq(Item)
        BY StreamFacts, DoneBounds
      <4>2. QED  BY <2>0, <2>2, <3>2, <4>1
    <3>4. client[t].data[j].text # d[i].text
      <4> SUFFICES ASSUME client[t].data[j].text = d[i].text  PROVE FALSE
        OBVIOUS
      <4>1. \A x, y \in Item : x.turn = y.turn /\ x.text = y.text => x = y
        BY DEF Item
      <4>2. client[t].data[j] = d[i]
        BY <2>6, <3>2, <3>3, <4>1
      <4>3. QED  BY <2>3, <3>2, <4>2
    <3>5. client[t].data[j] \in Uploaded
      BY <3>2 DEF Uploaded
    <3>6. QED  BY <2>6, <3>2, <3>4, <3>5
  <2>7. QED  BY <2>0, <2>4, <2>5, <2>6
<1>2. QED  BY <1>1, RowsInvariance, PTL

(* Ingest and eval agree without an id in common: when all that was ever   *)
(* uploaded is one dataset of distinct turns, fetchCorpus finds exactly    *)
(* one row, its own, for each of its memories, for every dataset, although *)
(* several may say the same words.                                         *)
THEOREM EvalFindsAll == ISpec => []EvalFindsEveryItem
<1>1. IngestInv /\ RowsInv => EvalFindsEveryItem
  <2> SUFFICES ASSUME IngestInv, RowsInv, NEW s \in Streams, NEW d,
                      d = client[s].data,
                      client[s].result = "ok",
                      \A t \in Streams : client[t].data \in {<<>>, d},
                      \A i, j \in DOMAIN d :
                         d[i].turn # NoTurn /\ (d[i].turn = d[j].turn => i = j),
                      NEW i \in DOMAIN d
               PROVE  \E r \in table :
                         /\ r.turn = d[i].turn
                         /\ {p \in fetchCorpus(d) : p[1] = r \/ p[2] = i}
                              = {<<r, i>>}
    BY DEF EvalFindsEveryItem
  <2>1. /\ StreamTyped(handler[s], client[s])
        /\ StreamRows(handler[s], client[s], table)
        /\ OneRowPerTurn(table)
    BY StreamFacts
  <2>2. \A q \in table : \E j \in DOMAIN d :
           q.turn = d[j].turn /\ q.key = d[j]
    <3> SUFFICES ASSUME NEW q \in table
                 PROVE  \E j \in DOMAIN d : q.turn = d[j].turn /\ q.key = d[j]
      OBVIOUS
    <3>1. PICK t \in Streams : \E j \in DOMAIN client[t].data :
             /\ q.turn = client[t].data[j].turn
             /\ q.key = Key(client[t].data[j])
      BY DEF RowsInv, FromUpload
    <3>2. client[t].data = d
      BY <3>1
    <3>3. QED  BY <3>1, <3>2 DEF Key
  <2>3. PICK r \in table : r.turn = d[i].turn
    <3>1. Stored(d, table, Len(d)) /\ DOMAIN d = 1..Len(d)
      BY <2>1, DoneBounds DEF StreamRows, Done
    <3>2. QED  BY <3>1 DEF Stored
  <2>4. r.key = d[i]
    BY <2>2, <2>3
  <2>5. ASSUME NEW j \in DOMAIN d, d[j] = d[i]  PROVE j = i
    BY <2>5
  <2>6. i \in Nat /\ DOMAIN d \subseteq Nat
    BY <2>1, DoneBounds
  <2>7. <<r, i>> \in fetchCorpus(d)
    <3>1. \A j \in DOMAIN d : Key(d[j]) = Key(d[i]) => j <= i
      BY <2>5, <2>6 DEF Key
    <3>2. QED  BY <2>3, <2>4, <3>1 DEF fetchCorpus, Key
  <2>8. ASSUME NEW p \in fetchCorpus(d), p[1] = r \/ p[2] = i
        PROVE  p = <<r, i>>
    <3>1. PICK q \in table, j \in DOMAIN d : p = <<q, j>> /\ q.key = d[j]
      BY DEF fetchCorpus, Key
    <3>2. CASE q = r
      BY <2>4, <2>5, <3>1, <3>2
    <3>3. CASE j = i
      <4>1. PICK k \in DOMAIN d : q.turn = d[k].turn /\ q.key = d[k]
        BY <2>2
      <4>2. q.turn = d[i].turn /\ d[i].turn # NoTurn
        BY <2>5, <3>1, <3>3, <4>1
      <4>3. q = r
        BY <2>1, <2>3, <4>2 DEF OneRowPerTurn
      <4>4. QED  BY <3>1, <3>3, <4>3
    <3>4. QED  BY <2>8, <3>1, <3>2, <3>3
  <2>9. {p \in fetchCorpus(d) : p[1] = r \/ p[2] = i} = {<<r, i>>}
    BY <2>7, <2>8
  <2>10. QED  BY <2>3, <2>9
<1>2. QED  BY <1>1, RowsInvariance, PTL

-----------------------------------------------------------------------------
(* What the enrichment ledger sees of ingest.                              *)

(* The identity sequence has an id of Ids for every row: it is not used    *)
(* up.  (A bigint has 2^63 - 1 of them.)                                   *)
SequenceLasts == \A r \in table : r.id \in Ids

(* A step of ingest adds at most one row, under the next id. *)
LEMMA StepAddsOneId ==
    ASSUME IngestInv, [INext]_ivars
    PROVE  \/ table' = table
           \/ \E q : /\ table' = table \cup {q} /\ q.id = nextId
<1>1. ASSUME NEW item, InsertRow(item)
      PROVE  \/ table' = table
             \/ \E q : table' = table \cup {q} /\ q.id = nextId
  <2>1. NewRow(item).id = nextId
    BY DEF NewRow
  <2>2. QED  BY <1>1, <2>1 DEF InsertRow
<1>2. CASE UNCHANGED ivars
  BY <1>2 DEF ivars
<1>3. ASSUME NEW s \in Streams,
             \/ \E d \in Datasets : StartIngest(s, d)
             \/ Recv(s) \/ Ack(s) \/ RecvFails(s)
             \/ PutObject(s) \/ PutFails(s) \/ ClientGivesUp(s)
      PROVE  table' = table
  BY <1>3 DEF StartIngest, Recv, Ack, RecvFails, PutObject, PutFails,
              ClientGivesUp
<1>4. ASSUME NEW s \in Streams, Insert(s) \/ InsertFails(s)
      PROVE  table' = table \/ InsertRow(Current(s))
  BY <1>4 DEF Insert, InsertFails
<1>5. CASE ServerCrash
  BY <1>5 DEF ServerCrash
<1>6. QED  BY <1>1, <1>2, <1>3, <1>4, <1>5 DEF INext

(* Uploads implement the ledger's view of table memories: as long as the   *)
(* identity sequence lasts, every step of any upload either leaves the set *)
(* of memory ids alone or is one InsertMemory of an id never used before,  *)
(* so that no id with ledger rows vanishes or comes to mean another        *)
(* memory.                                                                 *)
THEOREM IngestRefinesLedger ==
    ISpec /\ []SequenceLasts => IngestImplementsLedger
<1>1. IInit => LedgerOf!LInit
  BY DEF IInit, LedgerOf!LInit
<1>2. IngestInv /\ SequenceLasts' /\ [INext]_ivars
         => [LedgerOf!LNext]_(LedgerOf!lvars)
  <2> SUFFICES ASSUME IngestInv, SequenceLasts', [INext]_ivars
               PROVE  [LedgerOf!LNext]_(LedgerOf!lvars)
    OBVIOUS
  <2>1. CASE table' = table
    BY <2>1 DEF LedgerOf!lvars
  <2>2. ASSUME NEW q, table' = table \cup {q}, q.id = nextId
        PROVE  LedgerOf!LNext
    <3>1. \A r \in table : r.id # nextId
      BY DEF IngestInv, StoreInv, RowRec
    <3>2. PICK m \in Ids : m = nextId
      BY <2>2 DEF SequenceLasts
    <3>3. LedgerOf!InsertMemory(m)
      BY <2>2, <3>1, <3>2 DEF LedgerOf!InsertMemory
    <3>4. QED  BY <3>2, <3>3 DEF LedgerOf!LNext
  <2>3. QED  BY <2>1, <2>2, StepAddsOneId
<1>3. QED
  BY <1>1, <1>2, IngestInvariance, PTL
     DEF ISpec, IngestImplementsLedger, LedgerOf!LSpec

-----------------------------------------------------------------------------
(* What is claimed, and the rows there are.                                *)

(* The accepted memories of all streams, by stream and number. *)
Claims(h) == UNION {{s} \X (1..h[s].accepted) : s \in Streams}

CountInv(h, T, b) ==
    /\ IsFiniteSet(T) /\ IsFiniteSet(Claims(h))
    /\ Cardinality(Claims(h)) <= Cardinality(T)
    /\ Cardinality(T) <= Cardinality(Claims(h)) + b

(* Streams that count the same claim the same. *)
LEMMA SameClaims ==
    ASSUME NEW h, NEW k, \A s \in Streams : k[s].accepted = h[s].accepted
    PROVE  Claims(k) = Claims(h)
  BY DEF Claims

(* Counting one more memory is one more claim. *)
LEMMA OneMoreClaim ==
    ASSUME NEW s \in Streams, NEW n \in Nat, NEW h, NEW k, h[s].accepted = n,
           k[s].accepted = n + 1,
           \A t \in Streams : t # s => k[t].accepted = h[t].accepted
    PROVE  Claims(k) = Claims(h) \cup {<<s, n + 1>>} /\ <<s, n + 1>> \notin Claims(h)
<1>1. ASSUME NEW p \in Claims(k)  PROVE p \in Claims(h) \/ p = <<s, n + 1>>
  <2>1. PICK t \in Streams : p \in {t} \X (1..k[t].accepted)
    BY DEF Claims
  <2>2. CASE t = s
    <3>1. PICK i \in 1..(n + 1) : p = <<s, i>>
      BY <2>1, <2>2
    <3>2. CASE i = n + 1
      BY <3>1, <3>2
    <3>3. CASE i # n + 1
      <4>1. p \in {s} \X (1..h[s].accepted)
        BY <3>1, <3>3
      <4>2. QED  BY <4>1 DEF Claims
    <3>4. QED  BY <3>2, <3>3
  <2>3. CASE t # s
    <3>1. p \in {t} \X (1..h[t].accepted)
      BY <2>1, <2>3
    <3>2. QED  BY <3>1 DEF Claims
  <2>4. QED  BY <2>2, <2>3
<1>2. ASSUME NEW p \in Claims(h)  PROVE p \in Claims(k)
  <2>1. PICK t \in Streams : p \in {t} \X (1..h[t].accepted)
    BY DEF Claims
  <2>2. p \in {t} \X (1..k[t].accepted)
    <3>1. CASE t = s
      <4>1. PICK i \in 1..n : p = <<s, i>>
        BY <2>1, <3>1
      <4>2. i \in 1..(n + 1)
        OBVIOUS
      <4>3. QED  BY <3>1, <4>1, <4>2
    <3>2. CASE t # s
      BY <2>1, <3>2
    <3>3. QED  BY <3>1, <3>2
  <2>3. QED  BY <2>2 DEF Claims
<1>3. <<s, n + 1>> \in Claims(k)
  <2>1. n + 1 \in 1..(n + 1)
    OBVIOUS
  <2>2. <<s, n + 1>> \in {s} \X (1..k[s].accepted)
    BY <2>1
  <2>3. QED  BY <2>2 DEF Claims
<1>4. <<s, n + 1>> \notin Claims(h)
  <2> SUFFICES ASSUME <<s, n + 1>> \in Claims(h)  PROVE FALSE
    OBVIOUS
  <2>1. PICK t \in Streams : <<s, n + 1>> \in {t} \X (1..h[t].accepted)
    BY DEF Claims
  <2>2. n + 1 \in 1..n
    BY <2>1
  <2>3. QED  BY <2>2
<1>5. QED  BY <1>1, <1>2, <1>3, <1>4

(* A step that counts nothing and inserts nothing. *)
LEMMA NothingCounted ==
    ASSUME NEW h, NEW k, NEW T, NEW b \in Nat, NEW c \in Nat, b <= c,
           CountInv(h, T, b), \A s \in Streams : k[s].accepted = h[s].accepted
    PROVE  CountInv(k, T, c)
<1>1. Claims(k) = Claims(h)
  BY SameClaims
<1>2. Cardinality(Claims(h)) \in Nat /\ Cardinality(T) \in Nat
  BY FS_CardinalityType DEF CountInv
<1>3. QED  BY <1>1, <1>2 DEF CountInv

(* An insert that is counted. *)
LEMMA InsertCounted ==
    ASSUME NEW s \in Streams, NEW n \in Nat, NEW h, NEW k, h[s].accepted = n,
           k[s].accepted = n + 1,
           \A t \in Streams : t # s => k[t].accepted = h[t].accepted,
           NEW T, NEW r, r \notin T, NEW b \in Nat, CountInv(h, T, b)
    PROVE  CountInv(k, T \cup {r}, b)
<1>1. Claims(k) = Claims(h) \cup {<<s, n + 1>>} /\ <<s, n + 1>> \notin Claims(h)
  BY OneMoreClaim
<1>2. PICK x : x = <<s, n + 1>>
  OBVIOUS
<1>3. PICK A : A = Claims(h)
  OBVIOUS
<1>4. /\ Cardinality(A) \in Nat /\ Cardinality(T) \in Nat
      /\ IsFiniteSet(A) /\ IsFiniteSet(T)
  BY <1>3, FS_CardinalityType DEF CountInv
<1>5. Cardinality(A \cup {x}) = Cardinality(A) + 1 /\ IsFiniteSet(A \cup {x})
  BY <1>1, <1>2, <1>3, <1>4, FS_AddElement
<1>6. Cardinality(T \cup {r}) = Cardinality(T) + 1 /\ IsFiniteSet(T \cup {r})
  BY <1>4, FS_AddElement
<1>7. Claims(k) = A \cup {x}
  BY <1>1, <1>2, <1>3
<1>8. Cardinality(A) <= Cardinality(T) /\ Cardinality(T) <= Cardinality(A) + b
  BY <1>3 DEF CountInv
<1>9. QED  BY <1>4, <1>5, <1>6, <1>7, <1>8 DEF CountInv

(* An insert that committed and reported an error. *)
LEMMA InsertLost ==
    ASSUME NEW h, NEW k, \A s \in Streams : k[s].accepted = h[s].accepted,
           NEW T, NEW r, r \notin T, NEW b \in Nat, CountInv(h, T, b)
    PROVE  CountInv(k, T \cup {r}, b + 1)
<1>1. Claims(k) = Claims(h)
  BY SameClaims
<1>2. /\ Cardinality(Claims(h)) \in Nat /\ Cardinality(T) \in Nat
      /\ IsFiniteSet(Claims(h)) /\ IsFiniteSet(T)
  BY FS_CardinalityType DEF CountInv
<1>3. Cardinality(T \cup {r}) = Cardinality(T) + 1 /\ IsFiniteSet(T \cup {r})
  BY <1>2, FS_AddElement
<1>4. /\ Cardinality(Claims(h)) <= Cardinality(T)
      /\ Cardinality(T) <= Cardinality(Claims(h)) + b
  BY DEF CountInv
<1>5. QED  BY <1>1, <1>2, <1>3, <1>4 DEF CountInv

(* The row an insert adds is new: its id is. *)
LEMMA FreshRow ==
    ASSUME StoreInv, NEW item
    PROVE  NewRow(item) \notin table
<1>1. NewRow(item).id = nextId /\ nextId \in Nat \ {0}
  BY DEF NewRow, StoreInv
<1>2. \A r \in table : r.id \in 1..(nextId - 1)
  BY DEF StoreInv, RowRec
<1>3. QED  BY <1>1, <1>2

(* Handlers that end without having counted. *)
LEMMA EndCountsNothing ==
    ASSUME IngestInv, NEW s \in Streams,
           \/ HandlerFails(s)
           \/ handler' = [handler EXCEPT ![s].pc = "recv"]
           \/ handler' = [handler EXCEPT ![s].pc = "end"]
    PROVE  \A t \in Streams : handler'[t].accepted = handler[t].accepted
<1>1. handler \in [Streams -> HandlerRec]
  BY DEF IngestInv
<1>2. PICK pc : handler' = [handler EXCEPT ![s].pc = pc]
  BY DEF HandlerFails
<1>3. QED  BY <1>1, <1>2 DEF HandlerRec

(* A stream that was never opened has counted nothing. *)
UnopenedInv(h) == \A s \in Streams : h[s].pc = "none" => h[s].accepted = 0

(* One stream moves on, the others stay. *)
LEMMA OpenedStays ==
    ASSUME IngestInv, UnopenedInv(handler), NEW s \in Streams, handler'[s].pc # "none",
           \A t \in Streams : t # s => handler'[t] = handler[t]
    PROVE  UnopenedInv(handler')
  BY DEF UnopenedInv

LEMMA UnopenedStep ==
    ASSUME IngestInv, UnopenedInv(handler), [INext]_ivars
    PROVE  UnopenedInv(handler')
<1>1. handler \in [Streams -> HandlerRec]
  BY DEF IngestInv
<1>2. ASSUME NEW s \in Streams, NEW h, handler' = [handler EXCEPT ![s] = h], h.pc # "none"
      PROVE  UnopenedInv(handler')
  BY <1>1, <1>2, OpenedStays
<1>3. ASSUME NEW s \in Streams, NEW pc, pc # "none",
             \/ handler' = [handler EXCEPT ![s].pc = pc]
             \/ \E x : handler' = [handler EXCEPT ![s].pos = x, ![s].pc = pc]
             \/ \E x : handler' = [handler EXCEPT ![s].pc = pc, ![s].put = x]
             \/ \E x : handler' = [handler EXCEPT ![s].pc = pc, ![s].deduped = x]
             \/ \E x : handler' = [handler EXCEPT ![s].pc = pc, ![s].accepted = x]
      PROVE  UnopenedInv(handler')
  <2>1. handler'[s].pc = pc /\ \A t \in Streams : t # s => handler'[t] = handler[t]
    BY <1>1, <1>3 DEF HandlerRec
  <2>2. QED  BY <1>3, <2>1, OpenedStays
<1>4. ASSUME NEW s \in Streams, NEW d \in Datasets, StartIngest(s, d)
      PROVE  UnopenedInv(handler')
  BY <1>3, <1>4 DEF StartIngest
<1>5. ASSUME NEW s \in Streams, Recv(s)  PROVE UnopenedInv(handler')
  <2>1. PICK x : handler' = [handler EXCEPT ![s].pos = x, ![s].pc = "insert"]
                 \/ handler' = [handler EXCEPT ![s].pos = x, ![s].pc = "put"]
    BY <1>5 DEF Recv
  <2>2. QED  BY <1>3, <2>1
<1>6. ASSUME NEW s \in Streams, Ack(s) \/ HandlerFails(s)
      PROVE  UnopenedInv(handler')
  BY <1>3, <1>6 DEF Ack, HandlerFails
<1>7. ASSUME NEW s \in Streams, PutObject(s)  PROVE UnopenedInv(handler')
  <2>1. PICK x : handler' = [handler EXCEPT ![s].pc = "insert", ![s].put = x]
    BY <1>7 DEF PutObject
  <2>2. QED  BY <1>3, <2>1
<1>8. ASSUME NEW s \in Streams, Insert(s)  PROVE UnopenedInv(handler')
  <2>1. PICK x : \/ handler' = [handler EXCEPT ![s].pc = "recv", ![s].deduped = x]
                 \/ handler' = [handler EXCEPT ![s].pc = "recv", ![s].accepted = x]
    <3>1. CASE Duplicate(Current(s))
      BY <1>8, <3>1 DEF Insert
    <3>2. CASE ~Duplicate(Current(s))
      BY <1>8, <3>2 DEF Insert
    <3>3. QED  BY <3>1, <3>2
  <2>2. QED  BY <1>3, <2>1
<1>9. CASE ServerCrash
  <2>1. ASSUME NEW t \in Streams, handler'[t].pc = "none"
        PROVE  handler'[t].accepted = 0
    <3>1. handler'[t] = IF handler[t].pc = "none" THEN NoHandler
                        ELSE [handler[t] EXCEPT !.pc = "end"]
      BY <1>9 DEF ServerCrash
    <3>2. CASE handler[t].pc = "none"
      BY <3>1, <3>2 DEF NoHandler
    <3>3. CASE handler[t].pc # "none"
      <4>1. handler[t] \in HandlerRec
        BY <1>1
      <4>2. handler'[t].pc = "end"
        BY <3>1, <3>3, <4>1 DEF HandlerRec
      <4>3. QED  BY <2>1, <4>2
    <3>4. QED  BY <3>2, <3>3
  <2>2. QED  BY <2>1 DEF UnopenedInv
<1>10. CASE UNCHANGED handler
  BY <1>10 DEF UnopenedInv
<1>11. QED  BY <1>4, <1>5, <1>6, <1>7, <1>8, <1>9, <1>10
       DEF INext, ivars, RecvFails, PutFails, InsertFails, ClientGivesUp

(* Every step keeps the account. *)
LEMMA CountStep ==
    ASSUME IngestInv, IngestInv', UnopenedInv(handler), CountInv(handler, table, breaks), [INext]_ivars
    PROVE  CountInv(handler', table', breaks')
<1>1. /\ handler \in [Streams -> HandlerRec] /\ StoreInv
      /\ breaks \in Nat /\ breaks' \in Nat
  BY IngestAssumption DEF IngestInv, StoreInv
<1>2. ASSUME UNCHANGED table, breaks <= breaks',
             \A t \in Streams : handler'[t].accepted = handler[t].accepted
      PROVE  CountInv(handler', table', breaks')
  BY <1>1, <1>2, NothingCounted
<1>3. ASSUME Break \/ UNCHANGED breaks  PROVE breaks <= breaks'
  BY <1>1, <1>3 DEF Break
<1>4. ASSUME NEW s \in Streams, NEW d \in Datasets, StartIngest(s, d)
      PROVE  CountInv(handler', table', breaks')
  BY <1>2, <1>3, <1>4, EndCountsNothing DEF StartIngest
<1>5. ASSUME NEW s \in Streams, Recv(s)
      PROVE  CountInv(handler', table', breaks')
  <2>1. PICK pos, pc : handler' = [handler EXCEPT ![s].pos = pos, ![s].pc = pc]
    BY <1>5 DEF Recv
  <2>2. \A t \in Streams : handler'[t].accepted = handler[t].accepted
    BY <1>1, <2>1 DEF HandlerRec
  <2>3. QED  BY <1>2, <1>3, <1>5, <2>2 DEF Recv
<1>6. ASSUME NEW s \in Streams, Ack(s)
      PROVE  CountInv(handler', table', breaks')
  BY <1>2, <1>3, <1>6, EndCountsNothing DEF Ack
<1>7. ASSUME NEW s \in Streams, RecvFails(s)
      PROVE  CountInv(handler', table', breaks')
  BY <1>2, <1>3, <1>7, EndCountsNothing DEF RecvFails
<1>8. ASSUME NEW s \in Streams, PutObject(s)
      PROVE  CountInv(handler', table', breaks')
  <2>1. PICK put : handler' = [handler EXCEPT ![s].pc = "insert", ![s].put = put]
    BY <1>8 DEF PutObject
  <2>2. \A t \in Streams : handler'[t].accepted = handler[t].accepted
    BY <1>1, <2>1 DEF HandlerRec
  <2>3. QED  BY <1>2, <1>3, <1>8, <2>2 DEF PutObject
<1>9. ASSUME NEW s \in Streams, PutFails(s)
      PROVE  CountInv(handler', table', breaks')
  BY <1>2, <1>3, <1>9, EndCountsNothing DEF PutFails
<1>10. ASSUME NEW s \in Streams, Insert(s)
       PROVE  CountInv(handler', table', breaks')
  <2>1. PICK n \in Nat : handler[s].accepted = n
    BY <1>1 DEF HandlerRec
  <2>2. CASE Duplicate(Current(s))
    <3>1. handler' = [handler EXCEPT ![s].pc = "recv", ![s].deduped = @ + 1]
      BY <1>10, <2>2 DEF Insert
    <3>2. \A t \in Streams : handler'[t].accepted = handler[t].accepted
      BY <1>1, <3>1 DEF HandlerRec
    <3>3. UNCHANGED <<table, breaks>>
      BY <1>10, <2>2 DEF Insert, InsertRow
    <3>4. QED  BY <1>2, <1>3, <3>2, <3>3
  <2>3. CASE ~Duplicate(Current(s))
    <3>1. handler' = [handler EXCEPT ![s].pc = "recv", ![s].accepted = @ + 1]
      BY <1>10, <2>3 DEF Insert
    <3>2. handler'[s].accepted = n + 1
      BY <1>1, <2>1, <3>1 DEF HandlerRec
    <3>3. \A t \in Streams : t # s => handler'[t].accepted = handler[t].accepted
      BY <1>1, <3>1 DEF HandlerRec
    <3>4. table' = table \cup {NewRow(Current(s))} /\ breaks' = breaks
      BY <1>10, <2>3 DEF Insert, InsertRow
    <3>5. NewRow(Current(s)) \notin table
      BY <1>1, FreshRow
    <3>6. PICK k, r : k = handler' /\ r = NewRow(Current(s))
      OBVIOUS
    <3>7. CountInv(k, table \cup {r}, breaks)
      BY <1>1, <2>1, <3>2, <3>3, <3>5, <3>6, InsertCounted
    <3>8. QED  BY <3>4, <3>6, <3>7
  <2>4. QED  BY <2>2, <2>3
<1>11. ASSUME NEW s \in Streams, InsertFails(s)
       PROVE  CountInv(handler', table', breaks')
  <2>1. \A t \in Streams : handler'[t].accepted = handler[t].accepted
    BY <1>11, EndCountsNothing DEF InsertFails
  <2>2. breaks' = breaks + 1
    BY <1>11 DEF InsertFails, Break
  <2>3. CASE table' = table
    BY <1>1, <1>2, <2>1, <2>2, <2>3
  <2>4. CASE table' = table \cup {NewRow(Current(s))}
    <3>1. NewRow(Current(s)) \notin table
      BY <1>1, FreshRow
    <3>2. PICK k, r : k = handler' /\ r = NewRow(Current(s))
      OBVIOUS
    <3>3. CountInv(k, table \cup {r}, breaks + 1)
      BY <1>1, <2>1, <3>1, <3>2, InsertLost
    <3>4. QED  BY <2>2, <2>4, <3>2, <3>3
  <2>5. QED  BY <1>11, <2>3, <2>4 DEF InsertFails, InsertRow
<1>12. ASSUME NEW s \in Streams, ClientGivesUp(s)
       PROVE  CountInv(handler', table', breaks')
  BY <1>2, <1>3, <1>12 DEF ClientGivesUp
<1>13. CASE ServerCrash
  <2>1. ASSUME NEW t \in Streams  PROVE handler'[t].accepted = handler[t].accepted
    <3>1. handler'[t] = IF handler[t].pc = "none" THEN NoHandler
                        ELSE [handler[t] EXCEPT !.pc = "end"]
      BY <1>13 DEF ServerCrash
    <3>2. CASE handler[t].pc = "none"
      <4>1. handler[t].accepted = 0
        BY <3>2 DEF UnopenedInv
      <4>2. QED  BY <3>1, <3>2, <4>1 DEF NoHandler
    <3>3. CASE handler[t].pc # "none"
      <4>1. handler[t] \in HandlerRec
        BY <1>1
      <4>2. QED  BY <3>1, <3>3, <4>1 DEF HandlerRec
    <3>4. QED  BY <3>2, <3>3
  <2>2. QED  BY <1>2, <1>3, <1>13, <2>1 DEF ServerCrash
<1>14. CASE UNCHANGED ivars
  BY <1>2, <1>14 DEF ivars
<1>15. QED  BY <1>4, <1>5, <1>6, <1>7, <1>8, <1>9, <1>10, <1>11, <1>12, <1>13, <1>14
       DEF INext

(* No row is claimed twice: however many streams run at once, fail or      *)
(* crash, what UploadMemories reports as accepted never exceeds the rows   *)
(* there are, and falls short by at most one row for each fault.           *)
THEOREM NoRowClaimedTwice == ISpec => []AcceptedAreRows
<1> DEFINE J == CountInv(handler, table, breaks) /\ UnopenedInv(handler)
<1>1. IInit => J
  <2> SUFFICES ASSUME IInit  PROVE J
    OBVIOUS
  <2>1. Claims(handler) = {}
    BY DEF IInit, NoHandler, Claims
  <2>2. IsFiniteSet({}) /\ Cardinality({}) = 0
    BY FS_EmptySet
  <2>3. table = {} /\ breaks = 0
    BY DEF IInit
  <2>4. UnopenedInv(handler)
    BY DEF IInit, NoHandler, UnopenedInv
  <2>5. QED  BY <2>1, <2>2, <2>3, <2>4 DEF CountInv
<1>2. IngestInv /\ IngestInv' /\ J /\ [INext]_ivars => J'
  BY CountStep, UnopenedStep
<1>3. J => AcceptedAreRows
  BY DEF CountInv, Claims, AcceptedAreRows
<1> HIDE DEF J
<1>4. QED  BY <1>1, <1>2, <1>3, IngestInvariance, PTL DEF ISpec
=============================================================================
