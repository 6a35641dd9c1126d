------------------------------- MODULE Ingest -------------------------------
(***************************************************************************)
(* Ingest: the client's "ingest" command streams the memories of a dataset *)
(* to the server's UploadMemories handler, which writes each blob to S3    *)
(* and then its row to table memories.  The client's side of a stream and  *)
(* the server's are apart: a client that has given up, and is perhaps      *)
(* uploading again, may have left a handler that still writes.             *)
(*                                                                         *)
(* The turn of a memory stands for its natural key (conversation, session, *)
(* turn); NoTurn is the empty turn_id, stored as NULL.  A blob is the      *)
(* canonical encoding of its envelope and its key the sha256 of the blob.  *)
(***************************************************************************)
EXTENDS Integers, Sequences, FiniteSets

CONSTANTS Streams,     \* upload calls, of any client
          Turns,       \* natural keys
          NoTurn,      \* the empty turn_id
          Texts,       \* speaker, text and date of a memory
          Datasets,    \* what clients upload: sequences of memories
          Ids,         \* ids the sequence hands out
          MaxBreaks    \* bound on crashes, S3/Postgres errors and give-ups

Item == [turn : Turns \cup {NoTurn}, text : Texts]

ASSUME IngestAssumption ==
    /\ NoTurn \notin Turns
    /\ Datasets \subseteq Seq(Item)
    /\ Ids \subseteq Nat
    /\ MaxBreaks \in Nat

VARIABLES objects,   \* keys of the objects in the S3 bucket
          table,     \* rows of table memories: id, turn, s3_key
          nextId,    \* the identity sequence of memories.id
          client,    \* client[s]: dataset and result of the ingest command
          handler,   \* handler[s]: local variables of UploadMemories
          breaks     \* faults so far

ivars == <<objects, table, nextId, client, handler, breaks>>

NoClient == [data |-> <<>>, result |-> "none"]
NoHandler == [pc |-> "none", pos |-> 0, put |-> {}, accepted |-> 0,
              deduped |-> 0]

(* Mutant: the blob is addressed by what was said, not by the envelope. *)
Key_TextOnly(item) == item.text

(* blob.Key(blob.Hash(env.Marshal())): injective on envelopes. *)
Key(item) == item

Current(s) == client[s].data[handler[s].pos]

IInit ==
    /\ objects = {}
    /\ table = {}
    /\ nextId = 1
    /\ client = [s \in Streams |-> NoClient]
    /\ handler = [s \in Streams |-> NoHandler]
    /\ breaks = 0

Break == breaks < MaxBreaks /\ breaks' = breaks + 1

(* cmdIngest loads a dataset and opens an UploadMemories stream. *)
StartIngest(s, d) ==
    /\ client[s].result = "none"
    /\ client' = [client EXCEPT ![s] = [data |-> d, result |-> "running"]]
    /\ handler' = [handler EXCEPT ![s].pc = "recv"]
    /\ UNCHANGED <<objects, table, nextId, breaks>>

-----------------------------------------------------------------------------
(* The handler.                                                            *)

(* stream.Recv returns the next memory; its blob is put unless this stream *)
(* has put the same key before.                                            *)
Recv(s) ==
    /\ handler[s].pc = "recv"
    /\ handler[s].pos < Len(client[s].data)
    /\ LET pos == handler[s].pos + 1
       IN  handler' = [handler EXCEPT
             ![s].pos = pos,
             ![s].pc = IF Key(client[s].data[pos]) \in handler[s].put
                       THEN "insert" ELSE "put"]
    /\ UNCHANGED <<objects, table, nextId, client, breaks>>

(* io.EOF: SendAndClose.  The ack reaches the client unless the client has *)
(* gone or the connection breaks.                                          *)
Ack(s) ==
    /\ handler[s].pc = "recv"
    /\ handler[s].pos = Len(client[s].data)
    /\ handler' = [handler EXCEPT ![s].pc = "end"]
    /\ IF client[s].result = "failed" THEN UNCHANGED <<client, breaks>>
       ELSE \/ /\ client' = [client EXCEPT ![s].result = "ok"]
               /\ UNCHANGED breaks
            \/ /\ client' = [client EXCEPT ![s].result = "failed"]
               /\ Break
    /\ UNCHANGED <<objects, table, nextId>>

(* Mutant: the result of PutObject is ignored. *)
HandlerFails_PutIgnored(s) ==
    IF handler[s].pc = "put"
    THEN /\ handler' = [handler EXCEPT ![s].pc = "insert"]
         /\ UNCHANGED client
    ELSE /\ handler' = [handler EXCEPT ![s].pc = "end"]
         /\ client' = [client EXCEPT ![s].result = "failed"]

(* Mutant: any insert error is taken for a unique violation. *)
HandlerFails_InsertIgnored(s) ==
    IF handler[s].pc = "insert"
    THEN /\ handler' = [handler EXCEPT ![s].pc = "recv",
                                       ![s].deduped = @ + 1]
         /\ UNCHANGED client
    ELSE /\ handler' = [handler EXCEPT ![s].pc = "end"]
         /\ client' = [client EXCEPT ![s].result = "failed"]

(* The handler returns an error, which ends the client's command too. *)
HandlerFails(s) ==
    /\ handler' = [handler EXCEPT ![s].pc = "end"]
    /\ client' = [client EXCEPT ![s].result = "failed"]

(* stream.Recv fails: the client has gone, or the connection has. *)
RecvFails(s) ==
    /\ handler[s].pc = "recv"
    /\ IF client[s].result = "failed" THEN UNCHANGED breaks ELSE Break
    /\ HandlerFails(s)
    /\ UNCHANGED <<objects, table, nextId>>

PutObject(s) ==
    /\ handler[s].pc = "put"
    /\ objects' = objects \cup {Key(Current(s))}
    /\ handler' = [handler EXCEPT ![s].pc = "insert",
                                  ![s].put = @ \cup {Key(Current(s))}]
    /\ UNCHANGED <<table, nextId, client, breaks>>

(* PutObject returns an error, whether or not the object was stored. *)
PutFails(s) ==
    /\ handler[s].pc = "put"
    /\ Break
    /\ \/ UNCHANGED objects
       \/ objects' = objects \cup {Key(Current(s))}
    /\ HandlerFails(s)
    /\ UNCHANGED <<table, nextId>>

(* Mutant: the empty turn_id is stored as such, or NULLS NOT DISTINCT. *)
Duplicate_NullsEqual(item) == \E r \in table : r.turn = item.turn

(* UNIQUE (conversation_id, session_id, turn_id); NULLs are distinct. *)
Duplicate(item) ==
    item.turn # NoTurn /\ \E r \in table : r.turn = item.turn

NewRow(item) == [id |-> nextId, turn |-> item.turn, key |-> Key(item)]

(* Mutant: ON CONFLICT DO UPDATE by delete and insert. *)
InsertRow_Replace(item) ==
    /\ table' = {r \in table : r.turn # item.turn} \cup {NewRow(item)}
    /\ nextId' = nextId + 1

(* Mutant: ON CONFLICT DO UPDATE SET s3_key. *)
InsertRow_Update(item) ==
    /\ table' = IF Duplicate(item)
                THEN {IF r.turn = item.turn THEN [r EXCEPT !.key = Key(item)] ELSE r :
                         r \in table}
                ELSE table \cup {NewRow(item)}
    /\ nextId' = nextId + 1

(* Mutant: the id is not taken from the sequence. *)
InsertRow_NoSequence(item) ==
    /\ table' = IF Duplicate(item) THEN table ELSE table \cup {NewRow(item)}
    /\ UNCHANGED nextId

(* The INSERT takes an id from the sequence even when it then violates the *)
(* unique constraint and inserts nothing.                                  *)
InsertRow(item) ==
    /\ table' = IF Duplicate(item) THEN table ELSE table \cup {NewRow(item)}
    /\ nextId' = nextId + 1

(* Mutant: a duplicate is counted as accepted. *)
Insert_AllAccepted(s) ==
    /\ handler[s].pc = "insert"
    /\ InsertRow(Current(s))
    /\ handler' = [handler EXCEPT ![s].pc = "recv", ![s].accepted = @ + 1]
    /\ UNCHANGED <<objects, client, breaks>>

(* store.InsertMemory, and the switch on its error. *)
Insert(s) ==
    /\ handler[s].pc = "insert"
    /\ InsertRow(Current(s))
    /\ handler' =
         IF Duplicate(Current(s))
         THEN [handler EXCEPT ![s].pc = "recv", ![s].deduped = @ + 1]
         ELSE [handler EXCEPT ![s].pc = "recv", ![s].accepted = @ + 1]
    /\ UNCHANGED <<objects, client, breaks>>

(* InsertMemory returns another error, whether or not the row committed. *)
InsertFails(s) ==
    /\ handler[s].pc = "insert"
    /\ Break
    /\ \/ UNCHANGED <<table, nextId>>
       \/ InsertRow(Current(s))
    /\ HandlerFails(s)
    /\ UNCHANGED objects

-----------------------------------------------------------------------------
(* The client times out or is killed; its handler notices later. *)
ClientGivesUp(s) ==
    /\ client[s].result = "running"
    /\ Break
    /\ client' = [client EXCEPT ![s].result = "failed"]
    /\ UNCHANGED <<objects, table, nextId, handler>>

(* The server process ends, and every stream with it. *)
ServerCrash ==
    /\ Break
    /\ handler' = [s \in Streams |->
                     IF handler[s].pc = "none" THEN NoHandler
                     ELSE [handler[s] EXCEPT !.pc = "end"]]
    /\ client' = [s \in Streams |->
                    IF client[s].result = "running"
                    THEN [client[s] EXCEPT !.result = "failed"]
                    ELSE client[s]]
    /\ UNCHANGED <<objects, table, nextId>>

INext ==
    \/ \E s \in Streams :
          \/ \E d \in Datasets : StartIngest(s, d)
          \/ Recv(s) \/ Ack(s) \/ RecvFails(s)
          \/ PutObject(s) \/ PutFails(s)
          \/ Insert(s) \/ InsertFails(s)
          \/ ClientGivesUp(s)
    \/ ServerCrash

ISpec == IInit /\ [][INext]_ivars

-----------------------------------------------------------------------------
(* Readers of what was ingested.                                           *)

(* s3TextSource.FetchTexts resolves the memories ids: row, then blob. *)
FetchTextsFinds(ids) ==
    \A m \in ids : \E r \in table : r.id = m /\ r.key \in objects

(* fetchCorpus: the rows of the conversation, all enriched, mapped back to *)
(* the items of dataset d by content hash; of two items with one hash the  *)
(* map keeps the later.                                                    *)
fetchCorpus(d) ==
    {p \in table \X DOMAIN d :
        /\ p[1].key = Key(d[p[2]])
        /\ \A j \in DOMAIN d : Key(d[j]) = Key(d[p[2]]) => j <= p[2]}

-----------------------------------------------------------------------------
(* Properties.                                                             *)

Pcs == {"none", "recv", "put", "insert", "end"}

ITypeOK ==
    /\ objects \subseteq {Key(i) : i \in Item}
    /\ nextId \in Nat \ {0}
    /\ table \subseteq [id : 1..(nextId - 1), turn : Turns \cup {NoTurn},
                        key : {Key(i) : i \in Item}]
    /\ client \in [Streams -> [data : Datasets \cup {<<>>},
                               result : {"none", "running", "ok", "failed"}]]
    /\ handler \in [Streams -> [pc : Pcs, pos : Nat,
                                put : SUBSET {Key(i) : i \in Item},
                                accepted : Nat, deduped : Nat]]
    /\ \A s \in Streams : /\ handler[s].pos <= Len(client[s].data)
                          /\ handler[s].pc \in {"put", "insert"} =>
                                handler[s].pos > 0
    /\ breaks \in 0..MaxBreaks

(* "write blob first": whatever fails in between, and whichever handlers   *)
(* of abandoned uploads still run, the blob of every committed row can be  *)
(* read, so that FetchTexts never fails for want of one.                   *)
BlobFirst == FetchTextsFinds({r.id : r \in table})

(* An acknowledged upload is complete: every memory of the dataset has its *)
(* row - exactly one if it has a turn - and the ack counted each once.     *)
AckComplete ==
    \A s \in Streams : client[s].result = "ok" =>
        /\ handler[s].accepted + handler[s].deduped = Len(client[s].data)
        /\ \A i \in DOMAIN client[s].data :
              LET rows == {r \in table : r.turn = client[s].data[i].turn}
              IN  /\ rows # {}
                  /\ client[s].data[i].turn # NoTurn => Cardinality(rows) = 1

(* No row is claimed twice: what the handlers together report as accepted  *)
(* (UploadAck.accepted) never exceeds the rows there are, and falls short  *)
(* only by rows whose insert committed but reported an error.              *)
AcceptedAreRows ==
    LET claims == UNION {{s} \X (1..handler[s].accepted) : s \in Streams}
    IN  /\ Cardinality(claims) <= Cardinality(table)
        /\ Cardinality(table) <= Cardinality(claims) + breaks

(* "accepted" can be relied on: as many memories of the upload as the      *)
(* handler counted as accepted have a row of their own text, then and for  *)
(* ever, even if an edited dataset that uses the same natural keys is      *)
(* uploaded before, at the same time or later; what an edit would replace  *)
(* is among the deduped.                                                   *)
AcceptedKeepTheirText ==
    \A s \in Streams :
        handler[s].accepted <=
            Cardinality({i \in DOMAIN client[s].data : \E r \in table :
                /\ r.turn = client[s].data[i].turn
                /\ r.key = Key(client[s].data[i])})

(* Item i of dataset d has a row in the corpus eval fetches for d. *)
EvalFinds(d, i) == \E p \in fetchCorpus(d) : Key(d[p[2]]) = Key(d[i])

(* The memories of all uploads. *)
Uploaded == UNION {{client[t].data[j] : j \in DOMAIN client[t].data} : t \in Streams}

(* What eval cannot find after an acknowledged upload is what an edit of   *)
(* the dataset lost: a memory of it that no row maps back to has a turn,   *)
(* whose row holds another text that some upload brought for that turn.    *)
(* A memory without a turn is always found, whatever else lacks one.       *)
EvalMissesOnlyEdits ==
    \A s \in Streams : client[s].result = "ok" =>
        \A i \in DOMAIN client[s].data :
            LET item == client[s].data[i]
            IN  \/ EvalFinds(client[s].data, i)
                \/ /\ item.turn # NoTurn
                   /\ \E r \in table : r.turn = item.turn
                   /\ \A r \in table : r.turn = item.turn =>
                         \E other \in Uploaded :
                            /\ other.turn = item.turn /\ other.text # item.text
                            /\ r.key = Key(other)

(* Ingest and eval agree without any id in common: when all that was ever  *)
(* uploaded is one dataset whose memories have distinct turns, eval finds  *)
(* for each of its memories exactly one row, that memory's own, even if    *)
(* several memories say the same words.                                    *)
EvalFindsEveryItem ==
    \A s \in Streams :
        LET d == client[s].data
        IN  /\ client[s].result = "ok"
            /\ \A t \in Streams : client[t].data \in {<<>>, d}
            /\ \A i, j \in DOMAIN d :
                  d[i].turn # NoTurn /\ (d[i].turn = d[j].turn => i = j)
            => \A i \in DOMAIN d :
                  \E r \in table :
                     /\ r.turn = d[i].turn
                     /\ {p \in fetchCorpus(d) : p[1] = r \/ p[2] = i}
                          = {<<r, i>>}

(* The memories table as the enrichment ledger sees it: uploads only ever  *)
(* insert memories under fresh ids, so no id with ledger rows vanishes or  *)
(* comes to mean another memory.                                           *)
LedgerOf == INSTANCE Ledger
    WITH Memories <- Ids, Versions <- {1}, MaxAttempts <- 1,
         BackoffBase <- 1, ActAttempts <- 1,
         memories <- {r.id : r \in table},
         events <- [m \in Ids |-> <<>>], age <- [m \in Ids |-> <<>>]
IngestImplementsLedger == LedgerOf!LSpec
=============================================================================
