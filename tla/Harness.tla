------------------------------- MODULE Harness ------------------------------
(***************************************************************************)
(* The client side of a benchmark run and the RPCs it makes, over the      *)
(* ledger: run.sh executes ingest, trigger-sweep, wait-enriched            *)
(* --fail-on-dead and eval one after another and stops at the first that   *)
(* fails.  wait-enriched polls GetProgress over all conversations; eval    *)
(* streams FetchAllMemories conversation by conversation.  Meanwhile the   *)
(* enrichment workers append to the ledger and other clients upload.       *)
(* Versions arrive as int32 and reach the ledger as int16.                 *)
(***************************************************************************)
EXTENDS Ledger

CONSTANTS Convs,       \* conversations
          ConvOf,      \* ConvOf[m]: the conversation of memory m
          Requested    \* the --version values of runs

ASSUME HarnessAssumption ==
    /\ IsFiniteSet(Convs)
    /\ ConvOf \in [Memories -> Convs]
    /\ Requested \subseteq Int

VARIABLES run,         \* the step run.sh executes, and its version
          own,         \* memories its ingest uploaded
          polled,      \* the memories the latest poll counted
          stream,      \* the FetchAllMemories stream being read
          corpus       \* corpus[c]: what eval fetched for c, once it has

hvars == <<run, own, polled, stream, corpus>>

NoStream == [conv |-> {}, todo |-> {}, got |-> {}]
NotFetched == {<<>>}

HInit ==
    /\ LInit
    /\ run \in [step : {"ingest"}, version : Requested]
    /\ own = {}
    /\ polled = {}
    /\ stream = NoStream
    /\ corpus = [c \in Convs |-> NotFetched]

GoTo(step) == run' = [run EXCEPT !.step = step]

-----------------------------------------------------------------------------
(* The server's read side.                                                 *)

(* int16(v) of an int32. *)
Int16(v) == ((v + 2^15) % 2^16) - 2^15

(* Mutant: only the progress narrows the version. *)
FetchAllMemories_Wide(c, v) ==
    FetchAtVersion({m \in memories : ConvOf[m] = c}, v)

(* Both RPCs refuse a version that is not positive, before narrowing it.   *)
Valid(v) == v > 0

(* GetProgress for conversation_id 0: globalProgressSQL. *)
GetProgress(v) == Progress(memories, Int16(v))

(* The rows FetchAllMemories sends for conversation c: one statement, one  *)
(* snapshot.                                                               *)
FetchAllMemories(c, v) ==
    FetchAtVersion({m \in memories : ConvOf[m] = c}, Int16(v))

-----------------------------------------------------------------------------
(* The run.                                                                *)

(* ingest uploads a memory; its row commits. *)
Ingest(m) ==
    /\ run.step = "ingest"
    /\ InsertMemory(m)
    /\ own' = own \cup {m}
    /\ UNCHANGED <<run, polled, stream, corpus>>

(* ingest ends with its ack, and trigger-sweep succeeds (or not). *)
TriggerSweep ==
    /\ run.step = "ingest"
    /\ GoTo("wait") \/ GoTo("failed")
    /\ UNCHANGED <<own, polled, stream, corpus, lvars>>

Complete(p) == p.total > 0 /\ p.remaining = 0

(* One round of cmdWaitEnriched: the poll, then fail on dead, succeed, or  *)
(* sleep.                                                                  *)
Poll ==
    /\ run.step = "wait"
    /\ Valid(run.version)
    /\ polled' = memories
    /\ LET p == GetProgress(run.version)
       IN  CASE p.dead > 0 -> GoTo("dead")
             [] p.dead = 0 /\ Complete(p) -> GoTo("eval")
             [] p.dead = 0 /\ ~Complete(p) -> UNCHANGED run
    /\ UNCHANGED <<own, stream, corpus, lvars>>

(* The timeout of wait-enriched; or --version is refused, or an RPC fails, *)
(* neither of which is tried again.                                        *)
StopWaiting ==
    /\ run.step = "wait"
    /\ IF Valid(run.version) THEN GoTo("timeout") \/ GoTo("failed")
                             ELSE GoTo("failed")
    /\ UNCHANGED <<own, polled, stream, corpus, lvars>>

(* eval asks for the rows of conversation c. *)
OpenStream(c) ==
    /\ run.step = "eval"
    /\ stream = NoStream
    /\ corpus[c] = NotFetched
    /\ stream' = [conv |-> {c}, todo |-> FetchAllMemories(c, run.version),
                  got |-> {}]
    /\ UNCHANGED <<run, own, polled, corpus, lvars>>

(* A row arrives, ORDER BY memory_id. *)
ReceiveRow ==
    /\ \E r \in stream.todo :
          /\ \A q \in stream.todo : r[1] <= q[1]
          /\ stream' = [stream EXCEPT !.todo = @ \ {r}, !.got = @ \cup {r}]
    /\ UNCHANGED <<run, own, polled, corpus, lvars>>

(* Mutant: an error in mid-stream is taken for its end. *)
StreamEnds_Truncated ==
    /\ stream # NoStream
    /\ \E c \in stream.conv : corpus' = [corpus EXCEPT ![c] = stream.got]
    /\ stream' = NoStream
    /\ IF \E c \in Convs : corpus'[c] = NotFetched THEN UNCHANGED run ELSE GoTo("ok")
    /\ UNCHANGED <<own, polled, lvars>>

(* Mutant: an error in mid-stream leaves the stream open. *)
StreamEnds_LeftOpen ==
    /\ stream # NoStream
    /\ GoTo("failed")
    /\ UNCHANGED <<own, polled, stream, corpus, lvars>>

(* io.EOF, or an error in mid-stream, which fails the eval. *)
StreamEnds ==
    /\ stream # NoStream
    /\ \/ /\ stream.todo = {}
          /\ \E c \in stream.conv : corpus' = [corpus EXCEPT ![c] = stream.got]
          /\ IF \E c \in Convs : corpus'[c] = NotFetched THEN UNCHANGED run
                                                          ELSE GoTo("ok")
       \/ GoTo("failed") /\ UNCHANGED corpus
    /\ stream' = NoStream
    /\ UNCHANGED <<own, polled, lvars>>

(* Workers and other clients use the store as they like.  (Time is left    *)
(* out: no query of the run reads the age of a row.)                       *)
Others ==
    /\ \/ \E m \in Memories : InsertMemory(m)
       \/ \E m \in memories, v \in Versions, a \in 1..ActAttempts :
             \/ InsertDone(m, v, a)
             \/ \E p \in BOOLEAN : InsertFailed(m, v, a, p)
    /\ UNCHANGED hvars

HarnessStep ==
    \/ TriggerSweep \/ Poll \/ StopWaiting
    \/ (\E c \in Convs : OpenStream(c)) \/ ReceiveRow \/ StreamEnds

HNext == (\E m \in Memories : Ingest(m)) \/ HarnessStep \/ Others

HSpec == HInit /\ [][HNext]_<<lvars, hvars>>

-----------------------------------------------------------------------------
(* Properties.                                                             *)

Entries == Memories \X Nat

(* The states of the variables; fetchCorpus has at most one stream open,   *)
(* and only while eval runs.                                               *)
HTypeOK ==
    /\ LTypeOK
    /\ run \in [step : {"ingest", "wait", "eval", "ok", "dead", "timeout",
                        "failed"}, version : Requested]
    /\ own \subseteq Memories
    /\ polled \subseteq Memories
    /\ stream \in [conv : SUBSET Convs, todo : SUBSET Entries,
                   got : SUBSET Entries]
    /\ stream # NoStream => run.step = "eval" /\ Cardinality(stream.conv) = 1
    /\ \A c \in Convs : corpus[c] = NotFetched \/ corpus[c] \subseteq Entries

(* What the benchmark is measured on.  For every --version, in or out of   *)
(* the range of smallint: once wait-enriched succeeded, each conversation  *)
(* fetched later holds exactly one entry, a success at one and the same    *)
(* ledger version, for each memory that was there at the last poll, hence  *)
(* for all of the run's own upload; whatever failed, was enriched at other *)
(* versions or was uploaded by others meanwhile.  A memory uploaded later  *)
(* may be missing, never duplicated or from another conversation.          *)
CorpusCoversPoll ==
    \A c \in Convs : corpus[c] # NotFetched =>
        /\ own \subseteq polled /\ polled # {}
        /\ \A m \in polled : ConvOf[m] = c =>
              Cardinality({e \in corpus[c] : e[1] = m}) = 1
        /\ \A e \in corpus[c] :
              /\ ConvOf[e[1]] = c
              /\ e[2] \in DoneRows(e[1], Int16(run.version))
              /\ \A f \in corpus[c] : f[1] = e[1] => f = e
=============================================================================
