---------------------------- MODULE HarnessProofs ---------------------------
(* A benchmark run beside any number of workers and other uploaders: what  *)
(* wait-enriched saw complete is what eval measures, for every number of   *)
(* memories, conversations and versions, in or out of smallint.            *)
EXTENDS Harness, LedgerProofs, FiniteSetTheorems

(* The ledger version both RPCs use for this run. *)
V == Int16(run.version)

(* What a poll that ends the wait has seen. *)
PollComplete ==
    /\ own \subseteq polled /\ polled # {}
    /\ \A m \in polled : HasDone(m, V)

(* R holds entries of conversation c, successes at V, one at least for     *)
(* each memory of c that the poll counted.                                 *)
CoverRows(c, R) ==
    /\ \A e \in R : /\ e \in Entries
                    /\ ConvOf[e[1]] = c
                    /\ e[2] \in DoneRows(e[1], V)
    /\ \A m \in polled : ConvOf[m] = c => \E e \in R : e[1] = m

(* The inductive invariant. *)
HInv ==
    /\ HTypeOK
    /\ AtMostOneDone
    /\ own \subseteq memories
    /\ polled \subseteq memories
    /\ DOMAIN corpus = Convs
    /\ run.step = "eval" => PollComplete
    /\ stream # NoStream => \E c \in Convs :
          stream.conv = {c} /\ CoverRows(c, stream.todo \cup stream.got)
    /\ \A c \in Convs : corpus[c] # NotFetched =>
          run.step \notin {"ingest", "wait"} /\ PollComplete /\ CoverRows(c, corpus[c])

-----------------------------------------------------------------------------
(* Facts about the ledger's queries.                                       *)

(* At any version, whether the ledger knows it or not, one done row.       *)
LEMMA OneDoneAtV ==
  ASSUME LTypeOK, AtMostOneDone, NEW m \in Memories, NEW v
  PROVE  /\ DoneRows(m, v) \subseteq Nat
         /\ \A i, j \in DoneRows(m, v) : i = j
<1>1. events[m] \in Seq(Row)
  BY DEF LTypeOK
<1>2. DoneRows(m, v) # {} => v \in Versions
  <2>1. \A i \in DOMAIN events[m] : events[m][i] \in Row
    BY <1>1
  <2>2. \A r \in Row : r.version \in Versions
    BY DEF Row
  <2>3. QED  BY <2>1, <2>2 DEF DoneRows
<1>3. DoneRows(m, v) \subseteq Nat
  BY <1>1 DEF DoneRows
<1>4. QED  BY <1>2, <1>3 DEF AtMostOneDone

(* A done row stays one. *)
LEMMA DoneKept ==
  ASSUME LTypeOK, [LNext]_lvars, NEW m \in Memories, NEW v
  PROVE  /\ DoneRows(m, v) \subseteq DoneRows(m, v)'
         /\ HasDone(m, v) => HasDone(m, v)'
<1>1. \A i \in DOMAIN events[m] : /\ i \in DOMAIN events'[m]
                                  /\ events'[m][i] = events[m][i]
  BY HistoryKept DEF HistoryStep
<1>2. DoneRows(m, v) \subseteq DoneRows(m, v)'
  BY <1>1 DEF DoneRows
<1>3. QED  BY <1>2 DEF HasDone

(* Committed memories stay committed. *)
LEMMA MemoriesStay == [LNext]_lvars => memories \subseteq memories'
BY DEF LNext, lvars, InsertMemory, InsertDone, InsertFailed, TimePasses

(* Sets of committed memories can be counted. *)
LEMMA CountMemories ==
  ASSUME LTypeOK, NEW S \in SUBSET memories
  PROVE  IsFiniteSet(S) /\ Cardinality(S) \in Nat
<1>1. S \subseteq Memories
  BY DEF LTypeOK
<1>2. QED  BY <1>1, ConstantsAssumption, FS_Subset, FS_CardinalityType

(* What was fetched stays a cover while the ledger grows and the poll and  *)
(* the version stay.                                                       *)
LEMMA CoverStays ==
  ASSUME LTypeOK, [LNext]_lvars, run'.version = run.version, polled' = polled,
         NEW c, NEW R, CoverRows(c, R)
  PROVE  CoverRows(c, R)'
<1>1. V' = V
  BY DEF V
<1>2. \A e \in R : e[1] \in Memories /\ e[2] \in DoneRows(e[1], V)
  BY DEF CoverRows, Entries
<1>3. \A m \in Memories : DoneRows(m, V) \subseteq DoneRows(m, V)'
  BY <1>1, DoneKept
<1>4. \A e \in R : e[2] \in DoneRows(e[1], V)'
  BY <1>2, <1>3
<1>5. QED  BY <1>4 DEF CoverRows, Entries

(* A complete poll stays complete. *)
LEMMA CompleteStays ==
  ASSUME HTypeOK, [LNext]_lvars, run'.version = run.version,
         polled' = polled, own' = own, PollComplete
  PROVE  PollComplete'
<1>1. V' = V /\ polled \subseteq Memories
  BY DEF V, HTypeOK
<1>2. \A m \in Memories : HasDone(m, V) => HasDone(m, V)'
  BY <1>1, DoneKept DEF HTypeOK
<1>3. QED  BY <1>1, <1>2 DEF PollComplete

(* A step that leaves polled alone and changes own only while nothing was  *)
(* fetched preserves the parts of the invariant about the ledger.          *)
LEMMA Quiet ==
  ASSUME HInv, [LNext]_lvars, UNCHANGED hvars
  PROVE  HInv'
<1>1. HTypeOK /\ LTypeOK /\ AtMostOneDone
  BY DEF HInv, HTypeOK
<1>2. LTypeOK' /\ AtMostOneDone' /\ memories \subseteq memories'
  BY <1>1, LTypeStep, OneDoneStep, MemoriesStay
<1>3. HTypeOK'
  BY <1>1, <1>2 DEF HTypeOK, hvars
<1>4. PollComplete => PollComplete'
  BY <1>1, CompleteStays DEF hvars
<1>5. \A c, R : CoverRows(c, R) => CoverRows(c, R)'
  BY <1>1, CoverStays DEF hvars
<1>6. QED
  BY <1>2, <1>3, <1>4, <1>5 DEF HInv, hvars

-----------------------------------------------------------------------------
(* One lemma per action.                                                   *)

(* Until eval runs there is no stream, and until a poll completes nothing  *)
(* is fetched.                                                             *)
LEMMA NothingFetched ==
  ASSUME HInv, run.step \in {"ingest", "wait"}
  PROVE  stream = NoStream /\ \A c \in Convs : corpus[c] = NotFetched
BY DEF HInv, HTypeOK

(* The step run.sh goes to is the only thing GoTo changes. *)
LEMMA GoToType ==
  ASSUME HTypeOK, NEW step \in {"ingest", "wait", "eval", "ok", "dead", "timeout",
                                "failed"},
         GoTo(step)
  PROVE  /\ run'.step = step /\ run'.version = run.version
         /\ run' \in [step : {"ingest", "wait", "eval", "ok", "dead", "timeout",
                              "failed"}, version : Requested]
BY DEF HTypeOK, GoTo

(* An upload of the run adds to own what it adds to the table. *)
LEMMA IngestStep ==
  ASSUME HInv, NEW m \in Memories, Ingest(m)
  PROVE  HInv'
<1>1. /\ run.step = "ingest" /\ InsertMemory(m) /\ own' = own \cup {m}
      /\ UNCHANGED <<run, polled, stream, corpus>> /\ HTypeOK /\ LTypeOK
      /\ AtMostOneDone
  BY DEF Ingest, HInv, HTypeOK
<1>2. [LNext]_lvars
  BY <1>1 DEF LNext
<1>3. LTypeOK' /\ AtMostOneDone' /\ memories' = memories \cup {m}
  BY <1>1, <1>2, LTypeStep, OneDoneStep DEF InsertMemory
<1>4. HTypeOK'
  BY <1>1, <1>3 DEF HTypeOK
<1>5. stream = NoStream /\ \A c \in Convs : corpus[c] = NotFetched
  BY <1>1, NothingFetched
<1>6. QED
  BY <1>1, <1>3, <1>4, <1>5 DEF HInv

(* trigger-sweep starts the wait with no poll made. *)
LEMMA TriggerSweepStep ==
  ASSUME HInv, TriggerSweep
  PROVE  HInv'
<1>1. /\ run.step = "ingest" /\ (GoTo("wait") \/ GoTo("failed"))
      /\ UNCHANGED <<own, polled, stream, corpus, lvars>> /\ HTypeOK
      /\ UNCHANGED <<memories, events, age>>
  BY DEF TriggerSweep, HInv, lvars
<1>2. /\ run'.step \in {"wait", "failed"} /\ run'.version = run.version
      /\ run' \in [step : {"ingest", "wait", "eval", "ok", "dead", "timeout",
                           "failed"}, version : Requested]
  BY <1>1, GoToType
<1>3. stream = NoStream /\ \A c \in Convs : corpus[c] = NotFetched
  BY <1>1, NothingFetched
<1>4. HTypeOK' /\ AtMostOneDone'
  BY <1>1, <1>2, <1>3 DEF HInv, HTypeOK, LTypeOK, AtMostOneDone, DoneRows
<1>5. QED
  BY <1>1, <1>2, <1>3, <1>4 DEF HInv

(* A poll that succeeds has seen a success of every memory there is. *)
LEMMA SuccessIsComplete ==
  ASSUME LTypeOK, NEW v, Complete(Progress(memories, v))
  PROVE  memories # {} /\ \A m \in memories : HasDone(m, v)
<1> DEFINE p == Progress(memories, v)
           undone == {m \in memories : ~HasDone(m, v)}
<1>1. /\ p.total = Cardinality(memories) /\ p.remaining = Cardinality(undone)
      /\ p.total > 0 /\ p.remaining = 0
  BY DEF Progress, Complete
<1>2. undone = {}
  <2>1. IsFiniteSet(undone)
    BY CountMemories
  <2>2. QED  BY <1>1, <2>1, FS_EmptySet
<1>3. memories # {}
  <2>1. Cardinality(memories) # 0
    BY <1>1, CountMemories
  <2>2. QED  BY <2>1, FS_EmptySet
<1>4. QED  BY <1>2, <1>3

(* A poll leads to eval only when every memory has its success. *)
LEMMA PollStep ==
  ASSUME HInv, Poll
  PROVE  HInv'
<1> DEFINE p == Progress(memories, V)
<1>1. /\ run.step = "wait" /\ HTypeOK /\ LTypeOK /\ polled' = memories
      /\ UNCHANGED <<own, stream, corpus, memories, events, age>>
  BY DEF Poll, HInv, HTypeOK, lvars
<1>2. \/ GoTo("dead")
      \/ Complete(p) /\ GoTo("eval")
      \/ UNCHANGED run
  <2>1. p.dead \in Nat
    BY <1>1, CountMemories DEF Progress
  <2>2. p.dead > 0 \/ p.dead = 0
    BY <2>1
  <2>3. QED  BY <2>2 DEF Poll, GetProgress, V
<1>3. stream = NoStream /\ \A c \in Convs : corpus[c] = NotFetched
  BY <1>1, NothingFetched
<1> HIDE DEF p
<1>4. /\ run'.version = run.version
      /\ run' \in [step : {"ingest", "wait", "eval", "ok", "dead", "timeout",
                           "failed"}, version : Requested]
      /\ run'.step \in {"dead", "eval", "wait"}
  BY <1>1, <1>2, GoToType DEF HTypeOK
<1>5. HTypeOK' /\ AtMostOneDone'
  BY <1>1, <1>3, <1>4 DEF HInv, HTypeOK, LTypeOK, AtMostOneDone, DoneRows
<1>6. run'.step = "eval" => PollComplete'
  <2> SUFFICES ASSUME run'.step = "eval" PROVE PollComplete'
    OBVIOUS
  <2>1. Complete(p)
    BY <1>1, <1>2, GoToType
  <2>2. memories # {} /\ \A m \in memories : HasDone(m, V)
    BY <1>1, <2>1, SuccessIsComplete DEF p
  <2>3. \A m \in memories : HasDone(m, V)'
    BY <1>1, <1>4, <2>2 DEF V, HasDone, DoneRows
  <2>4. QED  BY <1>1, <2>2, <2>3 DEF PollComplete, HInv
<1>7. QED
  BY <1>1, <1>3, <1>4, <1>5, <1>6 DEF HInv

(* The wait ends without success: nothing else changes. *)
LEMMA StopWaitingStep ==
  ASSUME HInv, StopWaiting
  PROVE  HInv'
<1>1. /\ run.step = "wait" /\ (GoTo("timeout") \/ GoTo("failed"))
      /\ UNCHANGED <<own, polled, stream, corpus, lvars>> /\ HTypeOK
      /\ UNCHANGED <<memories, events, age>>
  BY DEF StopWaiting, HInv, lvars
<1>2. /\ run'.step \in {"timeout", "failed"} /\ run'.version = run.version
      /\ run' \in [step : {"ingest", "wait", "eval", "ok", "dead", "timeout",
                           "failed"}, version : Requested]
  BY <1>1, GoToType
<1>3. stream = NoStream /\ \A c \in Convs : corpus[c] = NotFetched
  BY <1>1, NothingFetched
<1>4. HTypeOK' /\ AtMostOneDone'
  BY <1>1, <1>2, <1>3 DEF HInv, HTypeOK, LTypeOK, AtMostOneDone, DoneRows
<1>5. QED
  BY <1>1, <1>2, <1>3, <1>4 DEF HInv

(* A step of eval: the ledger, the poll and the run's version stay. *)
LEMMA EvalStep ==
  ASSUME HInv, UNCHANGED <<own, polled, lvars>>, run'.version = run.version,
         HTypeOK', DOMAIN corpus' = Convs,
         run.step = "eval", run'.step \in {"eval", "ok", "failed"},
         stream' # NoStream => \E c \in Convs :
             stream'.conv = {c} /\ CoverRows(c, stream'.todo \cup stream'.got),
         \A c \in Convs : corpus'[c] # NotFetched => CoverRows(c, corpus'[c])
  PROVE  HInv'
<1>1. UNCHANGED <<memories, events, age>>
  BY DEF lvars
<1>2. AtMostOneDone' /\ own' \subseteq memories' /\ polled' \subseteq memories'
  BY <1>1 DEF HInv, AtMostOneDone, DoneRows
<1>3. PollComplete'
  BY CompleteStays DEF HInv
<1>4. \A m, v : DoneRows(m, v)' = DoneRows(m, v)
  BY <1>1 DEF DoneRows
<1>5. (stream # NoStream => \E c \in Convs :
         stream.conv = {c} /\ CoverRows(c, stream.todo \cup stream.got))'
  BY <1>4 DEF CoverRows, V
<1>6. (\A c \in Convs : corpus[c] # NotFetched => CoverRows(c, corpus[c]))'
  BY <1>4 DEF CoverRows, V
<1>7. QED
  BY <1>2, <1>3, <1>5, <1>6 DEF HInv

(* The statement of FetchAllMemories finds an entry of every memory the    *)
(* poll counted: its done row is still there.                              *)
LEMMA FetchCovers ==
  ASSUME HInv, NEW c \in Convs, run.step = "eval"
  PROVE  /\ FetchAllMemories(c, run.version) \in SUBSET Entries
         /\ CoverRows(c, FetchAllMemories(c, run.version))
<1> DEFINE S == {m \in memories : ConvOf[m] = c}
           F == FetchAtVersion(S, V)
<1>1. FetchAllMemories(c, run.version) = F
  BY DEF FetchAllMemories, V
<1>2. \A m \in Memories : DoneRows(m, V) \subseteq Nat
  BY OneDoneAtV DEF HInv, HTypeOK
<1>3. S \subseteq Memories
  BY DEF HInv, HTypeOK, LTypeOK
<1>4. \A e \in F : \E m \in S : e \in {m} \X DoneRows(m, V)
  BY DEF FetchAtVersion
<1>5. \A m \in S : \A i \in DoneRows(m, V) : <<m, i>> \in F
  BY DEF FetchAtVersion
<1>6. \A e \in F : e \in Entries /\ ConvOf[e[1]] = c /\ e[2] \in DoneRows(e[1], V)
  BY <1>2, <1>3, <1>4 DEF Entries
<1>7. \A m \in polled : ConvOf[m] = c => \E e \in F : e[1] = m
  <2> SUFFICES ASSUME NEW m \in polled, ConvOf[m] = c
               PROVE  \E e \in F : e[1] = m
    OBVIOUS
  <2>1. m \in S /\ DoneRows(m, V) # {}
    BY DEF HInv, PollComplete, HasDone
  <2>2. QED  BY <1>5, <2>1
<1> HIDE DEF F
<1>8. QED  BY <1>1, <1>6, <1>7 DEF CoverRows

(* eval opens a stream whose rows cover the conversation. *)
LEMMA OpenStreamStep ==
  ASSUME HInv, NEW c \in Convs, OpenStream(c)
  PROVE  HInv'
<1> DEFINE F == FetchAllMemories(c, run.version)
<1>1. /\ run.step = "eval" /\ UNCHANGED <<run, own, polled, corpus, lvars>>
      /\ stream' = [conv |-> {c}, todo |-> F, got |-> {}]
  BY DEF OpenStream
<1>2. F \in SUBSET Entries /\ CoverRows(c, F)
  BY <1>1, FetchCovers
<1> HIDE DEF F
<1>3. /\ stream' \in [conv : SUBSET Convs, todo : SUBSET Entries,
                      got : SUBSET Entries]
      /\ stream'.conv = {c} /\ stream'.todo \cup stream'.got = F
  BY <1>1, <1>2
<1>4. Cardinality(stream'.conv) = 1
  BY <1>3, FS_Singleton
<1>5. HTypeOK'
  BY <1>1, <1>3, <1>4 DEF HInv, HTypeOK, LTypeOK, lvars
<1>6. \A d \in Convs : corpus'[d] # NotFetched => CoverRows(d, corpus'[d])
  BY <1>1 DEF HInv
<1>7. /\ run'.version = run.version /\ run'.step \in {"eval", "ok", "failed"}
      /\ DOMAIN corpus' = Convs /\ UNCHANGED <<own, polled, lvars>>
  BY <1>1 DEF HInv
<1>8. QED
  BY <1>1, <1>2, <1>3, <1>5, <1>6, <1>7, EvalStep

(* A row moves from todo to got. *)
LEMMA ReceiveRowStep ==
  ASSUME HInv, ReceiveRow
  PROVE  HInv'
<1>1. PICK r \in stream.todo :
         stream' = [stream EXCEPT !.todo = @ \ {r}, !.got = @ \cup {r}]
  BY DEF ReceiveRow
<1>2. UNCHANGED <<run, own, polled, corpus, lvars>> /\ HTypeOK
  BY DEF ReceiveRow, HInv
<1>3. stream # NoStream /\ run.step = "eval"
  BY <1>1, <1>2 DEF NoStream, HTypeOK
<1>4. /\ stream' \in [conv : SUBSET Convs, todo : SUBSET Entries,
                      got : SUBSET Entries]
      /\ stream'.conv = stream.conv
      /\ stream'.todo \cup stream'.got = stream.todo \cup stream.got
  BY <1>1, <1>2 DEF HTypeOK
<1>5. HTypeOK'
  BY <1>2, <1>3, <1>4 DEF HTypeOK, LTypeOK, lvars
<1>6. PICK c \in Convs :
         stream.conv = {c} /\ CoverRows(c, stream.todo \cup stream.got)
  BY <1>3 DEF HInv
<1>7. \A d \in Convs : corpus'[d] # NotFetched => CoverRows(d, corpus'[d])
  BY <1>2 DEF HInv
<1>8. /\ run'.version = run.version /\ run'.step \in {"eval", "ok", "failed"}
      /\ DOMAIN corpus' = Convs /\ UNCHANGED <<own, polled, lvars>>
  BY <1>2, <1>3 DEF HInv
<1>9. QED
  BY <1>3, <1>4, <1>5, <1>6, <1>7, <1>8, EvalStep

(* At io.EOF every row was received; an error keeps the corpora fetched    *)
(* before.                                                                 *)
LEMMA StreamEndsStep ==
  ASSUME HInv, StreamEnds
  PROVE  HInv'
<1>1. /\ stream # NoStream /\ stream' = NoStream
      /\ UNCHANGED <<own, polled, lvars>> /\ HTypeOK /\ run.step = "eval"
  BY DEF StreamEnds, HInv, HTypeOK
<1>2. PICK c \in Convs :
         stream.conv = {c} /\ CoverRows(c, stream.todo \cup stream.got)
  BY <1>1 DEF HInv
<1>3. \/ /\ stream.todo = {} /\ corpus' = [corpus EXCEPT ![c] = stream.got]
         /\ (UNCHANGED run \/ GoTo("ok"))
      \/ GoTo("failed") /\ UNCHANGED corpus
  BY <1>2 DEF StreamEnds
<1>4. /\ run'.version = run.version /\ run'.step \in {"eval", "ok", "failed"}
      /\ run' \in [step : {"ingest", "wait", "eval", "ok", "dead", "timeout",
                           "failed"}, version : Requested]
  BY <1>1, <1>3, GoToType DEF HTypeOK
<1>5. /\ DOMAIN corpus' = Convs
      /\ \A d \in Convs :
            \/ corpus'[d] = corpus[d]
            \/ d = c /\ stream.todo = {} /\ corpus'[d] = stream.got
  BY <1>3 DEF HInv
<1>6. stream.got \subseteq Entries
  BY <1>1 DEF HTypeOK
<1>7. \A d \in Convs : corpus'[d] = NotFetched \/ corpus'[d] \subseteq Entries
  BY <1>1, <1>5, <1>6 DEF HTypeOK
<1>8. NoStream \in [conv : SUBSET Convs, todo : SUBSET Entries, got : SUBSET Entries]
  BY DEF NoStream
<1>9. HTypeOK'
  BY <1>1, <1>4, <1>7, <1>8 DEF HTypeOK, LTypeOK, lvars
<1>10. \A d \in Convs : corpus'[d] # NotFetched => CoverRows(d, corpus'[d])
  <2>1. stream.todo = {} => CoverRows(c, stream.got)
    BY <1>2
  <2>2. QED  BY <1>5, <2>1 DEF HInv
<1>11. QED
  BY <1>1, <1>4, <1>5, <1>9, <1>10, EvalStep

-----------------------------------------------------------------------------
(* The invariant of a run, beside everything other clients and workers do. *)
THEOREM HarnessInvariance == HSpec => []HInv
<1>1. HInit => HInv
  <2> SUFFICES ASSUME HInit PROVE HInv
    OBVIOUS
  <2>1. LTypeOK /\ AtMostOneDone
    BY DEF HInit, LInit, LTypeOK, AtMostOneDone, DoneRows
  <2>2. NoStream \in [conv : SUBSET Convs, todo : SUBSET Entries,
                      got : SUBSET Entries]
    BY DEF NoStream
  <2>3. HTypeOK
    BY <2>1, <2>2 DEF HInit, HTypeOK
  <2>4. QED  BY <2>1, <2>3 DEF HInit, HInv
<1>2. HInv /\ [HNext]_<<lvars, hvars>> => HInv'
  <2> SUFFICES ASSUME HInv, [HNext]_<<lvars, hvars>> PROVE HInv'
    OBVIOUS
  <2>1. CASE UNCHANGED <<lvars, hvars>>
    BY <2>1, Quiet
  <2>2. CASE Others
    <3>1. [LNext]_lvars /\ UNCHANGED hvars
      BY <2>2 DEF Others, LNext
    <3>2. QED  BY <3>1, Quiet
  <2>3. CASE HarnessStep
    BY <2>3, TriggerSweepStep, PollStep, StopWaitingStep, OpenStreamStep,
       ReceiveRowStep, StreamEndsStep DEF HarnessStep
  <2>4. QED  BY <2>1, <2>2, <2>3, IngestStep DEF HNext
<1>3. QED  BY <1>1, <1>2, PTL DEF HSpec

(* The types of a run's state. *)
THEOREM HarnessTypeCorrect == HSpec => []HTypeOK
<1>1. HInv => HTypeOK
  BY DEF HInv
<1>2. QED  BY <1>1, HarnessInvariance, PTL

(* What the benchmark is measured on: for every requested version and any  *)
(* concurrent use of the store, the corpus eval fetched holds exactly one  *)
(* success for every memory that the poll which ended the wait had counted.*)
THEOREM CorpusCovers == HSpec => []CorpusCoversPoll
<1>1. HInv => CorpusCoversPoll
  <2> SUFFICES ASSUME HInv, NEW c \in Convs, corpus[c] # NotFetched
               PROVE  /\ own \subseteq polled /\ polled # {}
                      /\ \A m \in polled : ConvOf[m] = c =>
                            Cardinality({e \in corpus[c] : e[1] = m}) = 1
                      /\ \A e \in corpus[c] :
                            /\ ConvOf[e[1]] = c
                            /\ e[2] \in DoneRows(e[1], Int16(run.version))
                            /\ \A f \in corpus[c] : f[1] = e[1] => f = e
    BY DEF CorpusCoversPoll
  <2>1. PollComplete /\ CoverRows(c, corpus[c]) /\ LTypeOK /\ AtMostOneDone
    BY DEF HInv, HTypeOK
  <2>2. \A e, f \in corpus[c] : f[1] = e[1] => f = e
    <3> SUFFICES ASSUME NEW e \in corpus[c], NEW f \in corpus[c], f[1] = e[1]
                 PROVE  f = e
      OBVIOUS
    <3>1. /\ e \in Entries /\ f \in Entries
          /\ e[2] \in DoneRows(e[1], V) /\ f[2] \in DoneRows(e[1], V)
      BY <2>1 DEF CoverRows
    <3>2. e[1] \in Memories
      BY <3>1 DEF Entries
    <3>3. f[2] = e[2]
      BY <2>1, <3>1, <3>2, OneDoneAtV
    <3>4. QED  BY <3>1, <3>3 DEF Entries
  <2>3. ASSUME NEW m \in polled, ConvOf[m] = c
        PROVE  Cardinality({e \in corpus[c] : e[1] = m}) = 1
    <3>1. PICK e \in corpus[c] : e[1] = m
      BY <2>1, <2>3 DEF CoverRows
    <3>2. {f \in corpus[c] : f[1] = m} = {e}
      BY <2>2, <3>1
    <3>3. QED  BY <3>2, FS_Singleton
  <2>4. QED  BY <2>1, <2>2, <2>3 DEF PollComplete, CoverRows, V
<1>2. QED  BY <1>1, HarnessInvariance, PTL
=============================================================================
