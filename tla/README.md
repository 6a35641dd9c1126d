# agentmem: TLA+ specifications, model checking and proofs

agentmem is a long-term-memory benchmark: a client uploads conversation turns,
a server stores them in S3 and Postgres, a Temporal worker enriches (embeds)
them in the background, and the client evaluates retrieval over the enriched
corpus. This directory specifies the parts whose correctness depends on
interleaving, failure and recovery, checks them with TLC and proves the central
facts with TLAPS. Paths below are relative to `src/`.

## 1. The system

| Part | State it keeps | Operations | Interacts with |
|---|---|---|---|
| Ledger (`internal/store`, `migrations`) | tables `memories`, `memory_enrichment_events` (insert-only) | InsertMemory, InsertEnrichmentDone, InsertEnrichmentFailed; derived: pending claim, `dead_letter`, `enrichment_progress`, version-pinned fetch | upload, sweep, read side |
| Sweep (`internal/enrich`) | Temporal schedule, workflow run, activity attempts, heartbeat details; in the worker: the errgroup, `progress` | EnsureSchedule, TriggerNow, EnrichmentSweepWorkflow, CountBacklog, PlanRanges, ProcessBatch | ledger, S3 (FetchTexts), embedder |
| Upload (`cmd/server` UploadMemories, `cmd/client` ingest, `internal/blob`) | S3 bucket, table `memories`, stream-local `put`, `accepted`, `deduped` | stream receive, PutObject, InsertMemory, ack | ledger, sweep (blobs), eval (hashes) |
| Read side (`cmd/server`) | none | GetProgress, FetchAllMemories, TriggerSweep | ledger |
| Waiting (`cmd/client`, `run.sh`) | polling loop of a run | trigger-sweep, wait-enriched; one command after another | read side |
| Eval (`cmd/client`) | corpus and results of a run | loaders, fetchCorpus, filterGranularity, Search per question, expandRetrieved, report, gate | read side, retrieval, embedding client |
| Embedding client and cache (`internal/embed`) | table `embedding_cache` | prefix guard, CacheGet, RPC with retry policy, re-ask and retry wrappers, normalisation, CachePut | embedder, sweep, eval |
| nomicbridge (`tools/nomicbridge`) | queue, current batch, reply channels | Embed, collect, flush, flushIndividually | model endpoint |
| Retrieval (`internal/retrieve`), text pipeline (`internal/pipeline`), metrics (`internal/eval`) | none (pure) | RRF, MMR, TemporalAdjust, BM25, AssembleRounds, RecallAtK, MRR... | eval |

What is hard here:

* **Overlap.** An embed call may last 30 s and the heartbeat timeout is 15 s,
  so an attempt the server has given up on can go on writing rows beside its
  retry. The upload handler of a client that gave up does the same.
* **Recovery from partial knowledge.** A retried batch resumes at a heartbeat
  detail that was computed under a mutex, recorded outside it, throttled by the
  SDK, and lost or not in a crash.
* **State derived in several places.** The claim, `dead_letter`,
  `enrichment_progress`, `globalProgressSQL` and the fetch each re-derive
  "done", "dead" and "pending" from the same rows.
* **Two retry loops on one counter.** Failure rows are written per activity
  attempt, the exhaustion test is made per claim.
* **Time.** Backoff windows, the sweep's soft deadline, dropped ticks.
* **Two stores without a transaction.** S3 and Postgres at upload.
* **Check, then use.** wait-enriched polls, eval fetches later, both by a
  version that is narrowed on the way, while others upload and enrich.
* **Retries within retries.** One embed call is under three loops that react to
  different errors; what comes out decides whether a memory is dead-lettered.
* **Silent bias.** An off-by-one in a loader, a fusion that credits absence, a
  dropped row or question changes a benchmark's numbers and nothing else.

What makes the parts correct: one success per memory and version; no memory in
limbo; progress that agrees with the fetch; immutable history (ledger); no item
skipped by a resume, none dropped by a completed batch, disjoint siblings, every
memory settled eventually, sweeps that end (sweep); no row without its blob,
truthful acks, uploads and eval that agree on identity (upload); a corpus that
holds what the last poll counted (waiting); a vector of one's own text, agreeing
cache answers, permanent errors only when unanimous (embedding); retrievable
evidence, rankings that respect their inputs, credit once and at the best rank,
every question accounted for, a gate that means what it says (eval).

## 2. The modules

```
Ledger  <--EXTENDS-- Enrichment <--EXTENDS-- MCEnrichment
  ^  ^                    ^---- EnrichmentProofs (also LedgerProofs)
  |  +--EXTENDS-- Harness <--EXTENDS-- MCHarness
  |  |               ^---- HarnessProofs (also LedgerProofs)
  |  +-- LedgerProofs (also DataFacts)
  +--INSTANCE-- Ingest <--EXTENDS-- MCIngest, IngestProofs (also DataFacts)
Embedder <--INSTANCE-- Bridge <--EXTENDS-- MCBridge, BridgeProofs
EmbedClient <--EXTENDS-- MCEmbedClient, EmbedClientProofs
Retriever <--EXTENDS-- Eval --INSTANCE--> Dataset
                        ^---- MCEval, EvalProofs (also DataFacts)
```

**Ledger.** `memories` is the set of committed ids, `events[m]` the rows of m in
id order, `age[m][i]` the age of a row. Only `now() - created_at` matters and
only against backoff windows, so ages saturate at `AgeCap`, beyond the
longest window a claim consults; time can then pass for ever in a finite model.
The queries are operators: `Pending` (pendingCoreSQL, used by claim, count and
IsPending), `DeadLetter`, `Progress`, `FetchAtVersion`. The store API is
`InsertMemory`, `InsertDone` (with the conflict arbiter), `InsertFailed`. `LSpec`
is at the same time the ledger's own specification and the abstract
specification the sweep and the upload implement.

**Enrichment** extends the ledger with what the Temporal server knows
(`schedule`, `sweep`, `batch`: attempt number and last heartbeat detail) and
what only the worker's memory holds (`run`: per item a program counter, the
`terminal` flags, the watermark, the value each goroutine is about to record,
the detail buffered by the SDK). Each goroutine of ProcessBatch goes through
`StartItem` (errgroup slot, in order), `ItemDone` / `ItemFailed` /
`ItemStoreError` (embed and insert), `Mark` or `Current` (under the mutex) and
`RecordHeartbeat` (outside it); `Finish` is what follows `g.Wait`. A worker
restart (`ServerStart`) loses `run`; a timeout of a live attempt
(`SlowTimesOut`) moves its unfinished items to `zombies`, which may still write.
A store error may or may not have committed its row. The embedder is
arbitrary: any item may succeed, fail or fail permanently at any time. Items of
a cancelled gctx can only fail.

**Ingest** models one upload as a client (`client`) and a handler (`handler`)
that fail separately, the bucket, the table and its id sequence. A turn stands
for the natural key; the empty turn id becomes NULL, which the unique constraint
never finds equal. The blob's key is the envelope itself: the JSON encoding is
canonical and sha256 is taken as injective. `FetchTextsFinds` and `fetchCorpus`
are what the sweep and eval do with the result.

**Embedder** is the abstract specification of the unary RPC: a call is open,
then answered once with the embedding of its own text or with an error, or its
caller leaves. Only an over-long text may be refused for its length.

**Bridge** is nomicbridge. `call`, `reply` and `result` are the Embed handler
(two selects and a reply channel of capacity 1), `queue` is s.queue, and
`collector`, `batch`, `results`, `next` are the collector goroutine between two
blocking points: `CollectFirst`, `Gather`, `CloseBatch`, `Flush` (embedBatch and
the switch), then one `Deliver` per item, or one `FlushOne` per item after a
"too large". `Responses` is everything the endpoint may send back, among it
data in any order, with repeated or missing indices or wrong dimensions;
`Aligned` and `ErrorOf` are embedBatch's checks and mapping. A text is a sequence
of bytes so that truncation at a rune boundary is what the code does; a vector
is named by the text it embeds.

**EmbedClient** is `internal/embed` with the wrappers both commands put around
its transport. A call goes from `Start` (the prefix guard) through `CacheGet`,
attempts of the RPC (`Attempt`, under the retry policy), `AfterError` (`DimsRetry`, the re-ask
on permanent errors, and on eval's side the retry of transient ones with
`Backoff`) to `CachePut`. `ContextEnds` may strike wherever the code waits;
`Redeploy` puts another embedder behind the address, so that vectors of one text
can differ. A vector is the text it embeds, the embedder that made it and its
norm (a zero vector stays zero). `streak` is a history variable: how many RPCs
in a row ended permanently.

**Harness** is a benchmark run over the ledger: `run` is the command run.sh
executes, `polled` what the latest GetProgress counted, `stream` the rows of a
FetchAllMemories on their way, `corpus` what eval has got. `Int16` narrows
versions as the handlers do. `Others` are workers and other clients, free to use
the store API at any time.

**Retriever** is one `Search`: `Candidates`, `Fuse`, `Adjust`, then a `Pick` per
iteration of MMR. Scores are integers in fixed proportion to the code's, so that
comparisons and ties come out the same: RRF over a common denominator, the
boost as 13 to 10, the objective 0.7 rel - 0.3 maxSim times 10. Vectors are
integer points of one circle. BM25 may give matching rows any positive scores.

**Dataset** holds the loaders and the assembly of rounds, as operators; **Eval**
is cmdEval around them: `Start` (flags, tuning, loading), `BuildCorpus` (with any
part of the conversation enriched, or a failing stream), `Ask`, the stages of
Search, `Record` or `SearchFailed`, and `Report` (metrics, skip budget, gate).
Means are kept as sums, scaled to integers.

Left out on purpose: payload columns, log output, rate limits, the text of
errors, dialling.

## 3. The runs

| Run | Instance | What it shows |
|---|---|---|
| `batch` | 2 memories in one batch, 2 goroutines, 2 attempts, 1 fault; with the third memory 2 batches, a full and a partial page; 2 waves | `ResumePointSafe`, `NoSilentDrop`, `NoLimbo` (claim and dead_letter partition the unfinished memories once backoffs ran out), `SiblingsDisjoint`, and `LedgerSpec`: the sweep implements the ledger |
| `overlap` | 1 memory, 2 attempts, 2 faults, fairness | with live timed-out attempts, restarts and store errors: `AtMostOneDone`; `FailureBudget` (the overshoot of MaxAttempts is one activity's attempts plus one row per fault); `HistoryImmutable`; `EveryMemorySettles` and `SweepEnds` |
| `ingest` | 3 uploads over 3 datasets, 1 fault | `BlobFirst`, `AckComplete`, `AcceptedAreRows`, `AcceptedKeepTheirText` (a later upload of the same turn with other words changes no accepted memory), `EvalFindsEveryItem`, `EvalMissesOnlyEdits` (eval misses an acknowledged memory only if another uploaded text got to its turn first), `IngestImplementsLedger` |
| `harness` | 2 conversations, versions 1 and 2 of the ledger, requested versions among them one that is 1 modulo 2^16 and one that is refused | `CorpusCoversPoll` (what the successful poll counted is what eval fetches, once per memory and at one version) |
| `embed` | 3 calls; one text under both prefixes, one that carries a prefix, one embedded as zero; 2 embedders, 2 RPC attempts, 1 re-ask, 1 retry; fairness | `OwnVector`, `HitsAgree`, `PermanentIsUnanimous`, `EveryEmbedReturns` |
| `eval` | 12 fixtures files, two LoCoMo and one LongMemEval file, one missing; 8 settings of the flags; at most 5 rows per corpus; BM25 scores 1 or 2 | `RoundsPartitionTurns`, `GoldIsIndexed`, `EveryTurnCreditable`, `FusionRespectsBothLists`, `BoostCrossesWindowOnly`, `ResultsAreMaximal`, `CreditAtBestRank`, `EveryQuestionCounted`, `GateMeansAllGold` |
| `bridge` | 3 calls (one cut by truncation, one oversize), batches of 2, queue of 1, fairness | `ReplyNeverBlocks`, `NoCallForgotten`, `ImplementsUnary` (refinement of Embedder), `EveryCallReturns` |

Bounds and why they are enough. Two memories per batch give every order of two
goroutines' marks and heartbeats, and a terminal item behind a non-terminal one;
two activity attempts give a retry and giving up; MaxAttempts of 1 or 2 puts
the exhaustion boundary within reach. One fault between any two steps is
enough for each recovery path, two let a fault hit the recovery. In `batch` the
third memory, which makes a second page, comes last, and from then on there is no
fault and one goroutine at a time (`BatchNext`): pages depend on the claim alone,
and the interleavings of two goroutines are those of two memories. The three
datasets of `ingest` are two turns that say the same words, an edited dataset
that names one turn twice, and memories without a turn, two of them alike; three uploads are a
client that gave up, its repetition, and another client. In `bridge` a batch of
two meets every permutation and repetition of indices and has an innocent item
before or after the oversize one; the third call waits at the full queue. In `embed` two calls
race for one key while a third reads it or asks for the same words as a query,
and each loop has one repetition. In `eval` the fixtures enumerate every pattern
of sessions and speakers of three turns; the other files have sessions out of
order, nested and missing evidence, arrays of different length, an abstention and
a clash of ids. The two rankers disagree, some vectors point away from the query
(negative scores), sessions meet their cap. The cutoff `Cut` (5 in the code) is
2 and `SkipDenom` (100) is 3, so that evidence can miss the cutoff and a skip can
be within the budget. `MaxRows`, `MaxFaults`, `MaxBreaks`, `MaxWaves`, `MaxGen` and
`MaxBM25` are the only caps; `MaxWaves` stands for SoftDeadline divided by
interWavePause. The theorems of section 5 hold without any of these
bounds.

`ingest`, `bridge`, `embed`, `harness` and `eval` do not check deadlock: uploads and
calls are used up, and a command exits. All other runs do.

**Fairness.** `FairSpec` assumes weak fairness of the system's own steps taken
together (schedule ticks, workflow, attempts, goroutines, the timeout of an
attempt whose process is gone) and of time. Temporal keeps ticking, retries
activities and times them out; the worker's goroutines run; clocks advance.
Nothing is assumed of uploads, restarts, heartbeat flushes, zombies, or of the
embedder ever succeeding, and faults are finite. `BFairSpec` assumes that the
collector goroutine runs, its 25 ms timer fires and a POST ends (by its 30 s
timeout at the latest), and that a handler whose select is ready proceeds; it
does not assume that any caller ever gives up. `CFairSpec` assumes of each call
that the query or RPC attempt it waits for ends and its timer fires; contexts need
not end, the embedder need not recover.

### Where the code and its comments disagree

Each of these runs checks one statement of the repository and TLC refutes it.

* `doc_backoff`: "past the exponential backoff window of the LATEST failed
  attempt" (`internal/store/enrichment.go:72`). Failures are ordered by
  `attempt`, the Temporal activity attempt, which restarts at 1 with every wave.
* `doc_dead_retried`: "dead-lettered, never retried"
  (`internal/enrich/activities.go:195`). A batch retry embeds all items past the
  watermark again. Such a retry can succeed, and the memory is then both dead
  and done, which `cmd/client/main.go:180` excludes.
* `doc_version_bump`: bumping the version "re-enqueues every memory"
  (`internal/enrich/enrich.go:22`). The existing schedule keeps its version.
* `doc_internal`: "reserves INTERNAL for non-retryable conditions (malformed
  reply, wrong dims, text over the model's hard token limit)"
  (`internal/embed/grpc.go:98`). The bridge answers INTERNAL for any HTTP 4xx of
  the endpoint as well, to every waiter of the batch.
* `doc_dead_waits`: `--fail-on-dead` exits "the moment dead > 0", "if any memory is
  dead-lettered" (`cmd/client/main.go:182`, `:189`), and dead is "`failed AND
  permanent`, or `failed count ≥ max_attempts`" (`docs/04-append-only.md:279`). The
  progress query counts permanent failures only (`cmd/server/main.go:437-440`), so a
  memory that used up its attempts is in `dead_letter` and is waited for until the
  timeout. The instance is that of `harness` with MaxAttempts of 2.

## 4. Findings in context

None of the five breaks the linchpin (`AtMostOneDone`) or loses a memory: a
premature claim costs an embed call, a dead memory that becomes done is a memory
rescued, a batch that met a 429 is dead-lettered, visibly. With `--fail-on-dead`,
wait-enriched reports a memory as dead that was rescued, and waits for one that is
exhausted; after a version bump without deleting the schedule it can only time out.
In each case the exit code is nonzero: a run that should fail does not pass.

## 5. The proofs

TLAPS proves, for every value of the constants that satisfies the assumptions
(`ConstantsAssumption`, `SweepAssumption`, `IngestAssumption`, `HarnessAssumption`,
`BridgeAssumption`, `EmbedAssumption`, `RetrieverAssumption`, `EvalAssumption`,
`EvidenceAssumption`: finite sets of natural-number ids, positive limits, datasets
that are sequences of memories, files of the shape of their format):

* `LedgerProofs`: `LTypeCorrect`, `OneDone`, `History`, `LimboFree`. Every store
  call either leaves a memory's rows alone or appends one row (`StepAppends`), and
  appends a done row only when there was none; this gives both the uniqueness
  and the immutability. `LimboFree` needs types only, but an argument about the
  queries: the claim looks at the failed row of greatest `attempt`, which exists
  because the rows are finitely many (`GreatestInt`), and its window is at most
  `AgeCap`, so a row that old never holds a memory back; what is not exhausted is
  then claimed, what is exhausted is in `dead_letter`.
* `EnrichmentProofs`, first part: `Invariance`, and from it `SweepTypeCorrect`,
  `ResumeSafe`, `ImplementsLedger`, `SweepOneDone`, `SweepHistory`, `SweepLimboFree`.
  `ResumePointSafe` alone is not inductive: a heartbeat detail reaches the
  server through four places (watermark, note of a goroutine, SDK buffer,
  server), so `IInv` says of each of them that it ends a prefix of items with a
  terminal row, that an item about to be marked has its row, and that worker
  state exists only for a running attempt. That terminal rows never disappear
  is the ledger's immutability. The step lemmas go action by action; a general
  lemma (`GoroutineStep`, `ServerStep`, `OneBatch`) reduces each to the batch it
  touches. The sweep then satisfies `LSpec` step by step, and the ledger's
  theorems carry over to the composed system.
* `EnrichmentProofs`, second part: `ClaimInvariance`, and from it
  `SiblingPagesDisjoint`, `NothingDroppedSilently`, `FailuresBounded`. `JInv` is
  proved on top of `IInv`. `SiblingsDisjoint` comes from the pages of one claim
  being windows of one sequence without repetition, and stays because only
  PlanRanges assigns ids. `NoSilentDrop` needs, for a batch that still runs, that
  each of its items is before the resume point, or still to be worked on, or has
  its new row (`NothingDropped`). `FailureBudget` needs a potential: the failures
  of a memory, plus the rows zombies may still write for it, plus the rows the
  remaining attempts of its batch may still write, never exceed the budget
  (`BudgetInv`); a fault is what lets an attempt leave a zombie behind.
* `HarnessProofs`: `HarnessInvariance`, `HarnessTypeCorrect`, `CorpusCovers`.
  `HInv` carries what the poll saw into the fetch: what it
  counted is still among the memories, if the poll succeeded all of it is done at
  the narrowed version (`PollComplete`), and the rows sent and still to be sent
  of a stream together cover it once (`CoverRows`). That others may write in
  between is harmless because of `AtMostOneDone` and the ledger's immutability,
  which are cited from `LedgerProofs`.
* `IngestProofs`: `IngestInvariance`, `IngestTypeCorrect`, `BlobAlwaysFirst`.
  The strengthening is that every key in a handler's `put` map, and the key of a
  row about to be inserted, is in the bucket. `IngestInv` says nothing of how many
  rows there are, so a second invariant, `RowsInv`, is proved on top of it
  (`RowsInvariance`): a turn has one row, every row comes from an item somebody
  uploaded, and a handler's counters add up to the items it is done with, each
  of which has a row, its own if it was accepted. It gives `AckMeansComplete`,
  `AcceptedTextsKept`, `EvalFindsAll` and `EvalMissesEdits`; for the last, an item
  without a turn has a row of its own text, and the row of a turn is of a text some
  upload brought for it. `IngestRefinesLedger` is the refinement:
  every step of an upload is an InsertMemory of the ledger or a stutter. Its
  hypothesis `SequenceLasts` says that the id sequence stays within the ledger's
  finite set of ids: the column is a bigint and the model of the sequence is not
  bounded by `Ids`. `NoRowClaimedTwice` counts: `CountInv` keeps the number of claims
  (pairs of a stream and one of its accepted items) at most the number of rows, and
  the difference at most the faults so far, through every interleaving of
  handlers; it needs that a stream without a handler has accepted nothing
  (`UnopenedInv`).
* `BridgeProofs`: `BridgeInvariance`, `BridgeTyped`, `CollectorNeverBlocks`,
  `NoneForgotten`, `BridgeIsUnary`. `BInv` adds to the properties that a call not yet queued has
  left no trace, that delivery starts at the first item, and that every result
  in a reply channel or in `results` is one its call may get. The core is about
  embedBatch: n entries that pass its checks name every index (`EveryIndexNamed`,
  by counting), so each item has its own vector (`OwnVector`), and "too large"
  reaches a waiter only from a POST of its text alone (`FlushLegitimate`).
* `EmbedClientProofs`: `CTypeCorrect`, `OwnVectorHolds`, `HitsAgreeHolds`,
  `PermanentIsUnanimousHolds`, for any number of calls, texts, embedders and any
  retry bounds. `CInv` adds that every cached row has a good vector of its own
  key and is the only one of it, that a call answered from the cache got a row
  that is still there, that a call about to store holds a good vector, and that
  the streak of permanent errors is at least the number of re-asks. Every action
  changes one call and at most adds a row (`OneCall`, `ReturnStep`, `MoveStep`).
* `EvalProofs`, the search: `EvalInvariance`, `FusionIsFair`, `BoostIsFair`,
  `SearchIsMaximal`, `TurnsStayCreditable`, for any files, flags, corpora and
  questions. The lists of
  `Retriever` are sorted by counting the entries ahead of each, so the central
  lemma is that a finite set without ties is enumerated once by its counts (a
  pigeonhole argument). The scores of the fusion share the product
  of all denominators, a recursive function: that it is divisible by each of
  them, so that a better rank has a greater share, is proved by induction.
  `EvalInv` says that the corpus is finite with distinct ids, that each list is a
  ranking of rows of the corpus, and of the MMR loop that what was selected is
  distinct, within the caps, and starts with the best. `CorpusInv` adds
  which rows the corpus holds; `TurnsStayCreditable` then follows. Its exception (with
  granularity round, a turn none of whose rounds was fetched) is one the filter makes.
  `BoostIsFair` has no assumption on scores: a candidate of negative score in the
  window falls, as in the code, and only such a one does. Turn ids are
  numbers in the model, so no turn is named like a round ("3+4") of its
  conversation.
* `EvalProofs`, the dataset: `RoundsPartition`, `EvidenceIsIndexed`, for files of any
  size. The rounds are a recursive function over the turns; the induction carries
  that the rounds so far flatten to the turns so far, that a pair is an exchange,
  and that no single turn could have been answered by the round after it.
  `EvidenceIsIndexed` goes through the three loaders: the items and the evidence of
  a LongMemEval question are concatenations over the same sessions, so a has_answer
  turn at place k of a session is item k of that session, with the same id. For
  fixtures and LoCoMo the evidence is the file's own, hence `EvidenceAssumption`:
  it names turns of the file (`internal/eval/fixtures.go:26`). No other theorem uses
  that assumption.
* `EvalProofs`, the account: `CreditIsAtBestRank`, `AccountInvariance`,
  `QuestionsAreCounted`, `GateHolds`. Credit is about expandRetrieved alone: the
  entry of a concatenation comes from one part, parts have at most two entries, and
  what a dedup keeps is the first mention, in order. `EveryQuestionCounted`
  is not inductive: nothing in it says how far the loops are. `AccountInv`
  counts the pairs of conversation and question before the current one
  (`AskedUntil`); these are as many as `total`, which is the recorded, the skipped
  and the one being searched, and every recorded result is a list with a finite
  set of evidence. When the loops are through, all pairs are asked. What
  Evaluate makes of the results (`EvaluateReports`) is arithmetic over sums: each
  recall is at most `Scale`, and at most `Cut` times the reciprocal rank, since a hit
  within the cutoff has a rank of at most `Cut`; the numbers of the groups add up to
  the scored ones (`GroupsSplit`). A mean recall of 1 then means that every share
  is whole (`SumFull`), which is the gate; with fewer than `SkipDenom` questions
  one skip is over the budget.

The assumptions on files (`EvalAssumption`) are what decoding their format gives:
lists are sequences, ids numbers, the session keys of a LoCoMo sample finitely
many. `Scale % Cut = 0` holds of the code's cutoff 5 and of the instance's 2; where a
number of evidence turns or a rank does not divide `Scale`, the scaled share is
rounded down, and the theorems hold of the rounded values as well.

`DataFacts` holds the facts about data the others use. The library's induction
theorems take a predicate as a parameter; `NatSetInduction` is stated of a set
of numbers instead, from the well-foundedness of the naturals, so that an
instance is an ordinary set and first-order. From it come the existence of
functions defined by recursion over the places of a sequence
(`RecursionExists`), the enumeration of a finite set of numbers in increasing
order (`IncreasingOrder`, which is what a loop with `continue` collects), the
entries of a concatenation and the part each comes from (`JoinBlocks`), and
sums: their bounds and comparison, and that a sum at its bound has every term at
its bound.

The inductive invariants `IInv`, `JInv`, `HInv`, `IngestInv`, `RowsInv`, `BInv`,
`EvalInv` and `AccountInv` were model-checked on the instances above before they
were proved.

Every invariant and action property of a passing run is now stated by a theorem.
Only model-checked: liveness (`EveryMemorySettles`, `SweepEnds`,
`EveryCallReturns`, `EveryEmbedReturns`), which needs fairness and ENABLED and is
out of the prover's reach; and the five refuted statements of section 3, whose
counterexamples are TLC's.

## 6. What could follow

1. A theorem that the report of `Eval` refines a direct definition of the metrics
   over exact fractions, once rationals are within the prover's reach.
2. NDCG and the BM25 formula, which need logarithms.
3. Liveness of the sweep and of the bridge by a proof, with a prover for ENABLED.

## 7. Not modelled

* Tokenising, normalisation, stop words and the date grammars: regular expressions
  and libraries; a question's lexemes, vector and dates are inputs of `Retriever`.
* BM25's formula and NDCG: logarithms. Rounding of floats.
* The hard filter of TemporalAdjust, CopyMemories and `latest_enrichment`: no caller.
* JSON decoding, packing of vectors, printReport and reportCacheRows: pure input
  and output.
* Migrations, configuration, dialling, shutdown, generated code, the latency and
  the probabilities of the mock embedder.

`PROJECT.json` lists every part with its reason, the correspondence of definitions
and source lines, and the hazards each property is aimed at.
