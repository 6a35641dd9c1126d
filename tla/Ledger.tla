------------------------------- MODULE Ledger -------------------------------
(***************************************************************************)
(* The Postgres side of agentmem: the memories table and the append-only   *)
(* enrichment ledger memory_enrichment_events, with the INSERT-only store  *)
(* API over them and every query the program derives "current state" with: *)
(* the pending claim, dead_letter, enrichment_progress and the             *)
(* version-pinned fetch.                                                   *)
(*                                                                         *)
(* Rows of the ledger are kept per memory, in id order: no query compares  *)
(* the ids of two memories' rows.  created_at is kept as the row's age,    *)
(* now() - created_at, saturated at AgeCap: every query compares an age    *)
(* with a backoff window shorter than AgeCap, so saturation loses nothing  *)
(* and time may pass for ever.                                             *)
(***************************************************************************)
EXTENDS Integers, Sequences, FiniteSets

CONSTANTS Memories,      \* ids the memories table may hand out
          Versions,      \* enrichment versions (smallint)
          MaxAttempts,   \* PGStore.MaxAttempts: failures until exhausted
          BackoffBase,   \* PGStore.BackoffBase, in units of TimePasses
          ActAttempts    \* RetryPolicy.MaximumAttempts of an activity

ASSUME ConstantsAssumption ==
    /\ Memories \subseteq Nat
    /\ IsFiniteSet(Memories)
    /\ Versions \subseteq Nat \ {0}
    /\ MaxAttempts \in Nat \ {0}
    /\ BackoffBase \in Nat \ {0}
    /\ ActAttempts \in Nat \ {0}

VARIABLES memories,      \* ids of the committed rows of table memories
          events,        \* events[m]: the ledger rows of m, in id order
          age            \* age[m][i]: now() - created_at of events[m][i]

lvars == <<memories, events, age>>

Row == [version : Versions, attempt : Nat,
        status : {"done", "failed"}, permanent : BOOLEAN]

Lesser(a, b) == IF a < b THEN a ELSE b

(* ($3::interval * power(2, LEAST(n_fail, 6))) *)
Window(n) == BackoffBase * (2 ^ Lesser(n, 6))

(* No claim depends on a window longer than Window(MaxAttempts - 1); one   *)
(* more, so that saturation does not hide a claim past exhaustion.         *)
AgeCap == Window(MaxAttempts) + 1

-----------------------------------------------------------------------------
(* Derived state: the queries.                                             *)

DoneRows(m, v) ==
    {i \in DOMAIN events[m] : /\ events[m][i].version = v
                              /\ events[m][i].status = "done"}

FailedRows(m, v) ==
    {i \in DOMAIN events[m] : /\ events[m][i].version = v
                              /\ events[m][i].status = "failed"}

HasDone(m, v) == DoneRows(m, v) # {}

HasPermanent(m, v) == \E i \in FailedRows(m, v) : events[m][i].permanent

NFail(m, v) == Cardinality(FailedRows(m, v))

(* (array_agg(created_at ORDER BY attempt DESC, id DESC))[1] *)
LastFail(m, v) ==
    CHOOSE i \in FailedRows(m, v) :
        \A j \in FailedRows(m, v) :
            \/ events[m][j].attempt < events[m][i].attempt
            \/ events[m][j].attempt = events[m][i].attempt /\ j <= i

PastBackoff(m, v) ==
    \/ FailedRows(m, v) = {}
    \/ age[m][LastFail(m, v)] > Window(NFail(m, v))

(* Mutant: exhaustion is tested with <= instead of <. *)
Pending_OneMore(v) ==
    {m \in memories : /\ ~HasDone(m, v)
                      /\ ~HasPermanent(m, v)
                      /\ NFail(m, v) <= MaxAttempts
                      /\ PastBackoff(m, v)}

(* pendingCoreSQL: the claim, CountBacklog and IsPending share it. *)
Pending(v) ==
    {m \in memories : /\ ~HasDone(m, v)
                      /\ ~HasPermanent(m, v)
                      /\ NFail(m, v) < MaxAttempts
                      /\ PastBackoff(m, v)}

(* Mutant: exhaustion is tested with > where the claim uses <. *)
DeadLetter_OffByOne(v) ==
    {m \in memories : /\ ~HasDone(m, v)
                      /\ HasPermanent(m, v) \/ NFail(m, v) > MaxAttempts}

(* The SQL function dead_letter. *)
DeadLetter(v) ==
    {m \in memories : /\ ~HasDone(m, v)
                      /\ HasPermanent(m, v) \/ NFail(m, v) >= MaxAttempts}

(* The SQL function enrichment_progress over the memories S of a           *)
(* conversation (or of all of them).                                       *)
Progress(S, v) ==
    [total     |-> Cardinality(S),
     done      |-> Cardinality({m \in S : HasDone(m, v)}),
     remaining |-> Cardinality({m \in S : ~HasDone(m, v)}),
     dead      |-> Cardinality({m \in S : HasPermanent(m, v)})]

(* fetchAtVersionSQL: one corpus entry per done row at v of a memory in S. *)
FetchAtVersion(S, v) == UNION {{m} \X DoneRows(m, v) : m \in S}

-----------------------------------------------------------------------------
(* The store API: every write is an INSERT.                                *)

AppendRow(m, r) ==
    /\ events' = [events EXCEPT ![m] = Append(@, r)]
    /\ age' = [age EXCEPT ![m] = Append(@, 0)]

(* A row of table memories commits.  Concurrent uploads may commit out of  *)
(* id order, and a rejected insert burns its id: any unused id may come.   *)
InsertMemory(m) ==
    /\ m \notin memories
    /\ memories' = memories \cup {m}
    /\ UNCHANGED <<events, age>>

DoneRow(v, a) ==
    [version |-> v, attempt |-> a, status |-> "done", permanent |-> FALSE]

(* Mutant: the done insert without its conflict arbiter. *)
InsertDone_NoArbiter(m, v, a) ==
    AppendRow(m, DoneRow(v, a)) /\ UNCHANGED memories

(* Mutant: ON CONFLICT DO UPDATE, the later success replaces the earlier. *)
InsertDone_Upsert(m, v, a) ==
    /\ IF HasDone(m, v)
       THEN /\ events' = [events EXCEPT ![m] =
                   [i \in DOMAIN @ |-> IF i \in DoneRows(m, v)
                                       THEN DoneRow(v, a) ELSE @[i]]]
            /\ UNCHANGED age
       ELSE AppendRow(m, DoneRow(v, a))
    /\ UNCHANGED memories

(* InsertEnrichmentDone: ON CONFLICT (memory, version) WHERE status='done' *)
(* DO NOTHING.                                                             *)
InsertDone(m, v, a) ==
    /\ IF HasDone(m, v) THEN UNCHANGED <<events, age>>
                        ELSE AppendRow(m, DoneRow(v, a))
    /\ UNCHANGED memories

(* InsertEnrichmentFailed: never deduplicated. *)
InsertFailed(m, v, a, p) ==
    /\ AppendRow(m, [version |-> v, attempt |-> a,
                     status |-> "failed", permanent |-> p])
    /\ UNCHANGED memories

(* now() advances by one unit. *)
TimePasses ==
    /\ age' = [m \in Memories |->
                 [i \in DOMAIN age[m] |-> Lesser(age[m][i] + 1, AgeCap)]]
    /\ UNCHANGED <<memories, events>>

LInit ==
    /\ memories = {}
    /\ events = [m \in Memories |-> <<>>]
    /\ age = [m \in Memories |-> <<>>]

(* A row references a memory (memory_id REFERENCES memories(id)). *)
LNext ==
    \/ \E m \in Memories : InsertMemory(m)
    \/ \E m \in memories, v \in Versions, a \in 1..ActAttempts :
          \/ InsertDone(m, v, a)
          \/ \E p \in BOOLEAN : InsertFailed(m, v, a, p)
    \/ TimePasses

LSpec == LInit /\ [][LNext]_lvars

-----------------------------------------------------------------------------
(* Properties.                                                             *)

(* Types of the tables; a row's age exists exactly when the row does, and  *)
(* only committed memories have rows (the foreign key of 00002).           *)
LTypeOK ==
    /\ memories \subseteq Memories
    /\ events \in [Memories -> Seq(Row)]
    /\ age \in [Memories -> Seq(0..AgeCap)]
    /\ \A m \in Memories : /\ Len(age[m]) = Len(events[m])
                           /\ m \notin memories => events[m] = <<>>

(* uq_enrich_success, the "linchpin": however many attempts, retries and   *)
(* zombies report success, a memory has at most one done row per version.  *)
AtMostOneDone ==
    \A m \in Memories, v \in Versions :
        \A i, j \in DoneRows(m, v) : i = j

(* The claim of pendingCoreSQL and the independently written dead_letter   *)
(* leave no limbo: once every backoff window has run out, each memory is   *)
(* exactly one of done, dead-lettered and claimable.                       *)
NoLimbo ==
    \A m \in memories, v \in Versions :
        LET inDone == HasDone(m, v)
            inDead == m \in DeadLetter(v)
            inPending == m \in Pending(v)
        IN  /\ ~(inDone /\ inDead) /\ ~(inDone /\ inPending)
            /\ ~(inDead /\ inPending)
            /\ (\A i \in DOMAIN age[m] : age[m][i] = AgeCap)
                  => inDone \/ inDead \/ inPending

(* Append-only, as a reader of the corpus sees it: a row that a            *)
(* version-pinned fetch returned is returned unchanged by every later one, *)
(* and history before it is never rewritten.                               *)
HistoryStep ==
    \A m \in Memories :
        \A i \in DOMAIN events[m] : /\ i \in DOMAIN events'[m]
                                    /\ events'[m][i] = events[m][i]
HistoryImmutable == [][HistoryStep]_lvars
=============================================================================
