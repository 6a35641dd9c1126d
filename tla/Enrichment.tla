----------------------------- MODULE Enrichment -----------------------------
(***************************************************************************)
(* The enrichment sweep of agentmem: the Temporal schedule, the sweep      *)
(* workflow, the ProcessBatch activity with its errgroup of embedding      *)
(* goroutines, heartbeats, activity retries and resumption, on top of the  *)
(* ledger of module Ledger.                                                *)
(*                                                                         *)
(* batch[b] is what the Temporal server knows of the b-th activity of the  *)
(* current wave; run[b] is the memory of the worker goroutines executing   *)
(* its current attempt, lost with the process.  An attempt that the server *)
(* has timed out while its goroutines are still alive leaves zombies.      *)
(***************************************************************************)
EXTENDS Ledger

CONSTANTS BatchSize,        \* ids per ProcessBatch
          FanOut,           \* ProcessBatch activities per wave
          EmbedConcurrency, \* errgroup limit inside ProcessBatch
          MaxWaves,         \* SoftDeadline / interWavePause
          MaxFaults         \* bound: restarts, timeouts, store/source errors

ASSUME SweepAssumption ==
    /\ BatchSize \in Nat \ {0}
    /\ FanOut \in Nat \ {0}
    /\ EmbedConcurrency \in Nat \ {0}
    /\ MaxWaves \in Nat \ {0}
    /\ MaxFaults \in Nat

VARIABLES deployed,  \* ENRICHMENT_VERSION of the running server, 0: none yet
          schedule,  \* SweepInput.Version of the Temporal schedule, 0: none
          sweep,     \* the workflow run: pc, version, waves
          batch,     \* server-side state of the wave's activities
          run,       \* worker-side state of their current attempts
          zombies,   \* items of timed-out attempts still in flight
          faults     \* faults so far

svars == <<deployed, schedule, sweep, batch, run, zombies, faults>>
vars == <<lvars, svars>>

Batches == 1..FanOut
Items == 1..BatchSize

NoBatch == [st |-> "none", ids |-> <<>>, attempt |-> 0, hb |-> 0,
            claimed |-> <<>>]

NoRun == [item |-> [i \in Items |-> "end"], terminal |-> {}, watermark |-> 0,
          note |-> [i \in Items |-> 0], buffered |-> -1,
          done |-> FALSE, failed |-> FALSE, err |-> FALSE]

Idle == [pc |-> "idle", version |-> 0, waves |-> 0]

IdsOf(b) == {batch[b].ids[i] : i \in DOMAIN batch[b].ids}

(* done or dead-lettered: what progress.mark stands for *)
Terminal(m, v) == HasDone(m, v) \/ HasPermanent(m, v)

Init ==
    /\ LInit
    /\ deployed = 0
    /\ schedule = 0
    /\ sweep = Idle
    /\ batch = [b \in Batches |-> NoBatch]
    /\ run = [b \in Batches |-> NoRun]
    /\ zombies = {}
    /\ faults = 0

Fault == faults < MaxFaults /\ faults' = faults + 1

-----------------------------------------------------------------------------
(* The server process and the schedule.                                    *)

(* EnsureSchedule: create it with the configured version; "already exists" *)
(* is swallowed and leaves the stored action's arguments as they are.      *)
EnsureSchedule(v) == schedule' = IF schedule = 0 THEN v ELSE schedule

(* The server process starts with ENRICHMENT_VERSION = v.  A later start   *)
(* ends the previous process, and with it every attempt it was executing   *)
(* and every heartbeat it had buffered.                                    *)
ServerStart(v) ==
    /\ IF deployed = 0 THEN UNCHANGED faults ELSE Fault
    /\ deployed' = v
    /\ EnsureSchedule(v)
    /\ batch' = [b \in Batches |->
                   IF batch[b].st = "running"
                   THEN [batch[b] EXCEPT !.st = "lost"] ELSE batch[b]]
    /\ run' = [b \in Batches |-> NoRun]
    /\ zombies' = {}
    /\ UNCHANGED <<lvars, sweep>>

(* UploadMemories commits the row of a new memory (module Ingest). *)
UploadMemory(m) ==
    /\ deployed # 0
    /\ InsertMemory(m)
    /\ UNCHANGED svars

(* A schedule tick, or TriggerNow: with overlap policy Skip it does        *)
(* nothing while a sweep is running.                                       *)
ScheduleFires ==
    /\ schedule # 0
    /\ sweep.pc = "idle"
    /\ sweep' = [pc |-> "count", version |-> schedule, waves |-> 0]
    /\ UNCHANGED <<lvars, deployed, schedule, batch, run, zombies, faults>>

Time == TimePasses /\ UNCHANGED svars

-----------------------------------------------------------------------------
(* EnrichmentSweepWorkflow.  Its state is Temporal's history: it survives  *)
(* the worker.                                                             *)

CountBacklog ==
    /\ sweep.pc = "count"
    /\ sweep' = IF Pending(sweep.version) = {} THEN Idle
                ELSE [sweep EXCEPT !.pc = "plan"]
    /\ UNCHANGED <<lvars, deployed, schedule, batch, run, zombies, faults>>

(* CountBacklog or PlanRanges fails for good: the workflow returns the     *)
(* error and the next tick starts over.                                    *)
SweepFails ==
    /\ sweep.pc \in {"count", "plan"}
    /\ sweep' = Idle
    /\ Fault
    /\ UNCHANGED <<lvars, deployed, schedule, batch, run, zombies>>

(* s is the result of SELECT ... FROM P ORDER BY id LIMIT limit. *)
IsSnapshot(s, P, limit) ==
    /\ \A i, j \in DOMAIN s : i < j => s[i] < s[j]
    /\ \A m \in P : \/ \E i \in DOMAIN s : s[i] = m
                    \/ /\ Len(s) = limit
                       /\ \A i \in DOMAIN s : s[i] < m

Snapshots(P, limit) ==
    {s \in UNION {[1..k -> P] : k \in 0..Lesser(limit, Cardinality(P))} :
        IsSnapshot(s, P, limit)}

(* Mutant: consecutive pages share their boundary id. *)
Page_Overlap(s, b) ==
    SubSeq(s, Lesser((b - 1) * BatchSize + 1, Len(s)),
              Lesser(b * BatchSize, Len(s)))

(* The b-th page of the snapshot. *)
Page(s, b) == SubSeq(s, (b - 1) * BatchSize + 1, Lesser(b * BatchSize, Len(s)))

Scheduled(ids, v) ==
    IF ids = <<>> THEN NoBatch
    ELSE [st |-> "queued", ids |-> ids, attempt |-> 1, hb |-> 0,
          claimed |-> [i \in DOMAIN ids |-> NFail(ids[i], v)]]

(* PlanRanges, and the fan-out of its pages as ProcessBatch activities.    *)
(* claimed records, for the properties only, the failures of each id at    *)
(* the time it was claimed.                                                *)
PlanRanges ==
    /\ sweep.pc = "plan"
    /\ \E s \in Snapshots(Pending(sweep.version), BatchSize * FanOut) :
          IF s = <<>> THEN sweep' = Idle /\ UNCHANGED batch
          ELSE /\ sweep' = [sweep EXCEPT !.pc = "await"]
               /\ batch' = [b \in Batches |->
                              Scheduled(Page(s, b), sweep.version)]
    /\ UNCHANGED <<lvars, deployed, schedule, run, zombies, faults>>

(* Every future has resolved; a failed batch is only logged. *)
AwaitAll ==
    /\ sweep.pc = "await"
    /\ \A b \in Batches : batch[b].st \in {"none", "ok", "failed"}
    /\ sweep' = [sweep EXCEPT !.pc = "sleep"]
    /\ batch' = [b \in Batches |-> NoBatch]
    /\ UNCHANGED <<lvars, deployed, schedule, run, zombies, faults>>

(* workflow.Sleep(interWavePause), then the loop's deadline test: a wave   *)
(* takes at least the pause, so the deadline has passed after MaxWaves     *)
(* waves, and may have passed before.                                      *)
Wake ==
    /\ sweep.pc = "sleep"
    /\ TimePasses
    /\ \/ sweep' = Idle
       \/ /\ sweep.waves + 1 < MaxWaves
          /\ sweep' = [sweep EXCEPT !.pc = "count", !.waves = @ + 1]
    /\ UNCHANGED <<deployed, schedule, batch, run, zombies, faults>>

-----------------------------------------------------------------------------
(* ProcessBatch.                                                           *)

(* Mutant: a retry policy without MaximumAttempts. *)
AttemptFails_Unbounded(b, hb) ==
    /\ batch' = [batch EXCEPT ![b] =
                   [@ EXCEPT !.st = "queued", !.attempt = @ + 1, !.hb = hb]]
    /\ run' = [run EXCEPT ![b] = NoRun]

(* The attempt of b ends in an error, hb being the last heartbeat detail   *)
(* the server has: the retry policy schedules the next one, or gives up.   *)
AttemptFails(b, hb) ==
    /\ batch' = [batch EXCEPT ![b] =
                   IF batch[b].attempt < ActAttempts
                   THEN [batch[b] EXCEPT !.st = "queued", !.hb = hb,
                                         !.attempt = batch[b].attempt + 1]
                   ELSE [batch[b] EXCEPT !.st = "failed", !.hb = hb]]
    /\ run' = [run EXCEPT ![b] = NoRun]

(* The attempt starts: it resumes at the recorded heartbeat detail, and is *)
(* done at once when nothing is left; else FetchTexts resolves the rest.   *)
StartAttempt(b) ==
    /\ batch[b].st = "queued"
    /\ LET startIdx == batch[b].hb
           n == Len(batch[b].ids)
       IN  IF startIdx >= n
           THEN batch' = [batch EXCEPT ![b].st = "ok"] /\ UNCHANGED run
           ELSE /\ batch' = [batch EXCEPT ![b].st = "running"]
                /\ run' = [run EXCEPT ![b] =
                     [NoRun EXCEPT
                        !.item = [i \in Items |-> IF i \in (startIdx + 1)..n
                                                  THEN "todo" ELSE "end"],
                        !.terminal = 1..startIdx,
                        !.watermark = startIdx]]
    /\ UNCHANGED <<lvars, deployed, schedule, sweep, zombies, faults>>

(* FetchTexts fails (Postgres or S3): the activity fails before any item. *)
FetchTextsFails(b) ==
    /\ batch[b].st = "queued"
    /\ batch[b].hb < Len(batch[b].ids)
    /\ Fault
    /\ AttemptFails(b, batch[b].hb)
    /\ UNCHANGED <<lvars, deployed, schedule, sweep, zombies>>

(* Goroutine i gets a slot of the errgroup and calls EmbedDocument(gctx):  *)
(* once a sibling's error has cancelled gctx the call can only fail.       *)
StartItem(b, i) ==
    /\ batch[b].st = "running"
    /\ run[b].item[i] = "todo"
    /\ \A j \in 1..(i - 1) : run[b].item[j] # "todo"
    /\ Cardinality({j \in Items : run[b].item[j] \notin {"todo", "end"}})
         < EmbedConcurrency
    /\ run' = [run EXCEPT ![b] =
                 [@ EXCEPT !.item[i] = IF run[b].err THEN "doomed" ELSE "embed"]]
    /\ UNCHANGED <<lvars, deployed, schedule, sweep, batch, zombies, faults>>

(* Mutant: attempts are counted from zero. *)
ItemDone_ZeroBased(b, i) ==
    /\ run[b].item[i] = "embed"
    /\ InsertDone(batch[b].ids[i], sweep.version, batch[b].attempt - 1)
    /\ run' = [run EXCEPT ![b] = [@ EXCEPT !.item[i] = "mark", !.done = TRUE]]
    /\ UNCHANGED <<deployed, schedule, sweep, batch, zombies, faults>>

(* The vector came back and the done row is appended. *)
ItemDone(b, i) ==
    /\ run[b].item[i] = "embed"
    /\ InsertDone(batch[b].ids[i], sweep.version, batch[b].attempt)
    /\ run' = [run EXCEPT ![b] = [@ EXCEPT !.item[i] = "mark", !.done = TRUE]]
    /\ UNCHANGED <<deployed, schedule, sweep, batch, zombies, faults>>

(* The embed call failed, p: permanently, and the failed row is appended.  *)
(* Only a permanent failure is terminal.                                   *)
ItemFailed(b, i, p) ==
    /\ run[b].item[i] \in {"embed", "doomed"}
    /\ InsertFailed(batch[b].ids[i], sweep.version, batch[b].attempt, p)
    /\ run' = [run EXCEPT ![b] =
                 [@ EXCEPT !.item[i] = IF p THEN "mark" ELSE "current",
                           !.failed = run[b].failed \/ ~p]]
    /\ UNCHANGED <<deployed, schedule, sweep, batch, zombies, faults>>

(* The insert returns an error, whether or not the row was committed: the  *)
(* goroutine returns it and the errgroup cancels gctx.                     *)
ItemStoreError(b, i) ==
    /\ run[b].item[i] \in {"embed", "doomed"}
    /\ Fault
    /\ LET m == batch[b].ids[i]
           v == sweep.version
           a == batch[b].attempt
       IN  \/ UNCHANGED lvars
           \/ run[b].item[i] = "embed" /\ InsertDone(m, v, a)
           \/ \E p \in BOOLEAN : InsertFailed(m, v, a, p)
    /\ run' = [run EXCEPT ![b] = [@ EXCEPT !.item[i] = "end", !.err = TRUE]]
    /\ UNCHANGED <<deployed, schedule, sweep, batch, zombies>>

(* Mutant: the watermark counts terminal items instead of the prefix. *)
Advances_Count(b, i, w) == w = Cardinality(run[b].terminal \cup {i})

(* progress.mark's loop: w ends the contiguous terminal prefix. *)
Advances(b, i, w) ==
    LET terminal == run[b].terminal \cup {i}
    IN  /\ w >= run[b].watermark
        /\ \A k \in (run[b].watermark + 1)..w : k \in terminal
        /\ w + 1 \in 1..Len(batch[b].ids) => w + 1 \notin terminal

(* prog.mark(i), under its mutex; the value is then RecordHeartbeat's. *)
Mark(b, i) ==
    /\ run[b].item[i] = "mark"
    /\ \E w \in 0..Len(batch[b].ids) :
          /\ Advances(b, i, w)
          /\ run' = [run EXCEPT ![b] =
                       [@ EXCEPT !.item[i] = "beat", !.note[i] = w,
                                 !.watermark = w,
                                 !.terminal = run[b].terminal \cup {i}]]
    /\ UNCHANGED <<lvars, deployed, schedule, sweep, batch, zombies, faults>>

(* prog.current() *)
Current(b, i) ==
    /\ run[b].item[i] = "current"
    /\ run' = [run EXCEPT ![b] =
                 [@ EXCEPT !.item[i] = "beat", !.note[i] = run[b].watermark]]
    /\ UNCHANGED <<lvars, deployed, schedule, sweep, batch, zombies, faults>>

(* activity.RecordHeartbeat: outside the mutex, so an older watermark may  *)
(* follow a newer one.  The SDK throttles: it keeps the latest detail.     *)
RecordHeartbeat(b, i) ==
    /\ run[b].item[i] = "beat"
    /\ run' = [run EXCEPT ![b] =
                 [@ EXCEPT !.item[i] = "end", !.note[i] = 0,
                           !.buffered = run[b].note[i]]]
    /\ UNCHANGED <<lvars, deployed, schedule, sweep, batch, zombies, faults>>

(* The SDK sends the buffered detail to the server. *)
FlushHeartbeat(b) ==
    /\ run[b].buffered # -1
    /\ batch' = [batch EXCEPT ![b].hb = run[b].buffered]
    /\ run' = [run EXCEPT ![b].buffered = -1]
    /\ UNCHANGED <<lvars, deployed, schedule, sweep, zombies, faults>>

(* Mutant: the error of g.Wait is dropped. *)
Finish_DropsError(b) ==
    /\ batch[b].st = "running"
    /\ \A i \in Items : run[b].item[i] = "end"
    /\ IF run[b].failed /\ ~run[b].done
       THEN AttemptFails(b, IF run[b].buffered = -1 THEN batch[b].hb
                            ELSE run[b].buffered)
       ELSE /\ batch' = [batch EXCEPT ![b].st = "ok"]
            /\ run' = [run EXCEPT ![b] = NoRun]
    /\ UNCHANGED <<lvars, deployed, schedule, sweep, zombies, faults>>

(* g.Wait returned: the attempt fails on a store error, or when every      *)
(* retryable item failed and none succeeded (the SDK then flushes the      *)
(* buffered detail); else the activity completes.                          *)
Finish(b) ==
    /\ batch[b].st = "running"
    /\ \A i \in Items : run[b].item[i] = "end"
    /\ IF run[b].err \/ (run[b].failed /\ ~run[b].done)
       THEN AttemptFails(b, IF run[b].buffered = -1 THEN batch[b].hb
                            ELSE run[b].buffered)
       ELSE /\ batch' = [batch EXCEPT ![b].st = "ok"]
            /\ run' = [run EXCEPT ![b] = NoRun]
    /\ UNCHANGED <<lvars, deployed, schedule, sweep, zombies, faults>>

(* Mutant: no HeartbeatTimeout, a lost attempt is never noticed. *)
LostTimesOut_Never(b) == FALSE /\ UNCHANGED vars

(* The server times out an attempt whose process is gone. *)
LostTimesOut(b) ==
    /\ batch[b].st = "lost"
    /\ AttemptFails(b, batch[b].hb)
    /\ UNCHANGED <<lvars, deployed, schedule, sweep, zombies, faults>>

(* Items the timed-out attempt of b may still write rows for. *)
InFlight(b) ==
    {[id |-> batch[b].ids[i], version |-> sweep.version,
      attempt |-> batch[b].attempt, tag |-> faults,
      embeds |-> ~run[b].err \/ run[b].item[i] = "embed"] :
        i \in {j \in Items : run[b].item[j] \in {"todo", "embed", "doomed"}}}

(* The server times out an attempt that is alive but did not heartbeat     *)
(* (one embed call may outlast the 15s HeartbeatTimeout).                  *)
SlowTimesOut(b) ==
    /\ batch[b].st = "running"
    /\ Fault
    /\ zombies' = zombies \cup InFlight(b)
    /\ AttemptFails(b, batch[b].hb)
    /\ UNCHANGED <<lvars, deployed, schedule, sweep>>

(* A zombie item writes its row, or ends: its next heartbeat is refused,   *)
(* which cancels its context before it writes.                             *)
ZombieStep(z) ==
    /\ \/ z.embeds /\ InsertDone(z.id, z.version, z.attempt)
       \/ \E p \in BOOLEAN : InsertFailed(z.id, z.version, z.attempt, p)
       \/ UNCHANGED lvars
    /\ zombies' = zombies \ {z}
    /\ UNCHANGED <<deployed, schedule, sweep, batch, run, faults>>

-----------------------------------------------------------------------------
ItemStep(b, i) ==
    \/ StartItem(b, i) \/ ItemDone(b, i)
    \/ \E p \in BOOLEAN : ItemFailed(b, i, p)
    \/ Mark(b, i) \/ Current(b, i) \/ RecordHeartbeat(b, i)

(* What the running system keeps doing. *)
SystemStep ==
    \/ ScheduleFires \/ CountBacklog \/ PlanRanges \/ AwaitAll \/ Wake
    \/ \E b \in Batches :
          \/ StartAttempt(b) \/ Finish(b) \/ LostTimesOut(b)
          \/ \E i \in Items : ItemStep(b, i)

FaultStep ==
    \/ SweepFails
    \/ \E b \in Batches :
          \/ FetchTextsFails(b) \/ SlowTimesOut(b)
          \/ \E i \in Items : ItemStoreError(b, i)

Next ==
    \/ SystemStep
    \/ FaultStep
    \/ \E v \in Versions : ServerStart(v)
    \/ \E m \in Memories : UploadMemory(m)
    \/ \E b \in Batches : FlushHeartbeat(b)
    \/ \E z \in zombies : ZombieStep(z)
    \/ Time

Spec == Init /\ [][Next]_vars

(* The worker, Temporal and the clock keep going; uploads, restarts,       *)
(* faults, heartbeat flushes and zombies are never owed.                   *)
FairSpec == Spec /\ WF_vars(SystemStep) /\ WF_vars(Time)

-----------------------------------------------------------------------------
(* Properties.                                                             *)

BatchRec == [st : {"none", "queued", "running", "lost", "ok", "failed"},
             ids : Seq(Memories), attempt : 0..ActAttempts,
             hb : 0..BatchSize, claimed : Seq(Nat)]

RunRec == [item : [Items -> {"todo", "embed", "doomed", "mark", "current",
                             "beat", "end"}],
           terminal : SUBSET Items, watermark : 0..BatchSize,
           note : [Items -> 0..BatchSize], buffered : -1..BatchSize,
           done : BOOLEAN, failed : BOOLEAN, err : BOOLEAN]

ZombieRec == [id : Memories, version : Versions, attempt : 1..ActAttempts,
              tag : 0..MaxFaults, embeds : BOOLEAN]

(* Types of the sweep's state, server side and worker side. *)
STypeOK ==
    /\ deployed \in Versions \cup {0}
    /\ schedule \in Versions \cup {0}
    /\ sweep \in [pc : {"idle", "count", "plan", "await", "sleep"},
                  version : Versions \cup {0}, waves : 0..(MaxWaves - 1)]
    /\ batch \in [Batches -> BatchRec]
    /\ run \in [Batches -> RunRec]
    /\ zombies \subseteq ZombieRec
    /\ faults \in 0..MaxFaults

(* Every step of the sweep is one call of the insert-only store API (or    *)
(* none): the sweep implements the ledger specification.                   *)
LedgerSpec == LSpec

(* A retry resumes at the recorded heartbeat detail and never looks at the *)
(* items before it: each of those has its done or permanent row, whatever  *)
(* the order in which goroutines heartbeat and whatever was lost in a      *)
(* crash.                                                                  *)
ResumePointSafe ==
    \A b \in Batches :
        /\ batch[b].hb <= Len(batch[b].ids)
        /\ \A i \in 1..batch[b].hb : Terminal(batch[b].ids[i], sweep.version)

(* "Pages from one PlanRanges call are disjoint, so sibling activities in  *)
(* a wave never claim overlapping rows" - nor the same row twice.          *)
SiblingsDisjoint ==
    \A b, c \in Batches :
        \A i \in DOMAIN batch[b].ids, j \in DOMAIN batch[c].ids :
            batch[b].ids[i] = batch[c].ids[j] => b = c /\ i = j

(* A completed ProcessBatch dropped nothing: since it was claimed, each of *)
(* its memories became done or dead, or one more failure is on record (so  *)
(* that its backoff was restarted).                                        *)
NoSilentDrop ==
    \A b \in Batches : batch[b].st = "ok" =>
        \A i \in DOMAIN batch[b].ids :
            LET m == batch[b].ids[i]
            IN  \/ Terminal(m, sweep.version)
                \/ NFail(m, sweep.version) > batch[b].claimed[i]

(* MaxAttempts is tested when a memory is claimed and not while its batch  *)
(* is retried: a memory can overshoot it by one activity's attempts, and   *)
(* by one row for each timed-out attempt that lives on, never more.        *)
FailureBudget ==
    \A m \in memories, v \in Versions :
        NFail(m, v) <= MaxAttempts - 1 + ActAttempts + faults

(* Every uploaded memory ends up done or dead-lettered at the version the  *)
(* schedule sweeps, however the embedder behaves.                          *)
Settled(m) == HasDone(m, schedule) \/ m \in DeadLetter(schedule)
EveryMemorySettles ==
    \A m \in Memories : (m \in memories /\ schedule # 0) ~> Settled(m)

(* A sweep always ends, so that Skip never drops ticks for ever. *)
SweepEnds == (sweep.pc # "idle") ~> (sweep.pc = "idle")
=============================================================================
