-------------------------- MODULE EnrichmentProofs --------------------------
(* The sweep, for every number of memories, batches, items, retries and    *)
(* faults: it implements the ledger specification, and no retry ever       *)
(* resumes past an item that is not settled.                               *)
EXTENDS Enrichment, LedgerProofs, FiniteSetTheorems, SequenceTheorems

(* The memories that are done or dead-lettered, with their versions. *)
TerminalPairs == {mv \in Memories \X Versions : Terminal(mv[1], mv[2])}

(* Item i of b has its done or permanent row. *)
ItemSettled(b, i) == <<batch[b].ids[i], sweep.version>> \in TerminalPairs

(* Every item of b up to k has its done or permanent row. *)
Covered(b, k) == \A i \in 1..k : ItemSettled(b, i)

BatchShape(b) ==
    /\ batch[b].st = "none" => batch[b] = NoBatch
    /\ batch[b].st # "none" => /\ sweep.pc = "await"
                               /\ batch[b].attempt \in 1..ActAttempts
    /\ Len(batch[b].ids) <= BatchSize
    /\ \A i \in 1..Len(batch[b].ids) : batch[b].ids[i] \in memories
    /\ batch[b].st # "running" => run[b] = NoRun
    /\ \A i \in Items : run[b].item[i] # "end" => i <= Len(batch[b].ids)

(* A watermark that is recorded, buffered, on its way between prog.mark    *)
(* and RecordHeartbeat, or held by progress covers settled items only, and *)
(* so does progress.terminal.                                              *)
WatermarkInv(b) ==
    /\ batch[b].hb <= Len(batch[b].ids) /\ Covered(b, batch[b].hb)
    /\ run[b].watermark <= Len(batch[b].ids) /\ Covered(b, run[b].watermark)
    /\ run[b].buffered <= Len(batch[b].ids) /\ Covered(b, run[b].buffered)
    /\ \A i \in Items :
          /\ run[b].note[i] <= Len(batch[b].ids) /\ Covered(b, run[b].note[i])
          /\ run[b].item[i] = "mark" => ItemSettled(b, i)
          /\ i \in run[b].terminal => /\ i <= Len(batch[b].ids)
                                      /\ ItemSettled(b, i)

BatchInv(b) == BatchShape(b) /\ WatermarkInv(b)

(* The watermarks a run R holds. *)
Held(R) == {R.watermark, R.buffered} \cup {R.note[j] : j \in Items}

IInv ==
    /\ LTypeOK
    /\ STypeOK
    /\ sweep.pc # "idle" => sweep.version \in Versions
    /\ \A z \in zombies : z.id \in memories
    /\ \A b \in Batches : BatchInv(b)

-----------------------------------------------------------------------------
(* Facts the steps share.                                                  *)

(* A settled memory stays settled: its row is never taken back. *)
LEMMA TerminalKept ==
  ASSUME LTypeOK, [LNext]_lvars
  PROVE  TerminalPairs \subseteq TerminalPairs'
<1> SUFFICES ASSUME NEW m \in Memories, NEW v \in Versions, Terminal(m, v)
             PROVE  Terminal(m, v)'
  BY DEF TerminalPairs
<1>1. \A i \in DOMAIN events[m] : /\ i \in DOMAIN events'[m]
                                  /\ events'[m][i] = events[m][i]
  BY HistoryKept DEF HistoryStep
<1>2. HasDone(m, v) => HasDone(m, v)'
  BY <1>1 DEF HasDone, DoneRows
<1>3. HasPermanent(m, v) => HasPermanent(m, v)'
  BY <1>1 DEF HasPermanent, FailedRows
<1>4. QED  BY <1>2, <1>3 DEF Terminal

(* Committed memories stay committed. *)
LEMMA MemoriesKept == [LNext]_lvars => memories \subseteq memories'
BY DEF LNext, lvars, InsertMemory, InsertDone, InsertFailed, TimePasses

(* The types of one batch and of its run. *)
LEMMA BatchTypes ==
  ASSUME IInv, NEW b \in Batches
  PROVE  /\ batch[b] \in BatchRec
         /\ run[b] \in RunRec
         /\ batch[b].ids \in Seq(Memories)
         /\ Len(batch[b].ids) \in 0..BatchSize
         /\ batch[b].hb \in 0..Len(batch[b].ids)
         /\ run[b].watermark \in 0..Len(batch[b].ids)
         /\ run[b].buffered \in -1..Len(batch[b].ids)
         /\ run[b].item \in [Items -> {"todo", "embed", "doomed", "mark",
                                       "current", "beat", "end"}]
         /\ run[b].note \in [Items -> 0..BatchSize]
         /\ run[b].terminal \subseteq Items
         /\ BatchInv(b)
<1>1. batch[b] \in BatchRec /\ run[b] \in RunRec /\ BatchInv(b)
  BY DEF IInv, STypeOK
<1>2. /\ batch[b].ids \in Seq(Memories) /\ batch[b].hb \in 0..BatchSize
      /\ run[b].watermark \in 0..BatchSize /\ run[b].buffered \in -1..BatchSize
      /\ run[b].item \in [Items -> {"todo", "embed", "doomed", "mark",
                                    "current", "beat", "end"}]
      /\ run[b].note \in [Items -> 0..BatchSize]
      /\ run[b].terminal \subseteq Items
  BY <1>1 DEF BatchRec, RunRec
<1>3. Len(batch[b].ids) \in Nat
  BY <1>2
<1>4. QED
  BY <1>1, <1>2, <1>3, SweepAssumption DEF BatchInv, BatchShape, WatermarkInv

(* An item in flight is an item of a running batch. *)
LEMMA ItemTypes ==
  ASSUME IInv, NEW b \in Batches, NEW i \in Items, run[b].item[i] # "end"
  PROVE  /\ batch[b].st = "running"
         /\ sweep.pc = "await"
         /\ sweep.version \in Versions
         /\ batch[b].attempt \in 1..ActAttempts
         /\ i \in 1..Len(batch[b].ids)
         /\ batch[b].ids[i] \in memories
         /\ batch[b].ids[i] \in Memories
<1>1. run[b] # NoRun
  BY DEF NoRun
<1>2. batch[b].st = "running"
  BY <1>1, BatchTypes DEF BatchInv, BatchShape
<1>3. i \in 1..Len(batch[b].ids)
  BY BatchTypes DEF BatchInv, BatchShape, Items
<1>4. QED
  BY <1>2, <1>3, BatchTypes DEF BatchInv, BatchShape, IInv, LTypeOK

(* A batch no step touches keeps its invariant while the ledger grows. *)
LEMMA Frame ==
  ASSUME IInv, [LNext]_lvars, NEW c \in Batches,
         batch'[c] = batch[c], run'[c] = run[c], sweep' = sweep
  PROVE  BatchInv(c)'
<1>1. \A i : ItemSettled(c, i) => ItemSettled(c, i)'
  BY TerminalKept DEF IInv, ItemSettled
<1>2. BatchShape(c)'
  BY BatchTypes, MemoriesKept DEF BatchInv, BatchShape
<1>3. \A k : Covered(c, k) => Covered(c, k)'
  BY <1>1 DEF Covered
<1>4. WatermarkInv(c)'
  BY <1>1, <1>3, BatchTypes DEF BatchInv, WatermarkInv, Covered, ItemSettled
<1>5. QED  BY <1>2, <1>4 DEF BatchInv

(* An activity slot that is not in use satisfies its invariant. *)
LEMMA EmptyInv ==
  ASSUME NEW c \in Batches, batch'[c] = NoBatch, run'[c] = NoRun
  PROVE  BatchInv(c)'
<1>1. BatchShape(c)'
  BY SweepAssumption DEF BatchShape, NoBatch, NoRun
<1>2. WatermarkInv(c)'
  BY DEF WatermarkInv, Covered, NoBatch, NoRun
<1>3. QED  BY <1>1, <1>2 DEF BatchInv

(* A step of batch b alone preserves the invariant if it preserves b's. *)
LEMMA OneBatch ==
  ASSUME IInv, [LNext]_lvars, NEW b \in Batches, STypeOK', sweep' = sweep,
         \A z \in zombies' : z \in zombies \/ z.id \in memories,
         \A c \in Batches \ {b} : batch'[c] = batch[c] /\ run'[c] = run[c],
         BatchInv(b)'
  PROVE  IInv'
<1>1. LTypeOK'
  BY LTypeStep DEF IInv
<1>2. \A z \in zombies' : z.id \in memories'
  BY MemoriesKept DEF IInv
<1>3. \A c \in Batches : BatchInv(c)'
  BY Frame
<1>4. QED  BY <1>1, <1>2, <1>3 DEF IInv

(* A step of the goroutines of b: the run becomes R, whose watermarks and  *)
(* terminal items are settled after the step.                              *)
LEMMA RunStep ==
  ASSUME IInv, [LNext]_lvars, NEW b \in Batches, NEW R \in RunRec,
         batch[b].st = "running",
         UNCHANGED <<deployed, schedule, sweep, batch, zombies>>,
         faults' \in 0..MaxFaults,
         run' = [run EXCEPT ![b] = R],
         \A j \in Items : R.item[j] # "end" => j <= Len(batch[b].ids),
         R.watermark <= Len(batch[b].ids) /\ Covered(b, R.watermark)',
         R.buffered <= Len(batch[b].ids) /\ Covered(b, R.buffered)',
         \A j \in Items :
           /\ R.note[j] <= Len(batch[b].ids) /\ Covered(b, R.note[j])'
           /\ R.item[j] = "mark" => ItemSettled(b, j)'
           /\ j \in R.terminal => j <= Len(batch[b].ids) /\ ItemSettled(b, j)'
  PROVE  IInv'
<1>1. run'[b] = R /\ run' \in [Batches -> RunRec]
  BY DEF IInv, STypeOK
<1>2. STypeOK'
  BY <1>1 DEF IInv, STypeOK
<1>3. Covered(b, batch[b].hb)'
  BY TerminalKept, BatchTypes DEF IInv, BatchInv, WatermarkInv, Covered, ItemSettled
<1>4. BatchShape(b)'
  BY <1>1, BatchTypes, MemoriesKept DEF BatchInv, BatchShape
<1>5. WatermarkInv(b)'
  BY <1>1, <1>3, BatchTypes DEF BatchInv, WatermarkInv, Covered, ItemSettled
<1>6. QED
  BY <1>1, <1>2, <1>4, <1>5, OneBatch DEF BatchInv, IInv, STypeOK

(* What is covered stays covered. *)
LEMMA CoverKept ==
  ASSUME IInv, [LNext]_lvars, NEW b \in Batches,
         batch'[b] = batch[b], sweep' = sweep
  PROVE  /\ \A i : ItemSettled(b, i) => ItemSettled(b, i)'
         /\ \A k : Covered(b, k) => Covered(b, k)'
<1>1. \A i : ItemSettled(b, i) => ItemSettled(b, i)'
  BY TerminalKept DEF IInv, ItemSettled
<1>2. QED  BY <1>1 DEF Covered

(* A step of goroutine i of b: the run becomes R, in which i is at pc, and *)
(* whatever R holds that run[b] did not is covered after the step.         *)
LEMMA GoroutineStep ==
  ASSUME IInv, [LNext]_lvars, NEW b \in Batches, NEW i \in Items,
         NEW pc, NEW R \in RunRec,
         run[b].item[i] # "end",
         UNCHANGED <<deployed, schedule, sweep, batch, zombies>>,
         faults' \in 0..MaxFaults,
         run' = [run EXCEPT ![b] = R],
         R.item = [run[b].item EXCEPT ![i] = pc],
         R.terminal \subseteq run[b].terminal \cup {i},
         pc = "mark" \/ i \in R.terminal \ run[b].terminal => ItemSettled(b, i)',
         \A w \in Held(R) \ Held(run[b]) :
            w \in 0..Len(batch[b].ids) /\ Covered(b, w)'
  PROVE  IInv'
<1>1. batch[b].st = "running" /\ i <= Len(batch[b].ids)
  BY ItemTypes
<1>2. /\ \A k : ItemSettled(b, k) => ItemSettled(b, k)'
      /\ \A k : Covered(b, k) => Covered(b, k)'
  BY CoverKept
<1>3. \A w \in Held(run[b]) : w <= Len(batch[b].ids) /\ Covered(b, w)
  BY BatchTypes DEF BatchInv, WatermarkInv, Held
<1>4. \A w \in Held(R) : w <= Len(batch[b].ids) /\ Covered(b, w)'
  <2> TAKE w \in Held(R)
  <2>1. CASE w \in Held(run[b])
    BY <1>2, <1>3, <2>1
  <2>2. CASE w \notin Held(run[b])
    <3>1. w \in 0..Len(batch[b].ids) /\ Covered(b, w)'
      BY <2>2
    <3>2. QED  BY <3>1, BatchTypes
  <2>3. QED  BY <2>1, <2>2
<1>5. /\ R.watermark <= Len(batch[b].ids) /\ Covered(b, R.watermark)'
      /\ R.buffered <= Len(batch[b].ids) /\ Covered(b, R.buffered)'
  BY <1>4 DEF Held
<1>6. \A j \in Items : R.note[j] <= Len(batch[b].ids) /\ Covered(b, R.note[j])'
  BY <1>4 DEF Held
<1>7. \A j \in Items : R.item[j] # "end" => j <= Len(batch[b].ids)
  BY <1>1, BatchTypes DEF BatchInv, BatchShape
<1>8. \A j \in Items : R.item[j] = "mark" => ItemSettled(b, j)'
  BY <1>2, BatchTypes DEF BatchInv, WatermarkInv
<1>9. \A j \in Items :
        j \in R.terminal => j <= Len(batch[b].ids) /\ ItemSettled(b, j)'
  BY <1>1, <1>2, BatchTypes DEF BatchInv, WatermarkInv
<1>10. QED  BY <1>1, <1>5, <1>6, <1>7, <1>8, <1>9, RunStep

-----------------------------------------------------------------------------
(* The goroutines of ProcessBatch.                                         *)

(* A goroutine that gets its errgroup slot has written nothing yet. *)
LEMMA StartItemInv ==
  ASSUME IInv, NEW b \in Batches, NEW i \in Items, StartItem(b, i)
  PROVE  IInv'
<1>1. PICK pc \in {"doomed", "embed"} :
         run' = [run EXCEPT ![b] = [@ EXCEPT !.item[i] = pc]]
  BY DEF StartItem
<1>2. PICK R : R = [run[b] EXCEPT !.item[i] = pc]
  OBVIOUS
<1>3. run' = [run EXCEPT ![b] = R]
  BY <1>1, <1>2
<1>4. R \in RunRec
  BY <1>2, BatchTypes DEF RunRec
<1>5. /\ R.item = [run[b].item EXCEPT ![i] = pc] /\ R.note = run[b].note
      /\ R.watermark = run[b].watermark /\ R.buffered = run[b].buffered
      /\ R.terminal = run[b].terminal
  BY <1>2, BatchTypes DEF RunRec
<1>6. /\ run[b].item[i] # "end" /\ faults' \in 0..MaxFaults /\ [LNext]_lvars
      /\ UNCHANGED <<deployed, schedule, sweep, batch, zombies>>
  BY DEF StartItem, IInv, STypeOK
<1>7. Held(R) = Held(run[b])
  BY <1>5 DEF Held
<1>8. QED
  BY <1>3, <1>4, <1>5, <1>6, <1>7, GoroutineStep

(* prog.current notes the watermark, which is covered. *)
LEMMA CurrentInv ==
  ASSUME IInv, NEW b \in Batches, NEW i \in Items, Current(b, i)
  PROVE  IInv'
<1>1. PICK R : R = [run[b] EXCEPT !.item[i] = "beat",
                                  !.note[i] = run[b].watermark]
  OBVIOUS
<1>2. run' = [run EXCEPT ![b] = R]
  BY <1>1 DEF Current
<1>3. run[b].watermark \in 0..BatchSize
  BY BatchTypes DEF RunRec
<1>4. R \in RunRec
  BY <1>1, <1>3, BatchTypes DEF RunRec
<1>5. /\ R.item = [run[b].item EXCEPT ![i] = "beat"]
      /\ R.note = [run[b].note EXCEPT ![i] = run[b].watermark]
      /\ R.watermark = run[b].watermark /\ R.buffered = run[b].buffered
      /\ R.terminal = run[b].terminal
  BY <1>1, BatchTypes DEF RunRec
<1>6. /\ run[b].item[i] # "end" /\ faults' \in 0..MaxFaults /\ [LNext]_lvars
      /\ UNCHANGED <<deployed, schedule, sweep, batch, zombies>>
  BY DEF Current, IInv, STypeOK
<1>7. Held(R) \subseteq Held(run[b])
  BY <1>5, BatchTypes DEF Held
<1>8. QED
  BY <1>2, <1>4, <1>5, <1>6, <1>7, GoroutineStep

(* RecordHeartbeat buffers a noted watermark, old or new: both are covered. *)
LEMMA RecordHeartbeatInv ==
  ASSUME IInv, NEW b \in Batches, NEW i \in Items, RecordHeartbeat(b, i)
  PROVE  IInv'
<1>1. PICK R : R = [run[b] EXCEPT !.item[i] = "end", !.note[i] = 0,
                                  !.buffered = run[b].note[i]]
  OBVIOUS
<1>2. run' = [run EXCEPT ![b] = R]
  BY <1>1 DEF RecordHeartbeat
<1>3. run[b].note[i] \in -1..BatchSize /\ 0 \in 0..BatchSize
  BY BatchTypes, SweepAssumption
<1>4. R \in RunRec
  BY <1>1, <1>3, BatchTypes DEF RunRec
<1>5. /\ R.item = [run[b].item EXCEPT ![i] = "end"]
      /\ R.note = [run[b].note EXCEPT ![i] = 0]
      /\ R.watermark = run[b].watermark /\ R.buffered = run[b].note[i]
      /\ R.terminal = run[b].terminal
  BY <1>1, BatchTypes DEF RunRec
<1>6. /\ run[b].item[i] # "end" /\ faults' \in 0..MaxFaults /\ [LNext]_lvars
      /\ UNCHANGED <<deployed, schedule, sweep, batch, zombies>>
  BY DEF RecordHeartbeat, IInv, STypeOK
<1>7. 0 \in 0..Len(batch[b].ids) /\ Covered(b, 0)'
  BY BatchTypes DEF Covered
<1>8. Held(R) \subseteq Held(run[b]) \cup {0}
  BY <1>5, BatchTypes DEF Held
<1>9. \A w \in Held(R) \ Held(run[b]) :
         w \in 0..Len(batch[b].ids) /\ Covered(b, w)'
  BY <1>7, <1>8
<1>10. QED
  BY <1>2, <1>4, <1>5, <1>6, <1>9, GoroutineStep

(* prog.mark moves the watermark only over items that have terminal rows. *)
LEMMA MarkInv ==
  ASSUME IInv, NEW b \in Batches, NEW i \in Items, Mark(b, i)
  PROVE  IInv'
<1>1. PICK w \in 0..Len(batch[b].ids) :
        /\ Advances(b, i, w)
        /\ run' = [run EXCEPT ![b] =
                     [@ EXCEPT !.item[i] = "beat", !.note[i] = w,
                               !.watermark = w,
                               !.terminal = run[b].terminal \cup {i}]]
  BY DEF Mark
<1>2. PICK R : R = [run[b] EXCEPT !.item[i] = "beat", !.note[i] = w,
                                  !.watermark = w,
                                  !.terminal = run[b].terminal \cup {i}]
  OBVIOUS
<1>3. run' = [run EXCEPT ![b] = R]
  BY <1>1, <1>2
<1>4. w \in 0..BatchSize
  BY BatchTypes, SweepAssumption
<1>5. R \in RunRec
  BY <1>2, <1>4, BatchTypes DEF RunRec
<1>6. /\ R.item = [run[b].item EXCEPT ![i] = "beat"]
      /\ R.note = [run[b].note EXCEPT ![i] = w]
      /\ R.watermark = w /\ R.buffered = run[b].buffered
      /\ R.terminal = run[b].terminal \cup {i}
  BY <1>2, BatchTypes DEF RunRec
<1>7. /\ run[b].item[i] = "mark" /\ faults' \in 0..MaxFaults /\ [LNext]_lvars
      /\ UNCHANGED <<deployed, schedule, sweep, batch, zombies>>
  BY DEF Mark, IInv, STypeOK
<1>8. ItemSettled(b, i) /\ \A k \in run[b].terminal : ItemSettled(b, k)
  BY <1>7, BatchTypes DEF BatchInv, WatermarkInv
<1>9. Covered(b, w)
  <2> SUFFICES ASSUME NEW k \in 1..w PROVE ItemSettled(b, k)
    BY DEF Covered
  <2>1. CASE k <= run[b].watermark
    BY <2>1, BatchTypes DEF BatchInv, WatermarkInv, Covered
  <2>2. CASE k > run[b].watermark
    BY <1>1, <1>8, <2>2, BatchTypes DEF Advances
  <2>3. QED  BY <2>1, <2>2, BatchTypes
<1>10. ItemSettled(b, i)' /\ Covered(b, w)'
  BY <1>7, <1>8, <1>9, CoverKept
<1>11. Held(R) \subseteq Held(run[b]) \cup {w}
  BY <1>6, BatchTypes DEF Held
<1>12. \A x \in Held(R) \ Held(run[b]) :
         x \in 0..Len(batch[b].ids) /\ Covered(b, x)'
  BY <1>10, <1>11
<1>13. run[b].item[i] # "end" /\ R.terminal \subseteq run[b].terminal \cup {i}
  BY <1>6, <1>7
<1>14. QED
  BY <1>3, <1>5, <1>6, <1>7, <1>10, <1>12, <1>13, GoroutineStep

(* A store call is a step of the ledger. *)
LEMMA StoreCall ==
  ASSUME NEW m \in memories, NEW v \in Versions, NEW a \in 1..ActAttempts
  PROVE  /\ InsertDone(m, v, a) => [LNext]_lvars
         /\ \A p \in BOOLEAN : InsertFailed(m, v, a, p) => [LNext]_lvars
BY DEF LNext

(* A done row, or a permanent failed row, settles its memory. *)
LEMMA RowSettles ==
  ASSUME LTypeOK, NEW m \in memories, NEW v \in Versions, NEW a \in 1..ActAttempts,
         InsertDone(m, v, a) \/ InsertFailed(m, v, a, TRUE)
  PROVE  <<m, v>> \in TerminalPairs'
<1>1. m \in Memories /\ events[m] \in Seq(Row) /\ events \in [Memories -> Seq(Row)]
  BY DEF LTypeOK
<1> DEFINE n == Len(events[m]) + 1
<1>2. ASSUME NEW r, AppendRow(m, r)
      PROVE  n \in DOMAIN events'[m] /\ events'[m][n] = r
  BY <1>1, <1>2 DEF AppendRow
<1>3. CASE InsertFailed(m, v, a, TRUE)
  <2> DEFINE r == [version |-> v, attempt |-> a,
                   status |-> "failed", permanent |-> TRUE]
  <2>1. AppendRow(m, r)
    BY <1>3 DEF InsertFailed
  <2>2. n \in DOMAIN events'[m] /\ events'[m][n] = r
    BY <1>2, <2>1
  <2>3. HasPermanent(m, v)'
    BY <2>2 DEF HasPermanent, FailedRows
  <2>4. QED  BY <1>1, <2>3 DEF TerminalPairs, Terminal
<1>4. CASE InsertDone(m, v, a) /\ ~HasDone(m, v)
  <2>1. AppendRow(m, DoneRow(v, a))
    BY <1>4 DEF InsertDone
  <2>2. n \in DOMAIN events'[m] /\ events'[m][n] = DoneRow(v, a)
    BY <1>2, <2>1
  <2>3. HasDone(m, v)'
    BY <2>2 DEF HasDone, DoneRows, DoneRow
  <2>4. QED  BY <1>1, <2>3 DEF TerminalPairs, Terminal
<1>5. CASE InsertDone(m, v, a) /\ HasDone(m, v)
  <2>1. UNCHANGED events
    BY <1>5 DEF InsertDone
  <2>2. HasDone(m, v)'
    BY <1>5, <2>1 DEF HasDone, DoneRows
  <2>3. QED  BY <1>1, <2>2 DEF TerminalPairs, Terminal
<1>6. QED  BY <1>3, <1>4, <1>5

(* A goroutine marks its item after the done row exists. *)
LEMMA ItemDoneInv ==
  ASSUME IInv, NEW b \in Batches, NEW i \in Items, ItemDone(b, i)
  PROVE  IInv' /\ [LNext]_lvars
<1>1. PICK R : R = [run[b] EXCEPT !.item[i] = "mark", !.done = TRUE]
  OBVIOUS
<1>2. run' = [run EXCEPT ![b] = R]
  BY <1>1 DEF ItemDone
<1>3. R \in RunRec
  BY <1>1, BatchTypes DEF RunRec
<1>4. /\ R.item = [run[b].item EXCEPT ![i] = "mark"] /\ R.note = run[b].note
      /\ R.watermark = run[b].watermark /\ R.buffered = run[b].buffered
      /\ R.terminal = run[b].terminal
  BY <1>1, BatchTypes DEF RunRec
<1>5. /\ run[b].item[i] # "end" /\ faults' \in 0..MaxFaults
      /\ UNCHANGED <<deployed, schedule, sweep, batch, zombies>>
      /\ InsertDone(batch[b].ids[i], sweep.version, batch[b].attempt)
  BY DEF ItemDone, IInv, STypeOK
<1>6. [LNext]_lvars
  BY <1>5, ItemTypes, StoreCall
<1>7. <<batch[b].ids[i], sweep.version>> \in TerminalPairs'
  BY <1>5, ItemTypes, RowSettles DEF IInv
<1>8. ItemSettled(b, i)'
  BY <1>5, <1>7 DEF ItemSettled
<1>9. Held(R) = Held(run[b])
  BY <1>4 DEF Held
<1>10. QED
  BY <1>2, <1>3, <1>4, <1>5, <1>6, <1>8, <1>9, GoroutineStep

(* A goroutine marks its item only if the failed row is permanent. *)
LEMMA ItemFailedInv ==
  ASSUME IInv, NEW b \in Batches, NEW i \in Items, NEW p \in BOOLEAN,
         ItemFailed(b, i, p)
  PROVE  IInv' /\ [LNext]_lvars
<1>1. PICK pc \in {"mark", "current"} : pc = IF p THEN "mark" ELSE "current"
  OBVIOUS
<1>2. PICK R : R = [run[b] EXCEPT !.item[i] = pc, !.failed = run[b].failed \/ ~p]
  OBVIOUS
<1>3. run' = [run EXCEPT ![b] = R]
  BY <1>1, <1>2 DEF ItemFailed
<1>4. R \in RunRec
  BY <1>2, BatchTypes DEF RunRec
<1>5. /\ R.item = [run[b].item EXCEPT ![i] = pc] /\ R.note = run[b].note
      /\ R.watermark = run[b].watermark /\ R.buffered = run[b].buffered
      /\ R.terminal = run[b].terminal
  BY <1>2, BatchTypes DEF RunRec
<1>6. /\ run[b].item[i] # "end" /\ faults' \in 0..MaxFaults
      /\ UNCHANGED <<deployed, schedule, sweep, batch, zombies>>
      /\ InsertFailed(batch[b].ids[i], sweep.version, batch[b].attempt, p)
  BY DEF ItemFailed, IInv, STypeOK
<1>7. [LNext]_lvars
  BY <1>6, ItemTypes, StoreCall
<1>8. pc = "mark" => ItemSettled(b, i)'
  <2> SUFFICES ASSUME p = TRUE PROVE ItemSettled(b, i)'
    BY <1>1
  <2>1. <<batch[b].ids[i], sweep.version>> \in TerminalPairs'
    BY <1>6, ItemTypes, RowSettles DEF IInv
  <2>2. QED  BY <1>6, <2>1 DEF ItemSettled
<1>9. Held(R) = Held(run[b])
  BY <1>5 DEF Held
<1>10. QED
  BY <1>3, <1>4, <1>5, <1>6, <1>7, <1>8, <1>9, GoroutineStep

(* A failed insert, committed or not, leads to no mark. *)
LEMMA ItemStoreErrorInv ==
  ASSUME IInv, NEW b \in Batches, NEW i \in Items, ItemStoreError(b, i)
  PROVE  IInv' /\ [LNext]_lvars
<1>1. PICK R : R = [run[b] EXCEPT !.item[i] = "end", !.err = TRUE]
  OBVIOUS
<1>2. run' = [run EXCEPT ![b] = R]
  BY <1>1 DEF ItemStoreError
<1>3. R \in RunRec
  BY <1>1, BatchTypes DEF RunRec
<1>4. /\ R.item = [run[b].item EXCEPT ![i] = "end"] /\ R.note = run[b].note
      /\ R.watermark = run[b].watermark /\ R.buffered = run[b].buffered
      /\ R.terminal = run[b].terminal
  BY <1>1, BatchTypes DEF RunRec
<1>5. /\ run[b].item[i] # "end"
      /\ UNCHANGED <<deployed, schedule, sweep, batch, zombies>>
  BY DEF ItemStoreError
<1>6. faults' \in 0..MaxFaults
  BY SweepAssumption DEF ItemStoreError, Fault, IInv, STypeOK
<1>7. [LNext]_lvars
  <2> DEFINE m == batch[b].ids[i]
             v == sweep.version
             a == batch[b].attempt
  <2>1. \/ UNCHANGED lvars
        \/ InsertDone(m, v, a)
        \/ \E p \in BOOLEAN : InsertFailed(m, v, a, p)
    BY DEF ItemStoreError
  <2>2. m \in memories /\ v \in Versions /\ a \in 1..ActAttempts
    BY <1>5, ItemTypes
  <2>3. QED  BY <2>1, <2>2, StoreCall
<1>8. Held(R) = Held(run[b])
  BY <1>4 DEF Held
<1>9. QED
  BY <1>2, <1>3, <1>4, <1>5, <1>6, <1>7, <1>8, GoroutineStep

-----------------------------------------------------------------------------
(* Attempts of an activity.                                                *)

(* The memory of no attempt: a run that holds nothing. *)
LEMMA NoRunFacts ==
  /\ NoRun \in RunRec
  /\ Held(NoRun) = {0, -1}
  /\ NoRun.terminal = {}
  /\ \A j \in Items : NoRun.item[j] = "end"
<1>1. NoRun \in RunRec
  BY SweepAssumption DEF NoRun, RunRec
<1>2. QED  BY <1>1, SweepAssumption DEF Held, NoRun, Items

(* A step of the server and the worker on batch b, which becomes B and R,  *)
(* that leaves the ledger and the workflow alone.                          *)
LEMMA ServerStep ==
  ASSUME IInv, UNCHANGED lvars, NEW b \in Batches,
         NEW B \in BatchRec, NEW R \in RunRec,
         UNCHANGED <<deployed, schedule, sweep>>,
         faults' \in 0..MaxFaults,
         zombies' \subseteq ZombieRec,
         \A z \in zombies' : z \in zombies \/ z.id \in memories,
         batch' = [batch EXCEPT ![b] = B],
         run' = [run EXCEPT ![b] = R],
         batch[b].st # "none", B.st # "none",
         B.ids = batch[b].ids, B.attempt \in 1..ActAttempts,
         B.st # "running" => R = NoRun,
         \A j \in Items : R.item[j] # "end" => j <= Len(B.ids),
         \A j \in Items : R.item[j] = "mark" => run[b].item[j] = "mark",
         \A w \in Held(R) \cup {B.hb} :
            w = 0 \/ w = -1 \/ w = batch[b].hb \/ w \in Held(run[b]),
         \A j \in R.terminal : j \in run[b].terminal \cup 1..batch[b].hb
  PROVE  IInv'
<1>1. batch'[b] = B /\ run'[b] = R
  BY DEF IInv, STypeOK
<1>2. STypeOK'
  BY DEF IInv, STypeOK
<1>3. [LNext]_lvars
  OBVIOUS
<1>4. \A k : ItemSettled(b, k) => ItemSettled(b, k)'
  BY <1>1, <1>3, TerminalKept DEF IInv, ItemSettled
<1>5. \A k : Covered(b, k) => Covered(b, k)'
  BY <1>4 DEF Covered
<1>6. \A w \in Held(run[b]) \cup {batch[b].hb, 0, -1} :
        w <= Len(batch[b].ids) /\ Covered(b, w)
  BY BatchTypes DEF BatchInv, WatermarkInv, Held, Covered
<1>7. \A w \in Held(R) \cup {B.hb} : w <= Len(batch[b].ids) /\ Covered(b, w)'
  BY <1>5, <1>6
<1>8. \A j \in R.terminal : j <= Len(batch[b].ids) /\ ItemSettled(b, j)'
  <2> TAKE j \in R.terminal
  <2>1. CASE j \in run[b].terminal
    BY <1>4, <2>1, BatchTypes DEF BatchInv, WatermarkInv
  <2>2. CASE j \in 1..batch[b].hb
    BY <1>4, <1>6, <2>2, BatchTypes DEF Covered
  <2>3. QED  BY <2>1, <2>2
<1>9. BatchShape(b)'
  BY <1>1, BatchTypes DEF BatchInv, BatchShape, lvars
<1>10. WatermarkInv(b)'
  <2>1. /\ B.hb <= Len(B.ids) /\ Covered(b, B.hb)'
        /\ R.watermark <= Len(B.ids) /\ Covered(b, R.watermark)'
        /\ R.buffered <= Len(B.ids) /\ Covered(b, R.buffered)'
    BY <1>7 DEF Held
  <2>2. \A j \in Items : R.note[j] <= Len(B.ids) /\ Covered(b, R.note[j])'
    BY <1>7 DEF Held
  <2>3. \A j \in Items : R.item[j] = "mark" => ItemSettled(b, j)'
    BY <1>4, BatchTypes DEF BatchInv, WatermarkInv
  <2>4. QED
    BY <1>1, <1>8, <2>1, <2>2, <2>3 DEF WatermarkInv, Covered, ItemSettled
<1>11. \A c \in Batches \ {b} : batch'[c] = batch[c] /\ run'[c] = run[c]
  BY DEF IInv, STypeOK
<1>12. QED
  BY <1>2, <1>3, <1>9, <1>10, <1>11, OneBatch DEF BatchInv

(* The attempt of b is over, and b becomes B. *)
LEMMA AttemptOver ==
  ASSUME IInv, UNCHANGED lvars, NEW b \in Batches, NEW B \in BatchRec,
         UNCHANGED <<deployed, schedule, sweep>>,
         faults' \in 0..MaxFaults,
         zombies' \subseteq ZombieRec,
         \A z \in zombies' : z \in zombies \/ z.id \in memories,
         batch' = [batch EXCEPT ![b] = B],
         run' = [run EXCEPT ![b] = NoRun],
         batch[b].st # "none", B.st # "none", B.st # "running",
         B.ids = batch[b].ids, B.attempt \in 1..ActAttempts,
         B.hb = batch[b].hb \/ B.hb \in Held(run[b])
  PROVE  IInv'
<1>1. PICK R \in RunRec : R = NoRun
  BY NoRunFacts
<1>2. \A w \in Held(R) \cup {B.hb} :
         w = 0 \/ w = -1 \/ w = batch[b].hb \/ w \in Held(run[b])
  BY <1>1, NoRunFacts
<1>3. /\ \A j \in Items : R.item[j] # "end" => j <= Len(B.ids)
      /\ \A j \in Items : R.item[j] = "mark" => run[b].item[j] = "mark"
      /\ \A j \in R.terminal : j \in run[b].terminal \cup 1..batch[b].hb
  BY <1>1, NoRunFacts
<1>4. run' = [run EXCEPT ![b] = R]
  BY <1>1
<1>5. QED  BY <1>1, <1>2, <1>3, <1>4, ServerStep

(* An attempt that ends in an error, the server keeping a detail h it had  *)
(* or one the worker held.                                                 *)
LEMMA AttemptFailsInv ==
  ASSUME IInv, UNCHANGED lvars, NEW b \in Batches, NEW h \in 0..BatchSize,
         UNCHANGED <<deployed, schedule, sweep>>,
         faults' \in 0..MaxFaults,
         zombies' \subseteq ZombieRec,
         \A z \in zombies' : z \in zombies \/ z.id \in memories,
         batch[b].st # "none",
         h = batch[b].hb \/ h \in Held(run[b]),
         AttemptFails(b, h)
  PROVE  IInv'
<1>1. PICK B : B = IF batch[b].attempt < ActAttempts
                   THEN [batch[b] EXCEPT !.st = "queued", !.hb = h,
                                         !.attempt = batch[b].attempt + 1]
                   ELSE [batch[b] EXCEPT !.st = "failed", !.hb = h]
  OBVIOUS
<1>2. batch' = [batch EXCEPT ![b] = B] /\ run' = [run EXCEPT ![b] = NoRun]
  BY <1>1 DEF AttemptFails
<1>3. batch[b].attempt \in 1..ActAttempts
  BY BatchTypes DEF BatchInv, BatchShape
<1>4. /\ B \in BatchRec /\ B.st \in {"queued", "failed"} /\ B.ids = batch[b].ids
      /\ B.attempt \in 1..ActAttempts /\ B.hb = h
  <2>1. CASE batch[b].attempt < ActAttempts
    <3>1. B = [batch[b] EXCEPT !.st = "queued", !.hb = h,
                               !.attempt = batch[b].attempt + 1]
      BY <1>1, <2>1
    <3>2. batch[b].attempt + 1 \in 1..ActAttempts /\ batch[b].attempt + 1 \in 0..ActAttempts
      BY <1>3, <2>1, ConstantsAssumption
    <3>3. QED  BY <3>1, <3>2, BatchTypes DEF BatchRec
  <2>2. CASE ~(batch[b].attempt < ActAttempts)
    <3>1. B = [batch[b] EXCEPT !.st = "failed", !.hb = h]
      BY <1>1, <2>2
    <3>2. QED  BY <1>3, <3>1, BatchTypes DEF BatchRec
  <2>3. QED  BY <2>1, <2>2
<1>5. B.st # "none" /\ B.st # "running"
  BY <1>4
<1>6. QED  BY <1>2, <1>4, <1>5, AttemptOver

(* An attempt that cannot fetch its texts keeps the resume point. *)
LEMMA FetchTextsFailsInv ==
  ASSUME IInv, NEW b \in Batches, FetchTextsFails(b)
  PROVE  IInv'
<1>1. faults' \in 0..MaxFaults
  BY SweepAssumption DEF FetchTextsFails, Fault, IInv, STypeOK
<1>2. zombies' \subseteq ZombieRec /\ zombies' = zombies
  BY DEF FetchTextsFails, IInv, STypeOK
<1>3. batch[b].hb \in 0..BatchSize
  BY BatchTypes, SweepAssumption
<1>4. QED
  BY <1>1, <1>2, <1>3, AttemptFailsInv DEF FetchTextsFails

(* An attempt lost with its process resumes where the server last heard of it. *)
LEMMA LostTimesOutInv ==
  ASSUME IInv, NEW b \in Batches, LostTimesOut(b)
  PROVE  IInv'
<1>1. faults' \in 0..MaxFaults /\ zombies' \subseteq ZombieRec /\ zombies' = zombies
  BY DEF LostTimesOut, IInv, STypeOK
<1>2. batch[b].hb \in 0..BatchSize
  BY BatchTypes, SweepAssumption
<1>3. QED
  BY <1>1, <1>2, AttemptFailsInv DEF LostTimesOut

(* A timed-out attempt leaves zombies that only reference existing memories. *)
LEMMA SlowTimesOutInv ==
  ASSUME IInv, NEW b \in Batches, SlowTimesOut(b)
  PROVE  IInv'
<1>1. faults' \in 0..MaxFaults
  BY SweepAssumption DEF SlowTimesOut, Fault, IInv, STypeOK
<1>2. batch[b].hb \in 0..BatchSize
  BY BatchTypes, SweepAssumption
<1>3. \A z \in InFlight(b) : z \in ZombieRec /\ z.id \in memories
  <2> SUFFICES ASSUME NEW j \in Items,
                      run[b].item[j] \in {"todo", "embed", "doomed"}
               PROVE  LET z == [id |-> batch[b].ids[j], version |-> sweep.version,
                                attempt |-> batch[b].attempt, tag |-> faults,
                                embeds |-> ~run[b].err \/ run[b].item[j] = "embed"]
                      IN  z \in ZombieRec /\ z.id \in memories
    BY DEF InFlight
  <2>1. run[b].item[j] # "end"
    OBVIOUS
  <2>2. faults \in 0..MaxFaults
    BY DEF IInv, STypeOK
  <2>3. QED  BY <2>1, <2>2, ItemTypes DEF ZombieRec
<1>4. zombies' \subseteq ZombieRec /\ \A z \in zombies' : z \in zombies \/ z.id \in memories
  BY <1>3 DEF SlowTimesOut, IInv, STypeOK
<1>5. QED
  BY <1>1, <1>2, <1>4, AttemptFailsInv DEF SlowTimesOut

(* The end of an attempt hands a covered heartbeat detail to the next one. *)
LEMMA FinishInv ==
  ASSUME IInv, NEW b \in Batches, Finish(b)
  PROVE  IInv'
<1>1. /\ faults' \in 0..MaxFaults /\ zombies' \subseteq ZombieRec /\ zombies' = zombies
      /\ UNCHANGED <<deployed, schedule, sweep>> /\ UNCHANGED lvars
      /\ batch[b].st = "running"
  BY DEF Finish, IInv, STypeOK
<1>2. CASE run[b].err \/ (run[b].failed /\ ~run[b].done)
  <2>1. PICK h : h = IF run[b].buffered = -1 THEN batch[b].hb ELSE run[b].buffered
    OBVIOUS
  <2>2. AttemptFails(b, h)
    BY <1>2, <2>1 DEF Finish
  <2>3. h \in 0..BatchSize /\ (h = batch[b].hb \/ h \in Held(run[b]))
    BY <2>1, BatchTypes, SweepAssumption DEF Held
  <2>4. QED  BY <1>1, <2>2, <2>3, AttemptFailsInv
<1>3. CASE ~(run[b].err \/ (run[b].failed /\ ~run[b].done))
  <2>1. PICK B : B = [batch[b] EXCEPT !.st = "ok"]
    OBVIOUS
  <2>2. batch' = [batch EXCEPT ![b] = B] /\ run' = [run EXCEPT ![b] = NoRun]
    BY <1>3, <2>1 DEF Finish
  <2>3. /\ B \in BatchRec /\ B.st = "ok" /\ B.ids = batch[b].ids
        /\ B.attempt = batch[b].attempt /\ B.hb = batch[b].hb
    BY <2>1, BatchTypes DEF BatchRec
  <2>4. batch[b].attempt \in 1..ActAttempts
    BY <1>1, BatchTypes DEF BatchInv, BatchShape
  <2>5. QED  BY <1>1, <2>2, <2>3, <2>4, AttemptOver
<1>4. QED  BY <1>2, <1>3

(* The detail the SDK sends to the server is covered. *)
LEMMA FlushHeartbeatInv ==
  ASSUME IInv, NEW b \in Batches, FlushHeartbeat(b)
  PROVE  IInv'
<1>1. /\ faults' \in 0..MaxFaults /\ zombies' \subseteq ZombieRec /\ zombies' = zombies
      /\ UNCHANGED <<deployed, schedule, sweep>> /\ UNCHANGED lvars
      /\ run[b].buffered # -1
  BY DEF FlushHeartbeat, IInv, STypeOK
<1>2. run[b] # NoRun /\ batch[b].st = "running"
  BY <1>1, BatchTypes DEF NoRun, BatchInv, BatchShape
<1>3. PICK B : B = [batch[b] EXCEPT !.hb = run[b].buffered]
  OBVIOUS
<1>4. PICK R : R = [run[b] EXCEPT !.buffered = -1]
  OBVIOUS
<1>5. batch' = [batch EXCEPT ![b] = B] /\ run' = [run EXCEPT ![b] = R]
  BY <1>3, <1>4 DEF FlushHeartbeat
<1>6. run[b].buffered \in 0..BatchSize /\ -1 \in -1..BatchSize
  BY <1>1, BatchTypes, SweepAssumption
<1>7. /\ B \in BatchRec /\ B.st = "running" /\ B.ids = batch[b].ids
      /\ B.attempt = batch[b].attempt /\ B.hb = run[b].buffered
  BY <1>2, <1>3, <1>6, BatchTypes DEF BatchRec
<1>8. /\ R \in RunRec /\ R.item = run[b].item /\ R.note = run[b].note
      /\ R.watermark = run[b].watermark /\ R.buffered = -1
      /\ R.terminal = run[b].terminal
  BY <1>4, <1>6, BatchTypes DEF RunRec
<1>9. batch[b].attempt \in 1..ActAttempts
  BY <1>2, BatchTypes DEF BatchInv, BatchShape
<1>10. \A w \in Held(R) \cup {B.hb} : w = -1 \/ w \in Held(run[b])
  BY <1>7, <1>8 DEF Held
<1>11. \A j \in Items : R.item[j] # "end" => j <= Len(B.ids)
  BY <1>7, <1>8, BatchTypes DEF BatchInv, BatchShape
<1>12. QED
  BY <1>1, <1>2, <1>5, <1>7, <1>8, <1>9, <1>10, <1>11, ServerStep

(* A resumed attempt starts with the prefix that the server knows as terminal. *)
LEMMA StartAttemptInv ==
  ASSUME IInv, NEW b \in Batches, StartAttempt(b)
  PROVE  IInv'
<1>1. /\ faults' \in 0..MaxFaults /\ zombies' \subseteq ZombieRec /\ zombies' = zombies
      /\ UNCHANGED <<deployed, schedule, sweep>> /\ UNCHANGED lvars
      /\ batch[b].st = "queued"
  BY DEF StartAttempt, IInv, STypeOK
<1>2. batch[b].attempt \in 1..ActAttempts /\ run[b] = NoRun
  BY <1>1, BatchTypes DEF BatchInv, BatchShape
<1>3. CASE batch[b].hb >= Len(batch[b].ids)
  <2>1. PICK B : B = [batch[b] EXCEPT !.st = "ok"]
    OBVIOUS
  <2>2. batch' = [batch EXCEPT ![b] = B] /\ run' = run
    BY <1>3, <2>1 DEF StartAttempt
  <2>3. run' = [run EXCEPT ![b] = NoRun]
    BY <1>2, <2>2 DEF IInv, STypeOK
  <2>4. /\ B \in BatchRec /\ B.st = "ok" /\ B.ids = batch[b].ids
        /\ B.attempt = batch[b].attempt /\ B.hb = batch[b].hb
    BY <2>1, BatchTypes DEF BatchRec
  <2>5. QED  BY <1>1, <1>2, <2>2, <2>3, <2>4, AttemptOver
<1>4. CASE ~(batch[b].hb >= Len(batch[b].ids))
  <2> DEFINE startIdx == batch[b].hb
             n == Len(batch[b].ids)
  <2>1. PICK B : B = [batch[b] EXCEPT !.st = "running"]
    OBVIOUS
  <2>2. PICK R : R = [NoRun EXCEPT
                        !.item = [i \in Items |-> IF i \in (startIdx + 1)..n
                                                  THEN "todo" ELSE "end"],
                        !.terminal = 1..startIdx,
                        !.watermark = startIdx]
    OBVIOUS
  <2>3. batch' = [batch EXCEPT ![b] = B] /\ run' = [run EXCEPT ![b] = R]
    BY <1>4, <2>1, <2>2 DEF StartAttempt
  <2>4. /\ B \in BatchRec /\ B.st = "running" /\ B.ids = batch[b].ids
        /\ B.attempt = batch[b].attempt /\ B.hb = batch[b].hb
    BY <2>1, BatchTypes DEF BatchRec
  <2>5. startIdx \in 0..BatchSize /\ 1..startIdx \subseteq Items
    BY BatchTypes, SweepAssumption DEF Items
  <2>6. R \in RunRec
    BY <2>2, <2>5, NoRunFacts DEF RunRec, NoRun
  <2>7. /\ R.item = [i \in Items |-> IF i \in (startIdx + 1)..n THEN "todo" ELSE "end"]
        /\ R.note = NoRun.note /\ R.buffered = NoRun.buffered
        /\ R.watermark = startIdx /\ R.terminal = 1..startIdx
    BY <2>2 DEF NoRun
  <2>8. \A w \in Held(R) \cup {B.hb} : w = batch[b].hb \/ w \in Held(run[b])
    BY <1>2, <2>4, <2>7 DEF Held
  <2>9. \A j \in Items : R.item[j] # "mark" /\ (R.item[j] # "end" => j <= Len(B.ids))
    BY <2>4, <2>7, BatchTypes
  <2>10. QED
    BY <1>1, <1>2, <2>3, <2>4, <2>6, <2>7, <2>8, <2>9, ServerStep
<1>5. QED  BY <1>3, <1>4

-----------------------------------------------------------------------------
(* The workflow, the server process and the zombies.                       *)

(* Outside a wave no activity exists. *)
LEMMA BetweenWaves ==
  ASSUME IInv, sweep.pc # "await", NEW b \in Batches
  PROVE  batch[b] = NoBatch /\ run[b] = NoRun
BY BatchTypes DEF BatchInv, BatchShape, NoBatch

(* A step between waves that changes the workflow but not the ledger, or   *)
(* lets time pass.                                                         *)
LEMMA WorkflowStep ==
  ASSUME IInv, [LNext]_lvars, STypeOK',
         sweep'.pc # "idle" => sweep'.version \in Versions,
         zombies' = zombies,
         \A b \in Batches : batch'[b] = NoBatch /\ run'[b] = NoRun
  PROVE  IInv'
<1>1. LTypeOK'
  BY LTypeStep DEF IInv
<1>2. \A z \in zombies' : z.id \in memories'
  BY MemoriesKept DEF IInv
<1>3. \A b \in Batches : BatchInv(b)'
  BY EmptyInv
<1>4. QED  BY <1>1, <1>2, <1>3 DEF IInv

(* The idle workflow state is well-typed. *)
LEMMA IdleType ==
  /\ Idle \in [pc : {"idle", "count", "plan", "await", "sleep"},
               version : Versions \cup {0}, waves : 0..(MaxWaves - 1)]
  /\ Idle.pc = "idle"
BY SweepAssumption DEF Idle

(* A tick starts a sweep at the version of the schedule. *)
LEMMA ScheduleFiresInv == ASSUME IInv, ScheduleFires PROVE IInv'
<1>1. STypeOK' /\ sweep'.version \in Versions
  BY SweepAssumption DEF ScheduleFires, IInv, STypeOK
<1>2. \A b \in Batches : batch'[b] = NoBatch /\ run'[b] = NoRun
  BY BetweenWaves DEF ScheduleFires
<1>3. QED  BY <1>1, <1>2, WorkflowStep DEF ScheduleFires

(* CountBacklog only moves the workflow. *)
LEMMA CountBacklogInv == ASSUME IInv, CountBacklog PROVE IInv'
<1>1. STypeOK' /\ (sweep'.pc # "idle" => sweep'.version \in Versions)
  <2>1. CASE sweep' = Idle
    BY <2>1, IdleType DEF CountBacklog, IInv, STypeOK
  <2>2. CASE sweep' = [sweep EXCEPT !.pc = "plan"]
    BY <2>2 DEF CountBacklog, IInv, STypeOK
  <2>3. QED  BY <2>1, <2>2 DEF CountBacklog
<1>2. \A b \in Batches : batch'[b] = NoBatch /\ run'[b] = NoRun
  BY BetweenWaves DEF CountBacklog
<1>3. QED  BY <1>1, <1>2, WorkflowStep DEF CountBacklog

(* A failed sweep ends between two waves. *)
LEMMA SweepFailsInv == ASSUME IInv, SweepFails PROVE IInv'
<1>1. faults' \in 0..MaxFaults
  BY SweepAssumption DEF SweepFails, Fault, IInv, STypeOK
<1>2. STypeOK' /\ sweep'.pc = "idle"
  BY <1>1, IdleType DEF SweepFails, IInv, STypeOK
<1>3. \A b \in Batches : batch'[b] = NoBatch /\ run'[b] = NoRun
  BY BetweenWaves DEF SweepFails
<1>4. QED  BY <1>2, <1>3, WorkflowStep DEF SweepFails

(* After a wave no batch is left. *)
LEMMA AwaitAllInv == ASSUME IInv, AwaitAll PROVE IInv'
<1>1. NoBatch \in BatchRec
  BY SweepAssumption, ConstantsAssumption DEF NoBatch, BatchRec
<1>2. STypeOK'
  BY <1>1 DEF AwaitAll, IInv, STypeOK
<1>3. sweep'.version \in Versions
  BY DEF AwaitAll, IInv, STypeOK
<1>4. \A b \in Batches : batch'[b] = NoBatch /\ run'[b] = NoRun
  BY BatchTypes DEF AwaitAll, BatchInv, BatchShape
<1>5. QED  BY <1>2, <1>3, <1>4, WorkflowStep DEF AwaitAll

(* The pause between waves only lets time pass. *)
LEMMA WakeInv == ASSUME IInv, Wake PROVE IInv' /\ [LNext]_lvars
<1>1. [LNext]_lvars
  BY DEF Wake, LNext
<1>2. STypeOK' /\ (sweep'.pc # "idle" => sweep'.version \in Versions)
  <2>1. CASE sweep' = Idle
    BY <2>1, IdleType DEF Wake, IInv, STypeOK
  <2>2. CASE /\ sweep.waves + 1 < MaxWaves
             /\ sweep' = [sweep EXCEPT !.pc = "count", !.waves = @ + 1]
    <3>1. sweep.waves + 1 \in 0..(MaxWaves - 1) /\ sweep.version \in Versions
      BY <2>2, SweepAssumption DEF Wake, IInv, STypeOK
    <3>2. QED  BY <2>2, <3>1 DEF Wake, IInv, STypeOK
  <2>3. QED  BY <2>1, <2>2 DEF Wake
<1>3. \A b \in Batches : batch'[b] = NoBatch /\ run'[b] = NoRun
  BY BetweenWaves DEF Wake
<1>4. QED  BY <1>1, <1>2, <1>3, WorkflowStep DEF Wake

(* Time changes no row. *)
LEMMA TimeInv == ASSUME IInv, Time PROVE IInv' /\ [LNext]_lvars
<1>1. [LNext]_lvars
  BY DEF Time, LNext
<1>2. STypeOK' /\ UNCHANGED svars
  BY DEF Time, svars, IInv, STypeOK
<1>3. LTypeOK' /\ \A z \in zombies' : z.id \in memories'
  BY <1>1, <1>2, LTypeStep, MemoriesKept DEF IInv, svars
<1>4. \A b \in Batches : BatchInv(b)'
  BY <1>1, <1>2, Frame DEF svars
<1>5. QED  BY <1>1, <1>2, <1>3, <1>4 DEF IInv, svars

(* A new memory has no rows and is in no batch. *)
LEMMA UploadMemoryInv ==
  ASSUME IInv, NEW m \in Memories, UploadMemory(m)
  PROVE  IInv' /\ [LNext]_lvars
<1>1. [LNext]_lvars
  BY DEF UploadMemory, LNext
<1>2. STypeOK' /\ UNCHANGED svars
  BY DEF UploadMemory, svars, IInv, STypeOK
<1>3. LTypeOK' /\ \A z \in zombies' : z.id \in memories'
  BY <1>1, <1>2, LTypeStep, MemoriesKept DEF IInv, svars
<1>4. \A b \in Batches : BatchInv(b)'
  BY <1>1, <1>2, Frame DEF svars
<1>5. QED  BY <1>1, <1>2, <1>3, <1>4 DEF IInv, svars

(* A zombie writes at most one row, of an existing memory. *)
LEMMA ZombieStepInv ==
  ASSUME IInv, NEW z \in zombies, ZombieStep(z)
  PROVE  IInv' /\ [LNext]_lvars
<1>1. /\ z.id \in memories /\ z.version \in Versions
      /\ z.attempt \in 1..ActAttempts
  BY DEF IInv, STypeOK, ZombieRec
<1>2. [LNext]_lvars
  <2>1. \/ UNCHANGED lvars
        \/ InsertDone(z.id, z.version, z.attempt)
        \/ \E p \in BOOLEAN : InsertFailed(z.id, z.version, z.attempt, p)
    BY DEF ZombieStep
  <2>2. QED  BY <1>1, <2>1, StoreCall
<1>3. STypeOK' /\ batch' = batch /\ run' = run /\ sweep' = sweep /\ zombies' \subseteq zombies
  BY DEF ZombieStep, IInv, STypeOK
<1>4. LTypeOK' /\ \A y \in zombies' : y.id \in memories'
  BY <1>2, <1>3, LTypeStep, MemoriesKept DEF IInv
<1>5. \A b \in Batches : BatchInv(b)'
  BY <1>2, <1>3, Frame
<1>6. QED  BY <1>2, <1>3, <1>4, <1>5 DEF IInv

(* A restart forgets the worker state and keeps what the server recorded. *)
LEMMA ServerStartInv ==
  ASSUME IInv, NEW v \in Versions, ServerStart(v)
  PROVE  IInv'
<1>1. /\ UNCHANGED lvars /\ UNCHANGED sweep /\ zombies' = {}
      /\ run' = [b \in Batches |-> NoRun]
      /\ batch' = [b \in Batches |-> IF batch[b].st = "running"
                                     THEN [batch[b] EXCEPT !.st = "lost"]
                                     ELSE batch[b]]
  BY DEF ServerStart
<1>2. faults' \in 0..MaxFaults
  BY SweepAssumption DEF ServerStart, Fault, IInv, STypeOK
<1>3. \A b \in Batches :
        /\ batch'[b] \in BatchRec /\ batch'[b].ids = batch[b].ids
        /\ batch'[b].hb = batch[b].hb /\ batch'[b].attempt = batch[b].attempt
        /\ batch'[b].st # "running"
        /\ batch'[b].st = "none" => batch'[b] = batch[b]
        /\ batch[b].st = "none" => batch'[b] = batch[b]
  <2> TAKE b \in Batches
  <2>1. CASE batch[b].st = "running"
    BY <1>1, <2>1, BatchTypes DEF BatchRec
  <2>2. CASE batch[b].st # "running"
    BY <1>1, <2>2, BatchTypes DEF BatchRec
  <2>3. QED  BY <2>1, <2>2
<1>4. STypeOK'
  <2>1. batch' \in [Batches -> BatchRec]
    BY <1>1, <1>3
  <2>2. run' \in [Batches -> RunRec]
    BY <1>1, NoRunFacts
  <2>3. deployed' \in Versions \cup {0} /\ schedule' \in Versions \cup {0}
    BY DEF ServerStart, EnsureSchedule, IInv, STypeOK
  <2>4. QED  BY <1>1, <1>2, <2>1, <2>2, <2>3 DEF IInv, STypeOK
<1>5. ASSUME NEW b \in Batches PROVE BatchInv(b)'
  <2>1. BatchShape(b)'
    BY <1>1, <1>3, BatchTypes, NoRunFacts DEF BatchInv, BatchShape, lvars
  <2>2. Covered(b, batch[b].hb)'
    BY <1>1, <1>3, BatchTypes, TerminalKept
       DEF IInv, BatchInv, WatermarkInv, Covered, ItemSettled
  <2>3. Covered(b, 0)' /\ Covered(b, -1)'
    BY DEF Covered
  <2>4. run'[b] = NoRun
    BY <1>1
  <2>5. /\ NoRun.watermark = 0 /\ NoRun.buffered = -1
        /\ \A j \in Items : NoRun.note[j] = 0
    BY DEF NoRun
  <2>6. /\ batch'[b].hb <= Len(batch'[b].ids)
        /\ 0 <= Len(batch'[b].ids) /\ -1 <= Len(batch'[b].ids)
    BY <1>3, BatchTypes
  <2>7. WatermarkInv(b)'
    <3>1. \A j \in Items : /\ run'[b].note[j] = 0 /\ run'[b].item[j] = "end"
                           /\ j \notin run'[b].terminal
      BY <2>4, <2>5, NoRunFacts
    <3>2. run'[b].watermark = 0 /\ run'[b].buffered = -1
      BY <2>4, <2>5
    <3>3. QED  BY <2>2, <2>3, <2>6, <3>1, <3>2 DEF WatermarkInv, Covered
  <2>8. QED  BY <2>1, <2>7 DEF BatchInv
<1>6. QED
  BY <1>1, <1>4, <1>5 DEF IInv, lvars, LTypeOK

(* The number of failures is a number. *)
LEMMA NFailNat ==
  ASSUME LTypeOK, NEW m \in Memories, NEW v
  PROVE  NFail(m, v) \in Nat
<1>1. FailedRows(m, v) \in SUBSET (1..Len(events[m])) /\ Len(events[m]) \in Nat
  BY DEF LTypeOK, FailedRows
<1>2. IsFiniteSet(1..Len(events[m]))
  BY <1>1, FS_Interval
<1>3. IsFiniteSet(FailedRows(m, v))
  BY <1>1, <1>2, FS_Subset
<1>4. QED  BY <1>3, FS_CardinalityType DEF NFail

(* A page holds ids of the snapshot, at most BatchSize of them. *)
LEMMA PageTypes ==
  ASSUME NEW P, NEW s \in Seq(P), NEW b \in Batches
  PROVE  /\ Page(s, b) \in Seq(P)
         /\ Len(Page(s, b)) \in 0..BatchSize
<1> DEFINE lo == (b - 1) * BatchSize + 1
           hi == Lesser(b * BatchSize, Len(s))
<1>1. lo \in Nat \ {0} /\ hi \in Nat /\ hi <= Len(s) /\ hi - lo + 1 <= BatchSize
  <2>1. b \in Nat \ {0} /\ BatchSize \in Nat \ {0} /\ Len(s) \in Nat
    BY SweepAssumption DEF Batches
  <2>2. b * BatchSize = (b - 1) * BatchSize + BatchSize /\ (b - 1) * BatchSize \in Nat
    BY <2>1
  <2>3. QED  BY <2>1, <2>2 DEF Lesser
<1> HIDE DEF lo, hi
<1>2. \A i \in lo..hi : s[i] \in P
  BY <1>1
<1>3. /\ SubSeq(s, lo, hi) \in Seq(P)
      /\ Len(SubSeq(s, lo, hi)) = IF lo <= hi THEN hi - lo + 1 ELSE 0
  BY <1>1, <1>2, SubSeqProperties
<1>4. Len(SubSeq(s, lo, hi)) \in 0..BatchSize
  BY <1>1, <1>3, SweepAssumption
<1>5. Page(s, b) = SubSeq(s, lo, hi)
  BY DEF Page, lo, hi
<1>6. QED  BY <1>3, <1>4, <1>5

(* A planned page holds committed memories and starts with nothing recorded. *)
LEMMA PlanRangesInv == ASSUME IInv, PlanRanges PROVE IInv'
<1> DEFINE v == sweep.version
           P == Pending(v)
<1>1. PICK s \in Snapshots(P, BatchSize * FanOut) :
        IF s = <<>> THEN sweep' = Idle /\ UNCHANGED batch
        ELSE /\ sweep' = [sweep EXCEPT !.pc = "await"]
             /\ batch' = [b \in Batches |-> Scheduled(Page(s, b), v)]
  BY DEF PlanRanges
<1>2. /\ sweep.pc = "plan" /\ sweep.version \in Versions
      /\ UNCHANGED <<lvars, deployed, schedule, run, zombies, faults>>
  BY DEF PlanRanges, IInv
<1>3. \A b \in Batches : batch[b] = NoBatch /\ run[b] = NoRun
  BY <1>2, BetweenWaves
<1>4. CASE s = <<>>
  <2>1. sweep' = Idle /\ batch' = batch
    BY <1>1, <1>4
  <2>2. STypeOK' /\ sweep'.pc = "idle"
    BY <1>2, <2>1, IdleType DEF IInv, STypeOK
  <2>3. QED  BY <1>2, <1>3, <2>1, <2>2, WorkflowStep
<1>5. CASE s # <<>>
  <2>1. /\ sweep' = [sweep EXCEPT !.pc = "await"]
        /\ batch' = [b \in Batches |-> Scheduled(Page(s, b), v)]
    BY <1>1, <1>5
  <2>2. P \subseteq memories /\ memories \subseteq Memories
    BY DEF Pending, IInv, LTypeOK
  <2>3. s \in Seq(P)
    <3>1. PICK k \in 0..Lesser(BatchSize * FanOut, Cardinality(P)) : s \in [1..k -> P]
      BY DEF Snapshots
    <3>2. k \in Nat
      OBVIOUS
    <3>3. QED  BY <3>1, <3>2
  <2>4. ASSUME NEW b \in Batches
        PROVE  /\ batch'[b] \in BatchRec
               /\ batch'[b].st \in {"none", "queued"}
               /\ batch'[b].st = "none" => batch'[b] = NoBatch
               /\ batch'[b].st = "queued" => batch'[b].attempt \in 1..ActAttempts
               /\ Len(batch'[b].ids) \in 0..BatchSize
               /\ batch'[b].hb = 0
               /\ \A i \in 1..Len(batch'[b].ids) : batch'[b].ids[i] \in memories
    <3>1. PICK ids : ids = Page(s, b)
      OBVIOUS
    <3>2. ids \in Seq(P) /\ Len(ids) \in 0..BatchSize
      BY <2>3, <3>1, PageTypes
    <3>3. batch'[b] = Scheduled(ids, v)
      BY <2>1, <3>1
    <3>4. CASE ids = <<>>
      <4>1. batch'[b] = NoBatch
        BY <3>3, <3>4 DEF Scheduled
      <4>2. QED
        BY <4>1, SweepAssumption, ConstantsAssumption DEF NoBatch, BatchRec
    <3>5. CASE ids # <<>>
      <4>1. PICK cl : cl = [i \in DOMAIN ids |-> NFail(ids[i], v)]
        OBVIOUS
      <4>2. batch'[b] = [st |-> "queued", ids |-> ids, attempt |-> 1, hb |-> 0,
                         claimed |-> cl]
        BY <3>3, <3>5, <4>1 DEF Scheduled
      <4>3. \A i \in 1..Len(ids) : ids[i] \in memories /\ ids[i] \in Memories
        BY <2>2, <3>2
      <4>4. \A i \in 1..Len(ids) : NFail(ids[i], v) \in Nat
        BY <4>3, NFailNat DEF IInv
      <4>5. cl \in Seq(Nat)
        BY <3>2, <4>1, <4>4
      <4>6. ids \in Seq(Memories)
        BY <2>2, <3>2
      <4>7. 1 \in 0..ActAttempts /\ 1 \in 1..ActAttempts /\ 0 \in 0..BatchSize
        BY ConstantsAssumption, SweepAssumption
      <4>8. QED
        BY <3>2, <4>2, <4>3, <4>5, <4>6, <4>7 DEF BatchRec
    <3>6. QED  BY <3>4, <3>5
  <2>5. STypeOK' /\ sweep'.pc = "await" /\ sweep'.version \in Versions
    <3>1. batch' \in [Batches -> BatchRec]
      BY <2>1, <2>4
    <3>2. sweep' \in [pc : {"idle", "count", "plan", "await", "sleep"},
                      version : Versions \cup {0}, waves : 0..(MaxWaves - 1)]
      BY <2>1 DEF IInv, STypeOK
    <3>3. sweep'.pc = "await" /\ sweep'.version \in Versions
      BY <1>2, <2>1 DEF IInv, STypeOK
    <3>4. QED  BY <1>2, <3>1, <3>2, <3>3 DEF IInv, STypeOK
  <2>6. ASSUME NEW b \in Batches PROVE BatchInv(b)'
    <3>1. run'[b] = NoRun
      BY <1>2, <1>3
    <3>2. BatchShape(b)'
      BY <1>2, <2>4, <2>5, <3>1, NoRunFacts, SweepAssumption DEF BatchShape, lvars
    <3>3. Covered(b, 0)' /\ Covered(b, -1)'
      BY DEF Covered
    <3>4. /\ NoRun.watermark = 0 /\ NoRun.buffered = -1
          /\ \A j \in Items : NoRun.note[j] = 0
      BY DEF NoRun
    <3>5. WatermarkInv(b)'
      BY <2>4, <3>1, <3>3, <3>4, NoRunFacts, SweepAssumption
         DEF WatermarkInv, Covered, ItemSettled
    <3>6. QED  BY <3>2, <3>5 DEF BatchInv
  <2>7. LTypeOK' /\ \A z \in zombies' : z.id \in memories'
    BY <1>2 DEF IInv, lvars, LTypeOK
  <2>8. QED  BY <2>5, <2>6, <2>7 DEF IInv
<1>6. QED  BY <1>4, <1>5

-----------------------------------------------------------------------------
(* The theorems.                                                           *)

(* The invariant holds initially. *)
LEMMA InitInv == Init => IInv
<1> SUFFICES ASSUME Init PROVE IInv
  OBVIOUS
<1>1. LTypeOK
  BY DEF Init, LInit, LTypeOK
<1>2. NoBatch \in BatchRec
  BY SweepAssumption, ConstantsAssumption DEF NoBatch, BatchRec
<1>3. STypeOK
  BY <1>2, NoRunFacts, IdleType, SweepAssumption DEF Init, STypeOK
<1>4. sweep.pc = "idle" /\ zombies = {}
  BY IdleType DEF Init
<1>5. ASSUME NEW b \in Batches PROVE BatchInv(b)
  <2>1. batch[b] = NoBatch /\ run[b] = NoRun
    BY DEF Init
  <2>2. BatchShape(b)
    BY <2>1, NoRunFacts, SweepAssumption DEF BatchShape, NoBatch
  <2>3. WatermarkInv(b)
    BY <2>1 DEF WatermarkInv, Covered, NoBatch, NoRun
  <2>4. QED  BY <2>2, <2>3 DEF BatchInv
<1>6. QED  BY <1>1, <1>3, <1>4, <1>5 DEF IInv

(* Every step preserves the invariant, and is a step of the ledger or      *)
(* leaves it alone.                                                        *)
LEMMA StepInv == IInv /\ [Next]_vars => IInv' /\ [LNext]_lvars
<1> SUFFICES ASSUME IInv, [Next]_vars PROVE IInv' /\ [LNext]_lvars
  OBVIOUS
<1>1. CASE ScheduleFires
  BY <1>1, ScheduleFiresInv DEF ScheduleFires
<1>2. CASE CountBacklog
  BY <1>2, CountBacklogInv DEF CountBacklog
<1>3. CASE PlanRanges
  BY <1>3, PlanRangesInv DEF PlanRanges
<1>4. CASE AwaitAll
  BY <1>4, AwaitAllInv DEF AwaitAll
<1>5. CASE Wake
  BY <1>5, WakeInv
<1>6. CASE SweepFails
  BY <1>6, SweepFailsInv DEF SweepFails
<1>7. CASE Time
  BY <1>7, TimeInv
<1>8. ASSUME NEW v \in Versions, ServerStart(v) PROVE IInv' /\ [LNext]_lvars
  BY <1>8, ServerStartInv DEF ServerStart
<1>9. ASSUME NEW m \in Memories, UploadMemory(m) PROVE IInv' /\ [LNext]_lvars
  BY <1>9, UploadMemoryInv
<1>10. ASSUME NEW z \in zombies, ZombieStep(z) PROVE IInv' /\ [LNext]_lvars
  BY <1>10, ZombieStepInv
<1>11. ASSUME NEW b \in Batches, StartAttempt(b) PROVE IInv' /\ [LNext]_lvars
  BY <1>11, StartAttemptInv DEF StartAttempt
<1>12. ASSUME NEW b \in Batches, Finish(b) PROVE IInv' /\ [LNext]_lvars
  BY <1>12, FinishInv DEF Finish
<1>13. ASSUME NEW b \in Batches, LostTimesOut(b) PROVE IInv' /\ [LNext]_lvars
  BY <1>13, LostTimesOutInv DEF LostTimesOut
<1>14. ASSUME NEW b \in Batches, FetchTextsFails(b) PROVE IInv' /\ [LNext]_lvars
  BY <1>14, FetchTextsFailsInv DEF FetchTextsFails
<1>15. ASSUME NEW b \in Batches, SlowTimesOut(b) PROVE IInv' /\ [LNext]_lvars
  BY <1>15, SlowTimesOutInv DEF SlowTimesOut
<1>16. ASSUME NEW b \in Batches, FlushHeartbeat(b) PROVE IInv' /\ [LNext]_lvars
  BY <1>16, FlushHeartbeatInv DEF FlushHeartbeat
<1>17. ASSUME NEW b \in Batches, NEW i \in Items, ItemStep(b, i)
       PROVE  IInv' /\ [LNext]_lvars
  <2>1. CASE StartItem(b, i)
    BY <2>1, StartItemInv DEF StartItem
  <2>2. CASE ItemDone(b, i)
    BY <2>2, ItemDoneInv
  <2>3. ASSUME NEW p \in BOOLEAN, ItemFailed(b, i, p) PROVE IInv' /\ [LNext]_lvars
    BY <2>3, ItemFailedInv
  <2>4. CASE Mark(b, i)
    BY <2>4, MarkInv DEF Mark
  <2>5. CASE Current(b, i)
    BY <2>5, CurrentInv DEF Current
  <2>6. CASE RecordHeartbeat(b, i)
    BY <2>6, RecordHeartbeatInv DEF RecordHeartbeat
  <2>7. QED  BY <1>17, <2>1, <2>2, <2>3, <2>4, <2>5, <2>6 DEF ItemStep
<1>18. ASSUME NEW b \in Batches, NEW i \in Items, ItemStoreError(b, i)
       PROVE  IInv' /\ [LNext]_lvars
  BY <1>18, ItemStoreErrorInv
<1>19. CASE UNCHANGED vars
  <2>1. [LNext]_lvars /\ STypeOK' /\ LTypeOK' /\ UNCHANGED svars
    BY <1>19 DEF vars, svars, lvars, IInv, STypeOK, LTypeOK
  <2>2. \A b \in Batches : BatchInv(b)'
    BY <2>1, Frame DEF svars
  <2>3. QED
    BY <2>1, <2>2, MemoriesKept DEF IInv, svars
<1>20. QED
  BY <1>1, <1>2, <1>3, <1>4, <1>5, <1>6, <1>7, <1>8, <1>9, <1>10, <1>11,
     <1>12, <1>13, <1>14, <1>15, <1>16, <1>17, <1>18, <1>19
     DEF Next, SystemStep, FaultStep

(* The inductive invariant holds in every reachable state. *)
THEOREM Invariance == Spec => []IInv
<1>1. QED  BY InitInv, StepInv, PTL DEF Spec

(* Types of the workflow, the activities, their runs and the zombies. *)
THEOREM SweepTypeCorrect == Spec => []STypeOK
<1>1. IInv => STypeOK
  BY DEF IInv
<1>2. QED  BY <1>1, Invariance, PTL

(* A retry never resumes past an unsettled item: for any batch size, any   *)
(* interleaving of the goroutines' heartbeats, any crash.                  *)
THEOREM ResumeSafe == Spec => []ResumePointSafe
<1>1. IInv => ResumePointSafe
  <2> SUFFICES ASSUME IInv, NEW b \in Batches
               PROVE  /\ batch[b].hb <= Len(batch[b].ids)
                      /\ \A i \in 1..batch[b].hb :
                            Terminal(batch[b].ids[i], sweep.version)
    BY DEF ResumePointSafe
  <2>1. batch[b].hb <= Len(batch[b].ids) /\ Covered(b, batch[b].hb)
    BY DEF IInv, BatchInv, WatermarkInv
  <2>2. QED  BY <2>1 DEF Covered, ItemSettled, TerminalPairs
<1>2. QED  BY <1>1, Invariance, PTL

(* The sweep, its retries, faults and zombies included, implements the     *)
(* insert-only ledger.                                                     *)
THEOREM ImplementsLedger == Spec => LedgerSpec
<1>1. Init => LInit
  BY DEF Init
<1>2. QED
  BY <1>1, Invariance, StepInv, PTL DEF Spec, LedgerSpec, LSpec

(* So the sweep never writes a second done row for a memory and version.   *)
THEOREM SweepOneDone == Spec => []AtMostOneDone
<1>1. QED  BY ImplementsLedger, OneDone DEF LedgerSpec

(* And it never removes or rewrites a row. *)
THEOREM SweepHistory == Spec => HistoryImmutable
<1>1. QED  BY ImplementsLedger, History DEF LedgerSpec

(* And it leaves no memory in limbo between claim and dead letter. *)
THEOREM SweepLimboFree == Spec => []NoLimbo
<1>1. QED  BY ImplementsLedger, LimboFree DEF LedgerSpec

-----------------------------------------------------------------------------
(* What a wave does to the memories it claimed: the second invariant, on   *)
(* top of IInv.                                                            *)

(* Item i of a run has not written its row in this attempt. *)
Unwritten(R, i) == R.item[i] \in {"todo", "embed", "doomed"}

(* Since b was claimed, item i was settled or failed once more. *)
Progressed(b, i) ==
    \/ ItemSettled(b, i)
    \/ NFail(batch[b].ids[i], sweep.version) > batch[b].claimed[i]

(* The rows that the attempts of an activity B may still write for item i, *)
(* R being the run of its current attempt.                                 *)
RowsLeft(B, R, i) ==
    LET later == ActAttempts - B.attempt
    IN  IF B.st = "queued" \/ (B.st = "running" /\ Unwritten(R, i)) THEN later + 1
        ELSE IF B.st \in {"running", "lost"} THEN later
        ELSE 0

(* The zombies in Z that may still write a row of m at v. *)
ZombiesOf(Z, m, v) == {z \in Z : z.id = m /\ z.version = v}

(* The failures of m at v, with those its zombies may still add. *)
FailuresDue(m, v) == NFail(m, v) + Cardinality(ZombiesOf(zombies, m, v))

Budget == MaxAttempts - 1 + ActAttempts + faults

ClaimInv(b) ==
    /\ Len(batch[b].claimed) = Len(batch[b].ids)
    /\ \A i \in 1..Len(batch[b].ids) :
          batch[b].claimed[i] <= NFail(batch[b].ids[i], sweep.version)

(* No attempt loses an item: whatever is neither waiting nor being         *)
(* embedded made progress, unless a store error makes the attempt fail.    *)
NothingDropped(b) ==
    /\ batch[b].st = "ok" => \A i \in 1..Len(batch[b].ids) : Progressed(b, i)
    /\ batch[b].st = "running" /\ ~run[b].err =>
          \A i \in 1..Len(batch[b].ids) : Unwritten(run[b], i) \/ Progressed(b, i)

(* A fault leaves at most one zombie of a memory and version. *)
ZombieInv ==
    /\ \A z \in zombies : z.tag < faults
    /\ \A y, z \in zombies :
          y.id = z.id /\ y.version = z.version /\ y.tag = z.tag => y = z

(* The budget covers the failures on record, those of the zombies and      *)
(* those that the current activity may still record.                       *)
BudgetInv ==
    /\ \A m \in Memories, v \in Versions : FailuresDue(m, v) <= Budget
    /\ \A b \in Batches : \A i \in 1..Len(batch[b].ids) :
          FailuresDue(batch[b].ids[i], sweep.version)
             + RowsLeft(batch[b], run[b], i) <= Budget

JInv ==
    /\ SiblingsDisjoint
    /\ \A b \in Batches : ClaimInv(b) /\ NothingDropped(b)
    /\ ZombieInv
    /\ BudgetInv

(* Sets of rows of one memory are finite. *)
LEMMA RowsFinite ==
  ASSUME NEW s \in Seq(Row), NEW F \in SUBSET DOMAIN s
  PROVE  IsFiniteSet(F) /\ Cardinality(F) \in Nat
<1>1. DOMAIN s = 1..Len(s) /\ Len(s) \in Nat
  OBVIOUS
<1>2. IsFiniteSet(1..Len(s))
  BY <1>1, FS_Interval
<1>3. QED  BY <1>1, <1>2, FS_Subset, FS_CardinalityType

(* Failures are counted by numbers that never shrink. *)
LEMMA FailuresKept ==
  ASSUME LTypeOK, [LNext]_lvars, NEW m \in Memories, NEW v
  PROVE  NFail(m, v) \in Nat /\ NFail(m, v)' \in Nat /\ NFail(m, v) <= NFail(m, v)'
<1> DEFINE F == FailedRows(m, v)
           G == FailedRows(m, v)'
<1>1. events[m] \in Seq(Row) /\ events'[m] \in Seq(Row)
  BY LTypeStep DEF LTypeOK
<1>2. F \in SUBSET DOMAIN events[m] /\ G \in SUBSET DOMAIN events'[m]
  BY DEF FailedRows
<1>3. F \in SUBSET G
  BY HistoryKept DEF HistoryStep, FailedRows
<1> HIDE DEF F, G
<1>4. Cardinality(F) \in Nat /\ Cardinality(G) \in Nat /\ IsFiniteSet(G)
  BY <1>1, <1>2, RowsFinite
<1>5. Cardinality(F) <= Cardinality(G)
  BY <1>3, <1>4, FS_Subset
<1>6. QED  BY <1>4, <1>5 DEF NFail, F, G

(* An appended row is one more failure of its own memory and version, if   *)
(* it is a failed row, and changes no other count.                         *)
LEMMA AppendCounts ==
  ASSUME LTypeOK, NEW m \in Memories, NEW r \in Row, AppendRow(m, r),
         NEW n \in Memories, NEW v
  PROVE  NFail(n, v)' = IF n = m /\ r.version = v /\ r.status = "failed"
                        THEN NFail(n, v) + 1 ELSE NFail(n, v)
<1> DEFINE k == Len(events[m]) + 1
<1>1. events[m] \in Seq(Row) /\ events' = [events EXCEPT ![m] = Append(events[m], r)]
  BY DEF LTypeOK, AppendRow
<1>2. CASE n # m
  <2>1. events'[n] = events[n]
    BY <1>1, <1>2 DEF LTypeOK
  <2>2. QED  BY <1>2, <2>1 DEF NFail, FailedRows
<1>3. CASE n = m
  <2>1. /\ DOMAIN events'[m] = DOMAIN events[m] \cup {k}
        /\ k \notin DOMAIN events[m] /\ events'[m][k] = r
        /\ \A i \in DOMAIN events[m] : events'[m][i] = events[m][i]
    <3>1. events'[m] = Append(events[m], r)
      BY <1>1 DEF LTypeOK
    <3>2. QED  BY <1>1, <3>1
  <2>2. FailedRows(m, v)' = IF r.version = v /\ r.status = "failed"
                            THEN FailedRows(m, v) \cup {k} ELSE FailedRows(m, v)
    BY <2>1 DEF FailedRows
  <2>3. FailedRows(m, v) \in SUBSET DOMAIN events[m] /\ k \notin FailedRows(m, v)
    BY <2>1 DEF FailedRows
  <2>4. IsFiniteSet(FailedRows(m, v))
    BY <1>1, <2>3, RowsFinite
  <2>5. Cardinality(FailedRows(m, v) \cup {k}) = Cardinality(FailedRows(m, v)) + 1
    BY <2>3, <2>4, FS_AddElement
  <2>6. QED  BY <1>3, <2>2, <2>5 DEF NFail
<1>4. QED  BY <1>2, <1>3

(* What the store calls for m at v do to the counts. *)
LEMMA StoreCounts ==
  ASSUME LTypeOK, NEW m \in memories, NEW v \in Versions, NEW a \in 1..ActAttempts,
         NEW n \in Memories, NEW w
  PROVE  /\ InsertDone(m, v, a) \/ UNCHANGED lvars => NFail(n, w)' = NFail(n, w)
         /\ \A p \in BOOLEAN : InsertFailed(m, v, a, p) =>
               NFail(n, w)' = IF n = m /\ w = v THEN NFail(n, w) + 1 ELSE NFail(n, w)
<1>1. m \in Memories /\ a \in Nat
  BY ConstantsAssumption DEF LTypeOK
<1>2. UNCHANGED events => NFail(n, w)' = NFail(n, w)
  BY DEF NFail, FailedRows
<1>3. ASSUME InsertDone(m, v, a) PROVE NFail(n, w)' = NFail(n, w)
  <2>1. CASE HasDone(m, v)
    BY <1>2, <1>3, <2>1 DEF InsertDone
  <2>2. CASE ~HasDone(m, v)
    <3>1. AppendRow(m, DoneRow(v, a)) /\ DoneRow(v, a) \in Row
      BY <1>1, <1>3, <2>2, RowTypes DEF InsertDone
    <3>2. DoneRow(v, a).status # "failed"
      BY DEF DoneRow
    <3>3. QED  BY <1>1, <3>1, <3>2, AppendCounts
  <2>3. QED  BY <2>1, <2>2
<1>4. ASSUME NEW p \in BOOLEAN, InsertFailed(m, v, a, p)
      PROVE  NFail(n, w)' = IF n = m /\ w = v THEN NFail(n, w) + 1 ELSE NFail(n, w)
  <2> DEFINE r == [version |-> v, attempt |-> a,
                   status |-> "failed", permanent |-> p]
  <2>1. AppendRow(m, r) /\ r \in Row
    BY <1>1, <1>4, RowTypes DEF InsertFailed
  <2>2. r.version = v /\ r.status = "failed"
    OBVIOUS
  <2> HIDE DEF r
  <2>3. QED  BY <1>1, <2>1, <2>2, AppendCounts
<1>5. UNCHANGED lvars => NFail(n, w)' = NFail(n, w)
  BY <1>2 DEF lvars
<1>6. QED  BY <1>3, <1>4, <1>5

(* Zombies of one memory and version are told apart by the fault that made *)
(* them: there are no more of them than faults.                            *)
LEMMA ZombieCount ==
  ASSUME NEW Z \in SUBSET ZombieRec, NEW f \in Nat, \A z \in Z : z.tag < f,
         \A y, z \in Z : y.id = z.id /\ y.version = z.version /\ y.tag = z.tag => y = z,
         NEW m, NEW v
  PROVE  /\ IsFiniteSet(ZombiesOf(Z, m, v))
         /\ Cardinality(ZombiesOf(Z, m, v)) \in 0..f
<1> DEFINE S == ZombiesOf(Z, m, v)
           T == 0..(f - 1)
           g == [z \in S |-> z.tag]
<1>1. \A z \in S : z \in Z /\ z.tag \in T
  BY DEF ZombiesOf, ZombieRec
<1>2. \A y, z \in S : y.tag = z.tag => y = z
  BY DEF ZombiesOf
<1> HIDE DEF S, T
<1>3. g \in Injection(S, T)
  BY <1>1, <1>2 DEF Injection, IsInjective
<1>4. IsFiniteSet(T) /\ Cardinality(T) = f
  <2>1. f - 1 \in Int /\ 0 \in Int
    OBVIOUS
  <2>2. /\ IsFiniteSet(0..(f - 1))
        /\ Cardinality(0..(f - 1)) = IF 0 > f - 1 THEN 0 ELSE (f - 1) - 0 + 1
    BY <2>1, FS_Interval
  <2>3. QED  BY <2>2 DEF T
<1>5. IsFiniteSet(S) /\ Cardinality(S) <= Cardinality(T)
  BY <1>3, <1>4, FS_Injection
<1>6. Cardinality(S) \in Nat
  BY <1>5, FS_CardinalityType
<1>7. QED  BY <1>4, <1>5, <1>6 DEF S

(* What an activity may still write is a number of rows. *)
LEMMA RowsLeftNat ==
  ASSUME NEW B \in BatchRec, NEW R \in RunRec, NEW i \in Items,
         B.st # "none" => B.attempt \in 1..ActAttempts
  PROVE  RowsLeft(B, R, i) \in Nat
BY ConstantsAssumption DEF RowsLeft, BatchRec

(* A claimed item is a committed memory, claimed at a version being swept. *)
LEMMA ClaimedTypes ==
  ASSUME IInv, NEW b \in Batches, NEW i \in 1..Len(batch[b].ids)
  PROVE  /\ batch[b].ids[i] \in Memories /\ batch[b].ids[i] \in memories
         /\ sweep.version \in Versions /\ sweep.pc = "await"
         /\ i \in Items
         /\ batch[b].st # "none" /\ batch[b].attempt \in 1..ActAttempts
         /\ batch[b].claimed \in Seq(Nat)
<1>1. batch[b].st # "none"
  BY BatchTypes DEF BatchInv, BatchShape, NoBatch
<1>2. i \in Items
  BY BatchTypes, SweepAssumption DEF Items
<1>3. QED
  BY <1>1, <1>2, BatchTypes DEF BatchInv, BatchShape, BatchRec, IInv, LTypeOK

(* The counts behind the budget are numbers, before and after a step. *)
LEMMA DueTypes ==
  ASSUME IInv, IInv', JInv, [LNext]_lvars, ZombieInv'
  PROVE  /\ faults \in Nat /\ faults' \in Nat
         /\ Budget \in Int /\ Budget' \in Int /\ Budget' = Budget + faults' - faults
         /\ \A m \in Memories, v \in Versions :
               /\ FailuresDue(m, v) \in Nat /\ FailuresDue(m, v)' \in Nat
               /\ Cardinality(ZombiesOf(zombies, m, v)) \in Nat
               /\ NFail(m, v) \in Nat
         /\ \A b \in Batches : \A i \in 1..Len(batch[b].ids) :
               RowsLeft(batch[b], run[b], i) \in Nat
         /\ \A b \in Batches : \A i \in Items :
               RowsLeft(batch'[b], run'[b], i) \in Nat
<1>1. faults \in Nat /\ faults' \in Nat /\ zombies \in SUBSET ZombieRec /\ zombies' \in SUBSET ZombieRec
  BY SweepAssumption DEF IInv, STypeOK
<1>2. Budget \in Int /\ Budget' \in Int /\ Budget' = Budget + faults' - faults
  BY <1>1, ConstantsAssumption DEF Budget
<1>3. ASSUME NEW m \in Memories, NEW v \in Versions
      PROVE  /\ FailuresDue(m, v) \in Nat /\ FailuresDue(m, v)' \in Nat
             /\ Cardinality(ZombiesOf(zombies, m, v)) \in Nat /\ NFail(m, v) \in Nat
  <2>1. NFail(m, v) \in Nat /\ NFail(m, v)' \in Nat
    BY FailuresKept DEF IInv
  <2>2. Cardinality(ZombiesOf(zombies, m, v)) \in 0..faults
    BY <1>1, ZombieCount DEF JInv, ZombieInv
  <2>3. Cardinality(ZombiesOf(zombies', m, v)) \in 0..faults'
    BY <1>1, ZombieCount DEF ZombieInv
  <2>4. FailuresDue(m, v)' = NFail(m, v)' + Cardinality(ZombiesOf(zombies', m, v))
    BY DEF FailuresDue, ZombiesOf
  <2>5. QED  BY <1>1, <2>1, <2>2, <2>3, <2>4 DEF FailuresDue
<1>4. \A b \in Batches : \A i \in 1..Len(batch[b].ids) :
         RowsLeft(batch[b], run[b], i) \in Nat
  BY ClaimedTypes, BatchTypes, RowsLeftNat
<1>5. ASSUME NEW b \in Batches, NEW i \in Items
      PROVE  RowsLeft(batch'[b], run'[b], i) \in Nat
  <2>1. batch'[b] \in BatchRec /\ run'[b] \in RunRec
    BY DEF IInv, STypeOK
  <2>2. batch'[b].st # "none" => batch'[b].attempt \in 1..ActAttempts
    BY DEF IInv, BatchInv, BatchShape
  <2>3. QED  BY <2>1, <2>2, RowsLeftNat
<1>6. QED  BY <1>1, <1>2, <1>3, <1>4, <1>5

(* Progress is never undone. *)
LEMMA ProgressKept ==
  ASSUME IInv, JInv, [LNext]_lvars, sweep' = sweep, NEW b \in Batches,
         batch'[b].ids = batch[b].ids, batch'[b].claimed = batch[b].claimed,
         NEW i \in 1..Len(batch[b].ids), Progressed(b, i)
  PROVE  Progressed(b, i)'
<1>1. batch[b].ids[i] \in Memories /\ batch[b].claimed[i] \in Nat
  BY ClaimedTypes DEF JInv, ClaimInv
<1>2. CASE ItemSettled(b, i)
  BY <1>2, TerminalKept DEF IInv, ItemSettled, Progressed
<1>3. CASE NFail(batch[b].ids[i], sweep.version) > batch[b].claimed[i]
  <2> DEFINE m == batch[b].ids[i]
             v == sweep.version
  <2>1. NFail(m, v) \in Nat /\ NFail(m, v)' \in Nat /\ NFail(m, v) <= NFail(m, v)'
    BY <1>1, FailuresKept DEF IInv
  <2>2. QED  BY <1>1, <1>3, <2>1 DEF Progressed
<1>4. QED  BY <1>2, <1>3 DEF Progressed

(* A step inside a wave keeps the second invariant if no item is dropped,  *)
(* no activity gets more rows to write, and a memory gets closer to its    *)
(* budget only through a row its activity had left.                        *)
LEMMA WaveStep ==
  ASSUME IInv, IInv', JInv, [LNext]_lvars, sweep' = sweep, faults <= faults',
         \A b \in Batches : /\ batch'[b].ids = batch[b].ids
                            /\ batch'[b].claimed = batch[b].claimed,
         ZombieInv',
         \A b \in Batches : NothingDropped(b)',
         \A b \in Batches : \A i \in 1..Len(batch[b].ids) :
            RowsLeft(batch'[b], run'[b], i) <= RowsLeft(batch[b], run[b], i),
         \A m \in Memories, v \in Versions :
            \/ FailuresDue(m, v)' <= FailuresDue(m, v)
            \/ \E b \in Batches : \E i \in 1..Len(batch[b].ids) :
                  /\ m = batch[b].ids[i] /\ v = sweep.version
                  /\ FailuresDue(m, v)' + RowsLeft(batch'[b], run'[b], i)
                        <= FailuresDue(m, v) + RowsLeft(batch[b], run[b], i)
  PROVE  JInv'
<1>1. SiblingsDisjoint'
  BY DEF JInv, SiblingsDisjoint
<1>2. ASSUME NEW b \in Batches PROVE ClaimInv(b)'
  <2>1. Len(batch'[b].claimed) = Len(batch'[b].ids)
    BY DEF JInv, ClaimInv
  <2>2. ASSUME NEW i \in 1..Len(batch[b].ids)
        PROVE  batch[b].claimed[i] <= NFail(batch[b].ids[i], sweep.version)'
    <3>1. PICK m \in Memories : m = batch[b].ids[i]
      BY ClaimedTypes
    <3>2. PICK v : v = sweep.version
      OBVIOUS
    <3>3. NFail(m, v) \in Nat /\ NFail(m, v)' \in Nat /\ NFail(m, v) <= NFail(m, v)'
      BY FailuresKept DEF IInv
    <3>4. batch[b].claimed[i] \in Nat
      BY ClaimedTypes DEF JInv, ClaimInv
    <3>5. batch[b].claimed[i] <= NFail(m, v)
      BY <3>1, <3>2 DEF JInv, ClaimInv
    <3>6. batch[b].claimed[i] <= NFail(m, v)'
      BY <3>3, <3>4, <3>5
    <3>7. NFail(batch[b].ids[i], sweep.version)' = NFail(m, v)'
      BY <3>1, <3>2
    <3>8. QED  BY <3>6, <3>7
  <2>3. QED  BY <2>1, <2>2 DEF ClaimInv
<1>3. ASSUME NEW m \in Memories, NEW v \in Versions
      PROVE  FailuresDue(m, v)' <= Budget'
  <2>1. CASE FailuresDue(m, v)' <= FailuresDue(m, v)
    <3>1. FailuresDue(m, v) <= Budget
      BY DEF JInv, BudgetInv
    <3>2. QED  BY <2>1, <3>1, DueTypes
  <2>2. ASSUME NEW b \in Batches, NEW i \in 1..Len(batch[b].ids),
               m = batch[b].ids[i], v = sweep.version,
               FailuresDue(m, v)' + RowsLeft(batch'[b], run'[b], i)
                  <= FailuresDue(m, v) + RowsLeft(batch[b], run[b], i)
        PROVE  FailuresDue(m, v)' <= Budget'
    <3>1. FailuresDue(m, v) + RowsLeft(batch[b], run[b], i) <= Budget
      BY <2>2 DEF JInv, BudgetInv
    <3>2. RowsLeft(batch'[b], run'[b], i) \in Nat /\ RowsLeft(batch[b], run[b], i) \in Nat
      BY ClaimedTypes, DueTypes
    <3>3. /\ FailuresDue(m, v) \in Nat /\ FailuresDue(m, v)' \in Nat
          /\ Budget \in Int /\ Budget' \in Int /\ Budget <= Budget'
      BY DueTypes
    <3>4. QED  BY <2>2, <3>1, <3>2, <3>3
  <2>3. QED  BY <2>1, <2>2
<1>4. ASSUME NEW c \in Batches, NEW j \in 1..Len(batch[c].ids),
             NEW m \in Memories, m = batch[c].ids[j],
             NEW v \in Versions, v = sweep.version
      PROVE  FailuresDue(m, v)' + RowsLeft(batch'[c], run'[c], j) <= Budget'
  <2>1. /\ FailuresDue(m, v) + RowsLeft(batch[c], run[c], j) <= Budget
        /\ RowsLeft(batch'[c], run'[c], j) <= RowsLeft(batch[c], run[c], j)
        /\ j \in Items
    BY <1>4, ClaimedTypes DEF JInv, BudgetInv
  <2>2. CASE FailuresDue(m, v)' <= FailuresDue(m, v)
    BY <2>1, <2>2, DueTypes
  <2>3. ASSUME NEW b \in Batches, NEW i \in 1..Len(batch[b].ids),
               m = batch[b].ids[i],
               FailuresDue(m, v)' + RowsLeft(batch'[b], run'[b], i)
                  <= FailuresDue(m, v) + RowsLeft(batch[b], run[b], i)
        PROVE  FailuresDue(m, v)' + RowsLeft(batch'[c], run'[c], j) <= Budget'
    <3>1. i \in DOMAIN batch[b].ids /\ j \in DOMAIN batch[c].ids
      BY BatchTypes
    <3>2. b = c /\ i = j
      <4>1. SiblingsDisjoint /\ batch[b].ids[i] = batch[c].ids[j]
        BY <1>4, <2>3 DEF JInv
      <4>2. QED  BY <3>1, <4>1 DEF SiblingsDisjoint
    <3>3. FailuresDue(m, v)' + RowsLeft(batch'[c], run'[c], j)
             <= FailuresDue(m, v) + RowsLeft(batch[c], run[c], j)
      BY <2>3, <3>2
    <3>4. RowsLeft(batch[c], run[c], j) \in Nat /\ RowsLeft(batch'[c], run'[c], j) \in Nat
      BY <2>1, DueTypes
    <3>5. /\ FailuresDue(m, v) \in Nat /\ FailuresDue(m, v)' \in Nat
          /\ Budget \in Int /\ Budget' \in Int /\ Budget <= Budget'
      BY DueTypes
    <3>6. QED  BY <2>1, <3>3, <3>4, <3>5
  <2>4. QED  BY <2>2, <2>3
<1>5. BudgetInv'
  <2>1. \A c \in Batches : \A j \in 1..Len(batch[c].ids) :
           FailuresDue(batch[c].ids[j], sweep.version)'
             + RowsLeft(batch'[c], run'[c], j) <= Budget'
    <3> SUFFICES ASSUME NEW c \in Batches, NEW j \in 1..Len(batch[c].ids)
                 PROVE  FailuresDue(batch[c].ids[j], sweep.version)'
                          + RowsLeft(batch'[c], run'[c], j) <= Budget'
      OBVIOUS
    <3>1. PICK m \in Memories : m = batch[c].ids[j]
      BY ClaimedTypes
    <3>2. PICK v \in Versions : v = sweep.version
      BY ClaimedTypes
    <3>3. FailuresDue(m, v)' + RowsLeft(batch'[c], run'[c], j) <= Budget'
      BY <1>4, <3>1, <3>2
    <3>4. FailuresDue(batch[c].ids[j], sweep.version)' = FailuresDue(m, v)'
      BY <3>1, <3>2
    <3>5. QED  BY <3>3, <3>4
  <2>2. QED  BY <1>3, <2>1 DEF BudgetInv, RowsLeft, Unwritten
<1>6. QED  BY <1>1, <1>2, <1>5 DEF JInv

(* An activity whose status, claim and run stay keeps its items. *)
LEMMA DroppedFrame ==
  ASSUME IInv, JInv, [LNext]_lvars, sweep' = sweep, NEW b \in Batches,
         batch'[b].ids = batch[b].ids, batch'[b].claimed = batch[b].claimed,
         batch'[b].st = batch[b].st, run'[b].err = run[b].err,
         \A i \in Items : Unwritten(run[b], i) => Unwritten(run'[b], i)
  PROVE  NothingDropped(b)'
<1>1. \A i \in 1..Len(batch[b].ids) : Progressed(b, i) => Progressed(b, i)'
  BY ProgressKept
<1>2. \A i \in 1..Len(batch[b].ids) : i \in Items
  BY ClaimedTypes
<1>3. NothingDropped(b)
  BY DEF JInv
<1>4. \A i : Unwritten(run[b], i)' <=> Unwritten(run'[b], i)
  BY DEF Unwritten
<1>5. QED  BY <1>1, <1>2, <1>3, <1>4 DEF NothingDropped

(* Zombies that stay as they are still fit the invariant after more faults. *)
LEMMA ZombiesFrame ==
  ASSUME IInv, IInv', JInv, zombies' \subseteq zombies, faults <= faults'
  PROVE  ZombieInv'
<1>1. faults \in Nat /\ faults' \in Nat /\ \A z \in zombies : z.tag \in Nat
  BY SweepAssumption DEF IInv, STypeOK, ZombieRec
<1>2. QED  BY <1>1 DEF JInv, ZombieInv

(* A step of one activity: the memories of the others are not touched. *)
LEMMA OneActivity ==
  ASSUME IInv, IInv', JInv, [LNext]_lvars, NEW b \in Batches,
         sweep' = sweep, zombies' = zombies, faults <= faults',
         \A c \in Batches \ {b} : batch'[c] = batch[c] /\ run'[c] = run[c],
         batch'[b].ids = batch[b].ids, batch'[b].claimed = batch[b].claimed,
         NothingDropped(b)',
         \A i \in 1..Len(batch[b].ids) :
            RowsLeft(batch'[b], run'[b], i) <= RowsLeft(batch[b], run[b], i),
         \A m \in Memories, v \in Versions :
            \/ NFail(m, v)' <= NFail(m, v)
            \/ \E i \in 1..Len(batch[b].ids) :
                  /\ m = batch[b].ids[i] /\ v = sweep.version
                  /\ NFail(m, v)' + RowsLeft(batch'[b], run'[b], i)
                        <= NFail(m, v) + RowsLeft(batch[b], run[b], i)
  PROVE  JInv'
<1>1. ZombieInv'
  BY ZombiesFrame
<1>2. \A c \in Batches : /\ batch'[c].ids = batch[c].ids
                         /\ batch'[c].claimed = batch[c].claimed
  OBVIOUS
<1>3. \A c \in Batches : NothingDropped(c)'
  <2> SUFFICES ASSUME NEW c \in Batches \ {b} PROVE NothingDropped(c)'
    OBVIOUS
  <2>1. batch'[c] = batch[c] /\ run'[c] = run[c]
    OBVIOUS
  <2>2. QED  BY <2>1, DroppedFrame
<1>4. \A c \in Batches : \A i \in 1..Len(batch[c].ids) :
         RowsLeft(batch'[c], run'[c], i) <= RowsLeft(batch[c], run[c], i)
  <2> SUFFICES ASSUME NEW c \in Batches, NEW i \in 1..Len(batch[c].ids)
               PROVE  RowsLeft(batch'[c], run'[c], i) <= RowsLeft(batch[c], run[c], i)
    OBVIOUS
  <2>1. CASE c = b
    BY <2>1
  <2>2. CASE c # b
    <3>1. RowsLeft(batch'[c], run'[c], i) = RowsLeft(batch[c], run[c], i)
      BY <2>2
    <3>2. RowsLeft(batch[c], run[c], i) \in Nat
      BY <1>1, DueTypes
    <3>3. QED  BY <3>1, <3>2
  <2>3. QED  BY <2>1, <2>2
<1>5. ASSUME NEW m \in Memories, NEW v \in Versions
      PROVE  \/ FailuresDue(m, v)' <= FailuresDue(m, v)
             \/ \E i \in 1..Len(batch[b].ids) :
                   /\ m = batch[b].ids[i] /\ v = sweep.version
                   /\ FailuresDue(m, v)' + RowsLeft(batch'[b], run'[b], i)
                         <= FailuresDue(m, v) + RowsLeft(batch[b], run[b], i)
  <2>1. PICK k \in Nat : k = Cardinality(ZombiesOf(zombies, m, v))
    BY <1>1, DueTypes
  <2>2. FailuresDue(m, v) = NFail(m, v) + k /\ FailuresDue(m, v)' = NFail(m, v)' + k
    BY <2>1 DEF FailuresDue, ZombiesOf
  <2>3. NFail(m, v) \in Nat /\ NFail(m, v)' \in Nat
    BY FailuresKept DEF IInv
  <2>4. CASE NFail(m, v)' <= NFail(m, v)
    BY <2>1, <2>2, <2>3, <2>4
  <2>5. ASSUME NEW i \in 1..Len(batch[b].ids),
               m = batch[b].ids[i], v = sweep.version,
               NFail(m, v)' + RowsLeft(batch'[b], run'[b], i)
                  <= NFail(m, v) + RowsLeft(batch[b], run[b], i)
        PROVE  FailuresDue(m, v)' + RowsLeft(batch'[b], run'[b], i)
                  <= FailuresDue(m, v) + RowsLeft(batch[b], run[b], i)
    <3>1. RowsLeft(batch'[b], run'[b], i) \in Nat /\ RowsLeft(batch[b], run[b], i) \in Nat
      BY <1>1, ClaimedTypes, DueTypes
    <3>2. QED  BY <2>1, <2>2, <2>3, <2>5, <3>1
  <2>6. QED  BY <2>4, <2>5
<1>6. QED  BY <1>1, <1>2, <1>3, <1>4, <1>5, WaveStep

(* An activity that writes nothing and takes no more work. *)
LEMMA QuietActivity ==
  ASSUME IInv, IInv', JInv, UNCHANGED lvars, NEW b \in Batches,
         sweep' = sweep, zombies' = zombies, faults <= faults',
         NEW B, batch' = [batch EXCEPT ![b] = B],
         NEW R, run' = [run EXCEPT ![b] = R],
         B.ids = batch[b].ids, B.claimed = batch[b].claimed,
         NothingDropped(b)',
         \A i \in 1..Len(batch[b].ids) :
            RowsLeft(B, R, i) <= RowsLeft(batch[b], run[b], i)
  PROVE  JInv'
<1>1. /\ batch'[b] = B /\ run'[b] = R
      /\ \A c \in Batches \ {b} : batch'[c] = batch[c] /\ run'[c] = run[c]
  BY DEF IInv, STypeOK
<1>2. ASSUME NEW m \in Memories, NEW v \in Versions PROVE NFail(m, v)' <= NFail(m, v)
  <2>1. NFail(m, v)' = NFail(m, v)
    BY DEF lvars, NFail, FailedRows
  <2>2. QED  BY <2>1, FailuresKept DEF IInv
<1>3. QED  BY <1>1, <1>2, OneActivity

(* A goroutine's step that writes no row keeps what is left to write. *)
LEMMA SameWork ==
  ASSUME IInv, IInv', JInv, UNCHANGED lvars, NEW b \in Batches,
         sweep' = sweep, zombies' = zombies, faults' = faults,
         NEW B, batch' = [batch EXCEPT ![b] = B],
         NEW R, run' = [run EXCEPT ![b] = R],
         B.ids = batch[b].ids, B.claimed = batch[b].claimed,
         B.st = batch[b].st, B.attempt = batch[b].attempt, R.err = run[b].err,
         \A i \in Items : Unwritten(R, i) <=> Unwritten(run[b], i)
  PROVE  JInv'
<1>1. batch'[b] = B /\ run'[b] = R /\ faults <= faults'
  BY SweepAssumption DEF IInv, STypeOK
<1>2. NothingDropped(b)'
  BY <1>1, DroppedFrame
<1>3. ASSUME NEW i \in 1..Len(batch[b].ids)
      PROVE  RowsLeft(B, R, i) <= RowsLeft(batch[b], run[b], i)
  <2>1. i \in Items /\ RowsLeft(batch[b], run[b], i) \in Nat
    BY ClaimedTypes, BatchTypes, RowsLeftNat
  <2>2. RowsLeft(B, R, i) = RowsLeft(batch[b], run[b], i)
    BY <2>1 DEF RowsLeft
  <2>3. QED  BY <2>1, <2>2
<1>4. QED  BY <1>1, <1>2, <1>3, QuietActivity

(* An errgroup slot, a mark, a heartbeat: no row is written. *)
LEMMA StartItemKeeps ==
  ASSUME IInv, IInv', JInv, NEW b \in Batches, NEW i \in Items, StartItem(b, i)
  PROVE  JInv'
<1>1. PICK pc \in {"doomed", "embed"} :
         run' = [run EXCEPT ![b] = [@ EXCEPT !.item[i] = pc]]
  BY DEF StartItem
<1>2. PICK R : R = [run[b] EXCEPT !.item[i] = pc]
  OBVIOUS
<1>3. run' = [run EXCEPT ![b] = R] /\ batch' = [batch EXCEPT ![b] = batch[b]]
  BY <1>1, <1>2 DEF StartItem, IInv, STypeOK
<1>4. R.item = [run[b].item EXCEPT ![i] = pc] /\ R.err = run[b].err
  BY <1>2, BatchTypes DEF RunRec
<1>5. \A j \in Items : Unwritten(R, j) <=> Unwritten(run[b], j)
  BY <1>4, BatchTypes DEF Unwritten, StartItem
<1>6. QED  BY <1>3, <1>4, <1>5, SameWork DEF StartItem

(* The mark of an item, under the mutex, changes its own batch only. *)
LEMMA MarkKeeps ==
  ASSUME IInv, IInv', JInv, NEW b \in Batches, NEW i \in Items, Mark(b, i)
  PROVE  JInv'
<1>1. PICK w : run' = [run EXCEPT ![b] =
                     [@ EXCEPT !.item[i] = "beat", !.note[i] = w,
                               !.watermark = w,
                               !.terminal = run[b].terminal \cup {i}]]
  BY DEF Mark
<1>2. PICK R : R = [run[b] EXCEPT !.item[i] = "beat", !.note[i] = w,
                                  !.watermark = w,
                                  !.terminal = run[b].terminal \cup {i}]
  OBVIOUS
<1>3. run' = [run EXCEPT ![b] = R] /\ batch' = [batch EXCEPT ![b] = batch[b]]
  BY <1>1, <1>2 DEF Mark, IInv, STypeOK
<1>4. R.item = [run[b].item EXCEPT ![i] = "beat"] /\ R.err = run[b].err
  BY <1>2, BatchTypes DEF RunRec
<1>5. \A j \in Items : Unwritten(R, j) <=> Unwritten(run[b], j)
  BY <1>4, BatchTypes DEF Unwritten, Mark
<1>6. QED  BY <1>3, <1>4, <1>5, SameWork DEF Mark

(* So does reading the watermark after a failure that is not terminal. *)
LEMMA CurrentKeeps ==
  ASSUME IInv, IInv', JInv, NEW b \in Batches, NEW i \in Items, Current(b, i)
  PROVE  JInv'
<1>1. PICK R : R = [run[b] EXCEPT !.item[i] = "beat",
                                  !.note[i] = run[b].watermark]
  OBVIOUS
<1>2. run' = [run EXCEPT ![b] = R] /\ batch' = [batch EXCEPT ![b] = batch[b]]
  BY <1>1 DEF Current, IInv, STypeOK
<1>3. R.item = [run[b].item EXCEPT ![i] = "beat"] /\ R.err = run[b].err
  BY <1>1, BatchTypes DEF RunRec
<1>4. \A j \in Items : Unwritten(R, j) <=> Unwritten(run[b], j)
  BY <1>3, BatchTypes DEF Unwritten, Current
<1>5. QED  BY <1>2, <1>3, <1>4, SameWork DEF Current

(* Recording a heartbeat detail touches the SDK buffer and no work. *)
LEMMA RecordHeartbeatKeeps ==
  ASSUME IInv, IInv', JInv, NEW b \in Batches, NEW i \in Items, RecordHeartbeat(b, i)
  PROVE  JInv'
<1>1. PICK R : R = [run[b] EXCEPT !.item[i] = "end", !.note[i] = 0,
                                  !.buffered = run[b].note[i]]
  OBVIOUS
<1>2. run' = [run EXCEPT ![b] = R] /\ batch' = [batch EXCEPT ![b] = batch[b]]
  BY <1>1 DEF RecordHeartbeat, IInv, STypeOK
<1>3. R.item = [run[b].item EXCEPT ![i] = "end"] /\ R.err = run[b].err
  BY <1>1, BatchTypes DEF RunRec
<1>4. \A j \in Items : Unwritten(R, j) <=> Unwritten(run[b], j)
  BY <1>3, BatchTypes DEF Unwritten, RecordHeartbeat
<1>5. QED  BY <1>2, <1>3, <1>4, SameWork DEF RecordHeartbeat

(* The flush of the SDK buffer touches the detail the server keeps. *)
LEMMA FlushHeartbeatKeeps ==
  ASSUME IInv, IInv', JInv, NEW b \in Batches, FlushHeartbeat(b)
  PROVE  JInv'
<1>1. PICK B : B = [batch[b] EXCEPT !.hb = run[b].buffered]
  OBVIOUS
<1>2. PICK R : R = [run[b] EXCEPT !.buffered = -1]
  OBVIOUS
<1>3. batch' = [batch EXCEPT ![b] = B] /\ run' = [run EXCEPT ![b] = R]
  BY <1>1, <1>2 DEF FlushHeartbeat
<1>4. /\ B.ids = batch[b].ids /\ B.claimed = batch[b].claimed
      /\ B.st = batch[b].st /\ B.attempt = batch[b].attempt
  BY <1>1, BatchTypes DEF BatchRec
<1>5. R.err = run[b].err /\ R.item = run[b].item
  BY <1>2, BatchTypes DEF RunRec
<1>6. \A j \in Items : Unwritten(R, j) <=> Unwritten(run[b], j)
  BY <1>5 DEF Unwritten
<1>7. QED  BY <1>3, <1>4, <1>5, <1>6, SameWork DEF FlushHeartbeat

(* Goroutine i makes its store call: at most one failed row, and one row   *)
(* less to write.  It made progress, or the attempt is going to fail.      *)
LEMMA WriteKeeps ==
  ASSUME IInv, IInv', JInv, [LNext]_lvars, NEW b \in Batches, NEW i \in Items,
         Unwritten(run[b], i), batch' = batch, sweep' = sweep, zombies' = zombies,
         faults <= faults',
         NEW R \in RunRec, run' = [run EXCEPT ![b] = R],
         NEW pc, R.item = [run[b].item EXCEPT ![i] = pc],
         pc \notin {"todo", "embed", "doomed"},
         R.err \/ (R.err = run[b].err /\ Progressed(b, i)'),
         \/ UNCHANGED lvars
         \/ InsertDone(batch[b].ids[i], sweep.version, batch[b].attempt)
         \/ \E p \in BOOLEAN :
               InsertFailed(batch[b].ids[i], sweep.version, batch[b].attempt, p)
  PROVE  JInv'
<1>1. /\ batch[b].st = "running" /\ i \in 1..Len(batch[b].ids)
      /\ batch[b].ids[i] \in memories /\ batch[b].ids[i] \in Memories
      /\ sweep.version \in Versions /\ batch[b].attempt \in 1..ActAttempts
  BY ItemTypes DEF Unwritten
<1>2. /\ run'[b] = R /\ batch'[b] = batch[b]
      /\ \A c \in Batches \ {b} : batch'[c] = batch[c] /\ run'[c] = run[c]
  BY DEF IInv, STypeOK
<1>3. ~Unwritten(R, i) /\ \A j \in Items \ {i} : Unwritten(R, j) <=> Unwritten(run[b], j)
  BY BatchTypes DEF Unwritten
<1>4. NothingDropped(b)'
  <2>1. ASSUME ~R.err, NEW j \in 1..Len(batch[b].ids), ~Unwritten(R, j)
        PROVE  Progressed(b, j)'
    <3>1. CASE j = i
      BY <2>1, <3>1
    <3>2. CASE j # i
      <4>1. j \in Items /\ ~run[b].err
        BY <2>1, ClaimedTypes
      <4>2. Progressed(b, j)
        BY <1>1, <1>3, <2>1, <3>2, <4>1 DEF JInv, NothingDropped
      <4>3. QED  BY <1>2, <4>2, ProgressKept
    <3>3. QED  BY <3>1, <3>2
  <2>2. \A j : Unwritten(run[b], j)' <=> Unwritten(R, j)
    BY <1>2 DEF Unwritten
  <2>3. QED  BY <1>1, <1>2, <2>1, <2>2 DEF NothingDropped
<1>5. /\ RowsLeft(batch[b], R, i) + 1 = RowsLeft(batch[b], run[b], i)
      /\ RowsLeft(batch[b], R, i) \in Nat
  BY <1>1, <1>3, ConstantsAssumption DEF RowsLeft
<1>6. ASSUME NEW j \in 1..Len(batch[b].ids)
      PROVE  RowsLeft(batch'[b], run'[b], j) <= RowsLeft(batch[b], run[b], j)
  <2>1. CASE j = i
    BY <1>2, <1>5, <2>1
  <2>2. CASE j # i
    <3>1. j \in Items /\ RowsLeft(batch[b], run[b], j) \in Nat
      BY ClaimedTypes, BatchTypes, RowsLeftNat
    <3>2. RowsLeft(batch[b], R, j) = RowsLeft(batch[b], run[b], j)
      BY <1>3, <2>2, <3>1 DEF RowsLeft
    <3>3. QED  BY <1>2, <3>1, <3>2
  <2>3. QED  BY <2>1, <2>2
<1>7. ASSUME NEW m \in Memories, NEW v \in Versions
      PROVE  \/ NFail(m, v)' <= NFail(m, v)
             \/ /\ m = batch[b].ids[i] /\ v = sweep.version
                /\ NFail(m, v)' + RowsLeft(batch'[b], run'[b], i)
                      <= NFail(m, v) + RowsLeft(batch[b], run[b], i)
  <2>1. NFail(m, v) \in Nat
    BY FailuresKept DEF IInv
  <2>2. \/ NFail(m, v)' = NFail(m, v)
        \/ m = batch[b].ids[i] /\ v = sweep.version /\ NFail(m, v)' = NFail(m, v) + 1
    BY <1>1, StoreCounts DEF IInv
  <2>3. QED  BY <1>2, <1>5, <2>1, <2>2
<1>8. QED  BY <1>1, <1>2, <1>4, <1>6, <1>7, OneActivity

(* The done row settles the item. *)
LEMMA ItemDoneKeeps ==
  ASSUME IInv, IInv', JInv, [LNext]_lvars, NEW b \in Batches, NEW i \in Items,
         ItemDone(b, i)
  PROVE  JInv'
<1>1. PICK R : R = [run[b] EXCEPT !.item[i] = "mark", !.done = TRUE]
  OBVIOUS
<1>2. run' = [run EXCEPT ![b] = R] /\ R \in RunRec
  <2>1. run' = [run EXCEPT ![b] = R]
    BY <1>1 DEF ItemDone
  <2>2. R \in RunRec
    BY <1>1, BatchTypes DEF RunRec
  <2>3. QED  BY <2>1, <2>2
<1>3. R.item = [run[b].item EXCEPT ![i] = "mark"] /\ R.err = run[b].err
  BY <1>1, BatchTypes DEF RunRec
<1>4. /\ Unwritten(run[b], i) /\ run[b].item[i] # "end"
      /\ UNCHANGED <<deployed, schedule, sweep, batch, zombies, faults>>
      /\ InsertDone(batch[b].ids[i], sweep.version, batch[b].attempt)
  BY DEF ItemDone, Unwritten
<1>5. <<batch[b].ids[i], sweep.version>> \in TerminalPairs'
  BY <1>4, ItemTypes, RowSettles DEF IInv
<1>6. Progressed(b, i)'
  BY <1>4, <1>5 DEF Progressed, ItemSettled
<1>7. faults <= faults'
  BY <1>4, SweepAssumption DEF IInv, STypeOK
<1>8. R.err \/ (R.err = run[b].err /\ Progressed(b, i)')
  BY <1>3, <1>6, Zenon
<1>9. "mark" \notin {"todo", "embed", "doomed"}
  OBVIOUS
<1>10. \/ UNCHANGED lvars
       \/ InsertDone(batch[b].ids[i], sweep.version, batch[b].attempt)
       \/ \E p \in BOOLEAN :
             InsertFailed(batch[b].ids[i], sweep.version, batch[b].attempt, p)
  BY <1>4
<1>11. QED  BY <1>2, <1>3, <1>4, <1>7, <1>8, <1>9, <1>10, WriteKeeps, ZenonT(40)

(* A failed row is one failure more than at the claim. *)
LEMMA ItemFailedKeeps ==
  ASSUME IInv, IInv', JInv, [LNext]_lvars, NEW b \in Batches, NEW i \in Items,
         NEW p \in BOOLEAN, ItemFailed(b, i, p)
  PROVE  JInv'
<1>1. PICK pc \in {"mark", "current"} : pc = IF p THEN "mark" ELSE "current"
  OBVIOUS
<1>2. PICK R : R = [run[b] EXCEPT !.item[i] = pc, !.failed = run[b].failed \/ ~p]
  OBVIOUS
<1>3. run' = [run EXCEPT ![b] = R] /\ R \in RunRec
  <2>1. run' = [run EXCEPT ![b] = R]
    BY <1>1, <1>2 DEF ItemFailed
  <2>2. R \in RunRec
    <3>1. PICK x \in BOOLEAN : x = (run[b].failed \/ ~p)
      BY Zenon
    <3>2. R = [run[b] EXCEPT !.item[i] = pc, !.failed = x]
      BY <1>2, <3>1, Zenon
    <3>3. QED  BY <3>2, BatchTypes DEF RunRec
  <2>3. QED  BY <2>1, <2>2
<1>4. R.item = [run[b].item EXCEPT ![i] = pc] /\ R.err = run[b].err
  BY <1>2, BatchTypes DEF RunRec
<1>5. /\ Unwritten(run[b], i) /\ run[b].item[i] # "end"
      /\ UNCHANGED <<deployed, schedule, sweep, batch, zombies, faults>>
      /\ InsertFailed(batch[b].ids[i], sweep.version, batch[b].attempt, p)
  BY DEF ItemFailed, Unwritten
<1>6. Progressed(b, i)'
  <2>1. i \in 1..Len(batch[b].ids)
    BY <1>5, ItemTypes
  <2>2. PICK m \in memories : m = batch[b].ids[i] /\ m \in Memories
    BY <1>5, ItemTypes
  <2>3. PICK v \in Versions : v = sweep.version
    BY <1>5, ItemTypes
  <2>4. NFail(m, v)' = NFail(m, v) + 1
    BY <1>5, <2>2, <2>3, ItemTypes, StoreCounts DEF IInv
  <2>5. batch[b].claimed[i] <= NFail(m, v) /\ batch[b].claimed[i] \in Nat
    BY <2>1, <2>2, <2>3, ClaimedTypes DEF JInv, ClaimInv
  <2>6. NFail(m, v) \in Nat
    BY <2>2, FailuresKept DEF IInv
  <2>7. NFail(m, v)' > batch[b].claimed[i]
    BY <2>4, <2>5, <2>6
  <2>8. QED  BY <1>5, <2>2, <2>3, <2>7 DEF Progressed
<1>7. faults <= faults'
  BY <1>5, SweepAssumption DEF IInv, STypeOK
<1>8. R.err \/ (R.err = run[b].err /\ Progressed(b, i)')
  BY <1>4, <1>6, Zenon
<1>9. pc \notin {"todo", "embed", "doomed"}
  OBVIOUS
<1>10. \/ UNCHANGED lvars
       \/ InsertDone(batch[b].ids[i], sweep.version, batch[b].attempt)
       \/ \E q \in BOOLEAN :
             InsertFailed(batch[b].ids[i], sweep.version, batch[b].attempt, q)
  BY <1>5
<1>11. QED  BY <1>3, <1>4, <1>5, <1>7, <1>8, <1>9, <1>10, WriteKeeps, ZenonT(40)

(* After a store error the attempt fails, whatever was committed. *)
LEMMA ItemStoreErrorKeeps ==
  ASSUME IInv, IInv', JInv, [LNext]_lvars, NEW b \in Batches, NEW i \in Items,
         ItemStoreError(b, i)
  PROVE  JInv'
<1>1. PICK R : R = [run[b] EXCEPT !.item[i] = "end", !.err = TRUE]
  OBVIOUS
<1>2. run' = [run EXCEPT ![b] = R] /\ R \in RunRec
  BY <1>1, BatchTypes DEF ItemStoreError, RunRec
<1>3. R.item = [run[b].item EXCEPT ![i] = "end"] /\ R.err = TRUE
  BY <1>1, BatchTypes DEF RunRec
<1>4. /\ Unwritten(run[b], i)
      /\ UNCHANGED <<deployed, schedule, sweep, batch, zombies>>
      /\ \/ UNCHANGED lvars
         \/ InsertDone(batch[b].ids[i], sweep.version, batch[b].attempt)
         \/ \E p \in BOOLEAN :
               InsertFailed(batch[b].ids[i], sweep.version, batch[b].attempt, p)
  BY DEF ItemStoreError, Unwritten
<1>5. faults <= faults'
  BY SweepAssumption DEF ItemStoreError, Fault, IInv, STypeOK
<1>6. R.err \/ (R.err = run[b].err /\ Progressed(b, i)')
  BY <1>3, Zenon
<1>7. "end" \notin {"todo", "embed", "doomed"}
  OBVIOUS
<1>8. QED  BY <1>2, <1>3, <1>4, <1>5, <1>6, <1>7, WriteKeeps, Zenon

(* A failed attempt leaves at most the rows of the later ones; the next    *)
(* one starts over or the activity has failed.                             *)
LEMMA AttemptFailsLeaves ==
  ASSUME IInv, NEW b \in Batches, NEW h \in 0..BatchSize, AttemptFails(b, h),
         batch[b].st \in {"queued", "running", "lost"}
  PROVE  \E B : /\ batch' = [batch EXCEPT ![b] = B]
                /\ run' = [run EXCEPT ![b] = NoRun]
                /\ B.ids = batch[b].ids /\ B.claimed = batch[b].claimed
                /\ B.st \in {"queued", "failed"}
                /\ \A i \in 1..Len(batch[b].ids) :
                      /\ RowsLeft(B, NoRun, i) = ActAttempts - batch[b].attempt
                      /\ RowsLeft(batch[b], run[b], i)
                            = (ActAttempts - batch[b].attempt)
                                + (IF \/ batch[b].st = "queued"
                                      \/ batch[b].st = "running" /\ Unwritten(run[b], i)
                                   THEN 1 ELSE 0)
<1>1. PICK B : B = IF batch[b].attempt < ActAttempts
                   THEN [batch[b] EXCEPT !.st = "queued", !.hb = h,
                                         !.attempt = batch[b].attempt + 1]
                   ELSE [batch[b] EXCEPT !.st = "failed", !.hb = h]
  OBVIOUS
<1>2. batch' = [batch EXCEPT ![b] = B] /\ run' = [run EXCEPT ![b] = NoRun]
  BY <1>1 DEF AttemptFails
<1>3. batch[b].attempt \in 1..ActAttempts /\ ActAttempts \in Nat
  BY BatchTypes, ConstantsAssumption DEF BatchInv, BatchShape
<1>4. /\ B.ids = batch[b].ids /\ B.claimed = batch[b].claimed
      /\ \/ B.st = "queued" /\ B.attempt = batch[b].attempt + 1
         \/ B.st = "failed" /\ batch[b].attempt = ActAttempts
  <2>1. CASE batch[b].attempt < ActAttempts
    BY <1>1, <2>1, BatchTypes DEF BatchRec
  <2>2. CASE ~(batch[b].attempt < ActAttempts)
    BY <1>1, <1>3, <2>2, BatchTypes DEF BatchRec
  <2>3. QED  BY <2>1, <2>2
<1>5. \A i : RowsLeft(B, NoRun, i) = ActAttempts - batch[b].attempt
  BY <1>3, <1>4 DEF RowsLeft
<1>6. \A i : RowsLeft(batch[b], run[b], i)
                = (ActAttempts - batch[b].attempt)
                    + (IF \/ batch[b].st = "queued"
                          \/ batch[b].st = "running" /\ Unwritten(run[b], i)
                       THEN 1 ELSE 0)
  BY <1>3 DEF RowsLeft
<1>7. QED  BY <1>2, <1>4, <1>5, <1>6

(* An attempt that fails without leaving zombies. *)
LEMMA AttemptFailsKeeps ==
  ASSUME IInv, IInv', JInv, UNCHANGED lvars, NEW b \in Batches, NEW h \in 0..BatchSize,
         sweep' = sweep, zombies' = zombies, faults <= faults',
         batch[b].st \in {"queued", "running", "lost"}, AttemptFails(b, h)
  PROVE  JInv'
<1>1. PICK B : /\ batch' = [batch EXCEPT ![b] = B]
               /\ run' = [run EXCEPT ![b] = NoRun]
               /\ B.ids = batch[b].ids /\ B.claimed = batch[b].claimed
               /\ B.st \in {"queued", "failed"}
               /\ \A i \in 1..Len(batch[b].ids) :
                     /\ RowsLeft(B, NoRun, i) = ActAttempts - batch[b].attempt
                     /\ RowsLeft(batch[b], run[b], i)
                           = (ActAttempts - batch[b].attempt)
                               + (IF \/ batch[b].st = "queued"
                                     \/ batch[b].st = "running" /\ Unwritten(run[b], i)
                                  THEN 1 ELSE 0)
  BY AttemptFailsLeaves
<1>2. batch'[b].st \in {"queued", "failed"}
  BY <1>1 DEF IInv, STypeOK
<1>3. NothingDropped(b)'
  BY <1>2 DEF NothingDropped
<1>4. batch[b].attempt \in 1..ActAttempts /\ ActAttempts \in Nat
  BY BatchTypes, ConstantsAssumption DEF BatchInv, BatchShape
<1>5. \A i \in 1..Len(batch[b].ids) :
         RowsLeft(B, NoRun, i) <= RowsLeft(batch[b], run[b], i)
  BY <1>1, <1>4
<1>6. QED  BY <1>1, <1>3, <1>5, QuietActivity

(* A failing FetchTexts ends the attempt before any row is written. *)
LEMMA FetchTextsFailsKeeps ==
  ASSUME IInv, IInv', JInv, NEW b \in Batches, FetchTextsFails(b)
  PROVE  JInv'
<1>1. faults <= faults' /\ batch[b].hb \in 0..BatchSize
  BY SweepAssumption, BatchTypes DEF FetchTextsFails, Fault, IInv, STypeOK
<1>2. QED  BY <1>1, AttemptFailsKeeps DEF FetchTextsFails

(* The timeout of an attempt whose process is gone. *)
LEMMA LostTimesOutKeeps ==
  ASSUME IInv, IInv', JInv, NEW b \in Batches, LostTimesOut(b)
  PROVE  JInv'
<1>1. faults <= faults' /\ batch[b].hb \in 0..BatchSize
  BY SweepAssumption, BatchTypes DEF LostTimesOut, IInv, STypeOK
<1>2. QED  BY <1>1, AttemptFailsKeeps DEF LostTimesOut

(* g.Wait returned: every item has made progress, or the attempt fails. *)
LEMMA FinishKeeps ==
  ASSUME IInv, IInv', JInv, NEW b \in Batches, Finish(b)
  PROVE  JInv'
<1>1. /\ faults <= faults' /\ UNCHANGED <<lvars, sweep, zombies>>
      /\ batch[b].st = "running" /\ \A i \in Items : run[b].item[i] = "end"
  BY SweepAssumption DEF Finish, IInv, STypeOK
<1>2. CASE run[b].err \/ (run[b].failed /\ ~run[b].done)
  <2>1. PICK h : h = IF run[b].buffered = -1 THEN batch[b].hb ELSE run[b].buffered
    OBVIOUS
  <2>2. AttemptFails(b, h)
    BY <1>2, <2>1 DEF Finish
  <2>3. h \in 0..BatchSize
    BY <2>1, BatchTypes, SweepAssumption
  <2>4. QED  BY <1>1, <2>2, <2>3, AttemptFailsKeeps
<1>3. CASE ~(run[b].err \/ (run[b].failed /\ ~run[b].done))
  <2>1. PICK B : B = [batch[b] EXCEPT !.st = "ok"]
    OBVIOUS
  <2>2. batch' = [batch EXCEPT ![b] = B] /\ run' = [run EXCEPT ![b] = NoRun]
    BY <1>3, <2>1 DEF Finish
  <2>3. B.st = "ok" /\ B.ids = batch[b].ids /\ B.claimed = batch[b].claimed
    BY <2>1, BatchTypes DEF BatchRec
  <2>4. batch'[b] = B
    BY <2>2 DEF IInv, STypeOK
  <2>5. ASSUME NEW i \in 1..Len(batch[b].ids) PROVE Progressed(b, i)'
    <3>1. i \in Items /\ ~Unwritten(run[b], i) /\ ~run[b].err
      BY <1>1, <1>3, ClaimedTypes DEF Unwritten
    <3>2. Progressed(b, i)
      BY <1>1, <3>1 DEF JInv, NothingDropped
    <3>3. QED  BY <1>1, <2>3, <2>4, <3>2, ProgressKept
  <2>6. NothingDropped(b)'
    BY <2>3, <2>4, <2>5 DEF NothingDropped
  <2>7. ASSUME NEW i \in 1..Len(batch[b].ids)
        PROVE  RowsLeft(B, NoRun, i) <= RowsLeft(batch[b], run[b], i)
    <3>1. RowsLeft(batch[b], run[b], i) \in Nat
      BY ClaimedTypes, BatchTypes, RowsLeftNat
    <3>2. RowsLeft(B, NoRun, i) = 0
      BY <2>3 DEF RowsLeft
    <3>3. QED  BY <3>1, <3>2
  <2>8. QED  BY <1>1, <2>2, <2>3, <2>6, <2>7, QuietActivity
<1>4. QED  BY <1>2, <1>3

(* A resumed attempt skips only items that are settled. *)
LEMMA StartAttemptKeeps ==
  ASSUME IInv, IInv', JInv, NEW b \in Batches, StartAttempt(b)
  PROVE  JInv'
<1>1. /\ faults <= faults' /\ UNCHANGED <<lvars, sweep, zombies>>
      /\ batch[b].st = "queued"
  BY SweepAssumption DEF StartAttempt, IInv, STypeOK
<1>2. batch[b].attempt \in 1..ActAttempts /\ ActAttempts \in Nat /\ run[b] = NoRun
  BY <1>1, BatchTypes, ConstantsAssumption DEF BatchInv, BatchShape
<1>3. ASSUME NEW i \in 1..Len(batch[b].ids), i <= batch[b].hb,
             batch'[b].ids = batch[b].ids, batch'[b].claimed = batch[b].claimed
      PROVE  Progressed(b, i)'
  <2>1. ItemSettled(b, i)
    BY <1>3, BatchTypes DEF BatchInv, WatermarkInv, Covered
  <2>2. QED  BY <1>1, <1>3, <2>1, ProgressKept DEF Progressed
<1>4. \A i \in 1..Len(batch[b].ids) :
         RowsLeft(batch[b], run[b], i) = ActAttempts - batch[b].attempt + 1
  BY <1>1 DEF RowsLeft
<1>5. CASE batch[b].hb >= Len(batch[b].ids)
  <2>1. PICK B : B = [batch[b] EXCEPT !.st = "ok"]
    OBVIOUS
  <2>2. batch' = [batch EXCEPT ![b] = B] /\ run' = [run EXCEPT ![b] = NoRun]
    BY <1>2, <1>5, <2>1 DEF StartAttempt, IInv, STypeOK
  <2>3. B.st = "ok" /\ B.ids = batch[b].ids /\ B.claimed = batch[b].claimed
    BY <2>1, BatchTypes DEF BatchRec
  <2>4. batch'[b] = B
    BY <2>2 DEF IInv, STypeOK
  <2>5. \A i \in 1..Len(batch[b].ids) : i <= batch[b].hb
    BY <1>5, BatchTypes
  <2>6. NothingDropped(b)'
    BY <1>3, <2>3, <2>4, <2>5 DEF NothingDropped
  <2>7. \A i \in 1..Len(batch[b].ids) :
           RowsLeft(B, NoRun, i) <= RowsLeft(batch[b], run[b], i)
    BY <1>2, <1>4, <2>3 DEF RowsLeft
  <2>8. QED  BY <1>1, <2>2, <2>3, <2>6, <2>7, QuietActivity
<1>6. CASE ~(batch[b].hb >= Len(batch[b].ids))
  <2> DEFINE startIdx == batch[b].hb
             n == Len(batch[b].ids)
  <2>1. PICK B : B = [batch[b] EXCEPT !.st = "running"]
    OBVIOUS
  <2>2. PICK R : R = [NoRun EXCEPT
                        !.item = [i \in Items |-> IF i \in (startIdx + 1)..n
                                                  THEN "todo" ELSE "end"],
                        !.terminal = 1..startIdx,
                        !.watermark = startIdx]
    OBVIOUS
  <2>3. batch' = [batch EXCEPT ![b] = B] /\ run' = [run EXCEPT ![b] = R]
    BY <1>6, <2>1, <2>2 DEF StartAttempt
  <2>4. /\ B.st = "running" /\ B.ids = batch[b].ids /\ B.claimed = batch[b].claimed
        /\ B.attempt = batch[b].attempt
    BY <2>1, BatchTypes DEF BatchRec
  <2>5. batch'[b] = B /\ run'[b] = R
    BY <2>3 DEF IInv, STypeOK
  <2>6. R.item = [i \in Items |-> IF i \in (startIdx + 1)..n THEN "todo" ELSE "end"]
    BY <2>2 DEF NoRun
  <2>7. \A i \in 1..n : Unwritten(R, i) \/ i <= startIdx
    BY <2>6, ClaimedTypes, BatchTypes DEF Unwritten
  <2>8. NothingDropped(b)'
    <3>1. \A i : Unwritten(run[b], i)' <=> Unwritten(R, i)
      BY <2>5 DEF Unwritten
    <3>2. \A i \in 1..n : Unwritten(run[b], i)' \/ Progressed(b, i)'
      BY <1>3, <2>4, <2>5, <2>7, <3>1
    <3>3. QED  BY <2>4, <2>5, <3>2 DEF NothingDropped
  <2>9. \A i \in 1..n : RowsLeft(B, R, i) <= RowsLeft(batch[b], run[b], i)
    BY <1>2, <1>4, <2>4 DEF RowsLeft
  <2>10. QED  BY <1>1, <2>3, <2>4, <2>8, <2>9, QuietActivity
<1>7. QED  BY <1>5, <1>6

(* A timed-out attempt hands the row of each item in flight to a zombie:   *)
(* one zombie more, one row less for the activity.                         *)
LEMMA SlowTimesOutKeeps ==
  ASSUME IInv, IInv', JInv, NEW b \in Batches, SlowTimesOut(b)
  PROVE  JInv'
<1>1. /\ UNCHANGED lvars /\ sweep' = sweep /\ batch[b].st = "running"
      /\ zombies' = zombies \cup InFlight(b)
      /\ batch[b].hb \in 0..BatchSize /\ AttemptFails(b, batch[b].hb)
  BY BatchTypes, SweepAssumption DEF SlowTimesOut
<1>2. faults \in Nat /\ faults' = faults + 1
  BY SweepAssumption DEF SlowTimesOut, Fault, IInv, STypeOK
<1>3. PICK B : /\ batch' = [batch EXCEPT ![b] = B]
               /\ run' = [run EXCEPT ![b] = NoRun]
               /\ B.ids = batch[b].ids /\ B.claimed = batch[b].claimed
               /\ B.st \in {"queued", "failed"}
               /\ \A i \in 1..Len(batch[b].ids) :
                     /\ RowsLeft(B, NoRun, i) = ActAttempts - batch[b].attempt
                     /\ RowsLeft(batch[b], run[b], i)
                           = (ActAttempts - batch[b].attempt)
                               + (IF \/ batch[b].st = "queued"
                                     \/ batch[b].st = "running" /\ Unwritten(run[b], i)
                                  THEN 1 ELSE 0)
  BY <1>1, AttemptFailsLeaves
<1>4. /\ batch'[b] = B /\ run'[b] = NoRun
      /\ \A c \in Batches \ {b} : batch'[c] = batch[c] /\ run'[c] = run[c]
  BY <1>3 DEF IInv, STypeOK
<1>5. batch[b].attempt \in 1..ActAttempts /\ ActAttempts \in Nat
  BY <1>1, BatchTypes, ConstantsAssumption DEF BatchInv, BatchShape
<1>6. \A z \in InFlight(b) : /\ z.tag = faults /\ z.version = sweep.version
                             /\ \E i \in 1..Len(batch[b].ids) :
                                   z.id = batch[b].ids[i] /\ Unwritten(run[b], i)
  <2> SUFFICES ASSUME NEW i \in Items,
                      run[b].item[i] \in {"todo", "embed", "doomed"}
               PROVE  i \in 1..Len(batch[b].ids) /\ Unwritten(run[b], i)
    BY DEF InFlight
  <2>1. QED  BY ItemTypes DEF Unwritten
<1>7. \A y, z \in InFlight(b) : y.id = z.id => y = z
  <2>1. \A i, j \in 1..Len(batch[b].ids) : batch[b].ids[i] = batch[b].ids[j] => i = j
    <3>1. DOMAIN batch[b].ids = 1..Len(batch[b].ids) /\ SiblingsDisjoint
      BY BatchTypes DEF JInv
    <3>2. QED  BY <3>1 DEF SiblingsDisjoint
  <2>2. \A i \in Items : run[b].item[i] \in {"todo", "embed", "doomed"}
                            => i \in 1..Len(batch[b].ids)
    BY ItemTypes
  <2>3. QED  BY <2>1, <2>2 DEF InFlight
<1>8. ZombieInv'
  <2>1. \A z \in zombies : z.tag \in Nat /\ z.tag < faults
    BY DEF IInv, STypeOK, ZombieRec, JInv, ZombieInv
  <2>2. \A z \in zombies' : z.tag < faults'
    BY <1>1, <1>2, <1>6, <2>1
  <2>3. ASSUME NEW y \in zombies', NEW z \in zombies',
               y.id = z.id, y.version = z.version, y.tag = z.tag
        PROVE  y = z
    <3>1. CASE y \in zombies /\ z \in zombies
      BY <2>3, <3>1 DEF JInv, ZombieInv
    <3>2. CASE y \in InFlight(b) /\ z \in InFlight(b)
      BY <1>7, <2>3, <3>2
    <3>3. CASE y \in zombies /\ z \in InFlight(b)
      BY <1>2, <1>6, <2>1, <2>3, <3>3
    <3>4. CASE y \in InFlight(b) /\ z \in zombies
      BY <1>2, <1>6, <2>1, <2>3, <3>4
    <3>5. QED  BY <1>1, <3>1, <3>2, <3>3, <3>4
  <2>4. QED  BY <2>2, <2>3 DEF ZombieInv
<1>9. \A c \in Batches : NothingDropped(c)'
  <2>1. NothingDropped(b)'
    BY <1>3, <1>4 DEF NothingDropped
  <2>2. ASSUME NEW c \in Batches \ {b} PROVE NothingDropped(c)'
    <3>1. batch'[c] = batch[c] /\ run'[c] = run[c]
      BY <1>4
    <3>2. QED  BY <1>1, <3>1, DroppedFrame
  <2>3. QED  BY <2>1, <2>2
<1>10. ASSUME NEW c \in Batches, NEW i \in 1..Len(batch[c].ids)
       PROVE  RowsLeft(batch'[c], run'[c], i) <= RowsLeft(batch[c], run[c], i)
  <2>1. RowsLeft(batch[c], run[c], i) \in Nat
    BY ClaimedTypes, BatchTypes, RowsLeftNat
  <2>2. CASE c = b
    <3>1. RowsLeft(B, NoRun, i) <= RowsLeft(batch[b], run[b], i)
      BY <1>3, <1>5, <2>2
    <3>2. QED  BY <1>4, <2>2, <3>1
  <2>3. CASE c # b
    BY <1>4, <2>1, <2>3
  <2>4. QED  BY <2>2, <2>3
<1>11. ASSUME NEW m \in Memories, NEW v \in Versions
       PROVE  \/ FailuresDue(m, v)' <= FailuresDue(m, v)
              \/ \E i \in 1..Len(batch[b].ids) :
                    /\ m = batch[b].ids[i] /\ v = sweep.version
                    /\ FailuresDue(m, v)' + RowsLeft(batch'[b], run'[b], i)
                          <= FailuresDue(m, v) + RowsLeft(batch[b], run[b], i)
  <2> DEFINE Z == ZombiesOf(zombies, m, v)
             Y == ZombiesOf(zombies', m, v)
  <2>1. NFail(m, v)' = NFail(m, v) /\ NFail(m, v) \in Nat
    <3>1. NFail(m, v)' = NFail(m, v)
      BY <1>1 DEF lvars, NFail, FailedRows
    <3>2. QED  BY <3>1, NFailNat DEF IInv
  <2>2. /\ FailuresDue(m, v) = NFail(m, v) + Cardinality(Z)
        /\ FailuresDue(m, v)' = NFail(m, v)' + Cardinality(Y)
    BY DEF FailuresDue, ZombiesOf
  <2>3. IsFiniteSet(Z) /\ Cardinality(Z) \in Nat
    <3>1. zombies \in SUBSET ZombieRec
      BY DEF IInv, STypeOK
    <3>2. QED  BY <1>2, <3>1, ZombieCount DEF JInv, ZombieInv
  <2>4. \A z : z \in Y <=> z \in Z \/ (z \in InFlight(b) /\ z.id = m /\ z.version = v)
    BY <1>1 DEF ZombiesOf
  <2> HIDE DEF Z, Y
  <2>5. CASE \A z \in InFlight(b) : ~(z.id = m /\ z.version = v)
    <3>1. Y = Z
      BY <2>4, <2>5
    <3>2. QED  BY <2>1, <2>2, <2>3, <3>1
  <2>6. ASSUME NEW z \in InFlight(b), z.id = m, z.version = v
        PROVE  \E i \in 1..Len(batch[b].ids) :
                  /\ m = batch[b].ids[i] /\ v = sweep.version
                  /\ FailuresDue(m, v)' + RowsLeft(batch'[b], run'[b], i)
                        <= FailuresDue(m, v) + RowsLeft(batch[b], run[b], i)
    <3>1. PICK i \in 1..Len(batch[b].ids) : m = batch[b].ids[i] /\ Unwritten(run[b], i)
      BY <1>6, <2>6
    <3>2. v = sweep.version
      BY <1>6, <2>6
    <3>3. Y = Z \cup {z}
      BY <1>7, <2>4, <2>6
    <3>4. IsFiniteSet(Y) /\ Cardinality(Y) \in Nat /\ Cardinality(Y) <= Cardinality(Z) + 1
      <4>1. CASE z \in Z
        <5>1. Y = Z
          BY <3>3, <4>1
        <5>2. QED  BY <2>3, <5>1
      <4>2. CASE z \notin Z
        <5>1. IsFiniteSet(Z \cup {z}) /\ Cardinality(Z \cup {z}) = Cardinality(Z) + 1
          BY <2>3, <4>2, FS_AddElement
        <5>2. QED  BY <2>3, <3>3, <5>1
      <4>3. QED  BY <4>1, <4>2
    <3>5. /\ RowsLeft(batch'[b], run'[b], i) = ActAttempts - batch[b].attempt
          /\ RowsLeft(batch[b], run[b], i) = ActAttempts - batch[b].attempt + 1
      BY <1>1, <1>3, <1>4, <1>5, <3>1
    <3>6. FailuresDue(m, v)' + RowsLeft(batch'[b], run'[b], i)
             <= FailuresDue(m, v) + RowsLeft(batch[b], run[b], i)
      BY <1>5, <2>1, <2>2, <2>3, <3>4, <3>5, SMTT(30)
    <3>7. QED  BY <3>1, <3>2, <3>6
  <2>7. QED  BY <2>5, <2>6
<1>12. \A c \in Batches : /\ batch'[c].ids = batch[c].ids
                          /\ batch'[c].claimed = batch[c].claimed
  BY <1>3, <1>4
<1>13. QED
  BY <1>1, <1>2, <1>8, <1>9, <1>10, <1>11, <1>12, WaveStep

(* A step that touches no activity and hands no work to anyone. *)
LEMMA StillWave ==
  ASSUME IInv, IInv', JInv, [LNext]_lvars, zombies' \subseteq zombies,
         sweep' = sweep, batch' = batch, run' = run, faults' = faults,
         \A m \in Memories, v \in Versions : FailuresDue(m, v)' <= FailuresDue(m, v)
  PROVE  JInv'
<1>1. ZombieInv' /\ faults <= faults'
  BY ZombiesFrame, SweepAssumption DEF IInv, STypeOK
<1>2. \A b \in Batches : NothingDropped(b)'
  BY DroppedFrame
<1>3. \A b \in Batches : \A i \in 1..Len(batch[b].ids) :
         RowsLeft(batch'[b], run'[b], i) <= RowsLeft(batch[b], run[b], i)
  BY <1>1, DueTypes
<1>4. QED  BY <1>1, <1>2, <1>3, WaveStep

(* Uploads, time and stuttering write no failure. *)
LEMMA QuietStepKeeps ==
  ASSUME IInv, IInv', JInv, [LNext]_lvars, UNCHANGED events, UNCHANGED svars
  PROVE  JInv'
<1>1. /\ sweep' = sweep /\ batch' = batch /\ run' = run
      /\ zombies' = zombies /\ faults' = faults
  BY DEF svars
<1>2. ZombieInv'
  BY <1>1 DEF JInv, ZombieInv
<1>3. ASSUME NEW m \in Memories, NEW v \in Versions
      PROVE  FailuresDue(m, v)' <= FailuresDue(m, v)
  <2>1. FailuresDue(m, v)' = FailuresDue(m, v)
    BY <1>1 DEF FailuresDue, ZombiesOf, NFail, FailedRows
  <2>2. QED  BY <1>2, <2>1, DueTypes
<1>4. QED  BY <1>1, <1>3, StillWave

(* A zombie that writes its row is gone: nothing more is due. *)
LEMMA ZombieStepKeeps ==
  ASSUME IInv, IInv', JInv, [LNext]_lvars, NEW z \in zombies, ZombieStep(z)
  PROVE  JInv'
<1>1. /\ z.id \in memories /\ z.version \in Versions
      /\ z.attempt \in 1..ActAttempts
  BY DEF IInv, STypeOK, ZombieRec
<1>2. /\ sweep' = sweep /\ batch' = batch /\ run' = run
      /\ zombies' = zombies \ {z} /\ faults' = faults
      /\ \/ UNCHANGED lvars
         \/ InsertDone(z.id, z.version, z.attempt)
         \/ \E p \in BOOLEAN : InsertFailed(z.id, z.version, z.attempt, p)
  BY DEF ZombieStep
<1>3. faults \in Nat /\ zombies \in SUBSET ZombieRec
  BY SweepAssumption DEF IInv, STypeOK
<1>4. ASSUME NEW m \in Memories, NEW v \in Versions
      PROVE  FailuresDue(m, v)' <= FailuresDue(m, v)
  <2> DEFINE Z == ZombiesOf(zombies, m, v)
             Y == ZombiesOf(zombies', m, v)
  <2>1. NFail(m, v) \in Nat
    BY NFailNat DEF IInv
  <2>2. /\ FailuresDue(m, v) = NFail(m, v) + Cardinality(Z)
        /\ FailuresDue(m, v)' = NFail(m, v)' + Cardinality(Y)
    BY DEF FailuresDue, ZombiesOf
  <2>3. IsFiniteSet(Z) /\ Cardinality(Z) \in Nat
    BY <1>3, ZombieCount DEF JInv, ZombieInv
  <2>4. Y = Z \ {z} /\ (z \in Z <=> z.id = m /\ z.version = v)
    BY <1>2 DEF ZombiesOf
  <2>5. \/ NFail(m, v)' = NFail(m, v)
        \/ z.id = m /\ z.version = v /\ NFail(m, v)' = NFail(m, v) + 1
    BY <1>1, <1>2, StoreCounts DEF IInv
  <2> HIDE DEF Z, Y
  <2>6. CASE z \in Z
    <3>1. Cardinality(Y) = Cardinality(Z) - 1
      BY <2>3, <2>4, <2>6, FS_RemoveElement
    <3>2. QED  BY <2>1, <2>2, <2>3, <2>5, <3>1
  <2>7. CASE z \notin Z
    <3>1. Y = Z
      BY <2>4, <2>7
    <3>2. NFail(m, v)' = NFail(m, v)
      BY <2>4, <2>5, <2>7
    <3>3. QED  BY <2>1, <2>2, <2>3, <3>1, <3>2
  <2>8. QED  BY <2>6, <2>7
<1>5. QED  BY <1>2, <1>4, StillWave

(* A restart ends every attempt and every zombie. *)
LEMMA ServerStartKeeps ==
  ASSUME IInv, IInv', JInv, NEW v \in Versions, ServerStart(v)
  PROVE  JInv'
<1>1. /\ UNCHANGED lvars /\ sweep' = sweep /\ zombies' = {}
      /\ run' = [b \in Batches |-> NoRun]
      /\ batch' = [b \in Batches |-> IF batch[b].st = "running"
                                     THEN [batch[b] EXCEPT !.st = "lost"]
                                     ELSE batch[b]]
  BY DEF ServerStart
<1>2. faults <= faults' /\ faults \in Nat /\ zombies \in SUBSET ZombieRec
  BY SweepAssumption DEF ServerStart, Fault, IInv, STypeOK
<1>3. ZombieInv'
  BY <1>1 DEF ZombieInv
<1>4. ASSUME NEW b \in Batches
      PROVE  /\ batch'[b].ids = batch[b].ids /\ batch'[b].claimed = batch[b].claimed
             /\ batch'[b].attempt = batch[b].attempt
             /\ run'[b] = NoRun
             /\ \/ batch[b].st = "running" /\ batch'[b].st = "lost"
                \/ batch[b].st # "running" /\ batch'[b] = batch[b] /\ run[b] = NoRun
  <2>1. CASE batch[b].st = "running"
    BY <1>1, <2>1, BatchTypes DEF BatchRec
  <2>2. CASE batch[b].st # "running"
    BY <1>1, <2>2, BatchTypes DEF BatchInv, BatchShape
  <2>3. QED  BY <2>1, <2>2
<1>5. ASSUME NEW b \in Batches PROVE NothingDropped(b)'
  <2>1. CASE batch'[b].st = "lost"
    BY <2>1 DEF NothingDropped
  <2>2. CASE batch'[b] = batch[b] /\ run'[b] = run[b]
    BY <1>1, <2>2, DroppedFrame
  <2>3. QED  BY <1>4, <2>1, <2>2
<1>6. ASSUME NEW b \in Batches, NEW i \in 1..Len(batch[b].ids)
      PROVE  RowsLeft(batch'[b], run'[b], i) <= RowsLeft(batch[b], run[b], i)
  <2>1. RowsLeft(batch[b], run[b], i) \in Nat
    BY ClaimedTypes, BatchTypes, RowsLeftNat
  <2>2. CASE batch[b].st = "running" /\ batch'[b].st = "lost"
    <3>1. batch[b].attempt \in 1..ActAttempts /\ ActAttempts \in Nat
      BY ClaimedTypes, ConstantsAssumption
    <3>2. QED  BY <1>4, <2>2, <3>1 DEF RowsLeft
  <2>3. CASE batch'[b] = batch[b] /\ run'[b] = run[b]
    BY <2>1, <2>3
  <2>4. QED  BY <1>4, <2>2, <2>3
<1>7. ASSUME NEW m \in Memories, NEW w \in Versions
      PROVE  FailuresDue(m, w)' <= FailuresDue(m, w)
  <2>1. NFail(m, w)' = NFail(m, w) /\ NFail(m, w) \in Nat
    <3>1. NFail(m, w)' = NFail(m, w)
      BY <1>1 DEF lvars, NFail, FailedRows
    <3>2. QED  BY <3>1, NFailNat DEF IInv
  <2>2. FailuresDue(m, w)' = NFail(m, w)' + Cardinality({})
    BY <1>1 DEF FailuresDue, ZombiesOf
  <2>3. Cardinality({}) = 0
    BY FS_EmptySet
  <2>4. Cardinality(ZombiesOf(zombies, m, w)) \in Nat
    BY <1>2, ZombieCount DEF JInv, ZombieInv
  <2>5. QED  BY <2>1, <2>2, <2>3, <2>4 DEF FailuresDue
<1>8. QED  BY <1>1, <1>2, <1>3, <1>4, <1>5, <1>6, <1>7, WaveStep

(* Outside a wave only the failures of the zombies are still due. *)
LEMMA BetweenWavesKeeps ==
  ASSUME IInv, IInv', JInv, [LNext]_lvars, UNCHANGED events, zombies' = zombies,
         faults <= faults',
         \A b \in Batches : batch'[b] = NoBatch
  PROVE  JInv'
<1>1. ZombieInv'
  BY ZombiesFrame
<1>2. \A b \in Batches : batch'[b].ids = <<>> /\ batch'[b].claimed = <<>> /\ batch'[b].st = "none"
  BY DEF NoBatch
<1>3. SiblingsDisjoint'
  BY <1>2 DEF SiblingsDisjoint
<1>4. \A b \in Batches : ClaimInv(b)' /\ NothingDropped(b)'
  BY <1>2 DEF ClaimInv, NothingDropped
<1>5. ASSUME NEW m \in Memories, NEW v \in Versions
      PROVE  FailuresDue(m, v)' <= Budget'
  <2>1. FailuresDue(m, v)' = FailuresDue(m, v)
    BY DEF FailuresDue, ZombiesOf, NFail, FailedRows
  <2>2. FailuresDue(m, v) <= Budget
    BY DEF JInv, BudgetInv
  <2>3. QED  BY <1>1, <2>1, <2>2, DueTypes
<1>6. BudgetInv'
  BY <1>2, <1>5 DEF BudgetInv
<1>7. QED  BY <1>1, <1>3, <1>4, <1>6 DEF JInv

(* Two positions of one snapshot are on different pages, or on one page in *)
(* different places.                                                       *)
LEMMA PagePositions ==
  ASSUME NEW a \in Nat, NEW d \in Nat, NEW K \in Nat \ {0},
         NEW i \in 1..K, NEW j \in 1..K, a * K + i = d * K + j
  PROVE  a = d /\ i = j
<1>1. ASSUME NEW x \in Nat, NEW y \in Nat, x < y PROVE x * K + K <= y * K
  <2>1. PICK e \in Nat : y = x + 1 + e
    <3>1. y - x - 1 \in Nat /\ y = x + 1 + (y - x - 1)
      BY <1>1
    <3>2. QED  BY <3>1
  <2>2. y * K = x * K + K + e * K /\ e * K \in Nat /\ x * K \in Nat
    BY <2>1
  <2>3. QED  BY <2>2
<1>2. a * K \in Nat /\ d * K \in Nat
  OBVIOUS
<1>3. ~(a < d)
  BY <1>1, <1>2
<1>4. ~(d < a)
  BY <1>1, <1>2
<1>5. a = d
  BY <1>3, <1>4
<1>6. QED  BY <1>2, <1>5

(* An id of a page is at its own place of the snapshot. *)
LEMMA PageEntries ==
  ASSUME NEW P, NEW s \in Seq(P), NEW b \in Batches, NEW i \in 1..Len(Page(s, b))
  PROVE  /\ i \in 1..BatchSize
         /\ (b - 1) * BatchSize + i \in DOMAIN s
         /\ Page(s, b)[i] = s[(b - 1) * BatchSize + i]
<1> DEFINE lo == (b - 1) * BatchSize + 1
           hi == Lesser(b * BatchSize, Len(s))
<1>1. lo \in Nat \ {0} /\ hi \in Nat /\ hi <= Len(s) /\ Len(s) \in Nat /\ hi - lo + 1 <= BatchSize
  <2>1. b \in Nat \ {0} /\ BatchSize \in Nat \ {0} /\ Len(s) \in Nat
    BY SweepAssumption DEF Batches
  <2>2. b * BatchSize = (b - 1) * BatchSize + BatchSize /\ (b - 1) * BatchSize \in Nat
    BY <2>1
  <2>3. QED  BY <2>1, <2>2 DEF Lesser
<1>2. (b - 1) * BatchSize + i = lo + i - 1
  BY <1>1, SweepAssumption DEF Batches
<1> HIDE DEF lo, hi
<1>3. \A k \in lo..hi : s[k] \in P
  BY <1>1
<1>4. /\ Len(SubSeq(s, lo, hi)) = IF lo <= hi THEN hi - lo + 1 ELSE 0
      /\ \A k \in 1..(hi - lo + 1) : SubSeq(s, lo, hi)[k] = s[lo + k - 1]
  BY <1>1, <1>3, SubSeqProperties
<1>5. Page(s, b) = SubSeq(s, lo, hi)
  BY DEF Page, lo, hi
<1>6. i \in 1..(hi - lo + 1) /\ lo + i - 1 \in 1..Len(s)
  BY <1>1, <1>4, <1>5
<1>7. /\ i \in 1..BatchSize /\ lo + i - 1 \in DOMAIN s
      /\ Page(s, b)[i] = s[lo + i - 1]
  <2>1. i \in 1..BatchSize
    BY <1>1, <1>6, SweepAssumption
  <2>2. DOMAIN s = 1..Len(s)
    OBVIOUS
  <2>3. QED  BY <1>4, <1>5, <1>6, <2>1, <2>2
<1>8. QED  BY <1>2, <1>7

(* Pages of one snapshot share no id, because its ids increase. *)
LEMMA PagesDisjoint ==
  ASSUME NEW s \in Seq(Nat), \A i, j \in DOMAIN s : i < j => s[i] < s[j],
         NEW b \in Batches, NEW c \in Batches,
         NEW i \in 1..Len(Page(s, b)), NEW j \in 1..Len(Page(s, c)),
         Page(s, b)[i] = Page(s, c)[j]
  PROVE  b = c /\ i = j
<1> DEFINE x == (b - 1) * BatchSize + i
           y == (c - 1) * BatchSize + j
<1>1. /\ i \in 1..BatchSize /\ x \in DOMAIN s /\ Page(s, b)[i] = s[x]
      /\ j \in 1..BatchSize /\ y \in DOMAIN s /\ Page(s, c)[j] = s[y]
  BY PageEntries
<1> HIDE DEF x, y
<1>2. \A k \in DOMAIN s : s[k] \in Nat /\ k \in Nat
  OBVIOUS
<1>3. s[x] = s[y] /\ x \in Nat /\ y \in Nat /\ s[x] \in Nat
  BY <1>1, <1>2
<1>4. x = y
  <2>1. ~(s[x] < s[y]) /\ ~(s[y] < s[x])
    BY <1>3
  <2>2. ~(x < y) /\ ~(y < x)
    BY <1>1, <2>1
  <2>3. QED  BY <1>3, <2>2
<1>5. b - 1 \in Nat /\ c - 1 \in Nat /\ BatchSize \in Nat \ {0} /\ b \in Int /\ c \in Int
  BY SweepAssumption DEF Batches
<1>6. b - 1 = c - 1 /\ i = j
  <2>1. (b - 1) * BatchSize + i = (c - 1) * BatchSize + j
    BY <1>4 DEF x, y
  <2>2. PICK a \in Nat, d \in Nat : a = b - 1 /\ d = c - 1
    BY <1>5
  <2>3. a * BatchSize + i = d * BatchSize + j
    BY <2>1, <2>2
  <2>4. a = d /\ i = j
    <3>1. i \in 1..BatchSize /\ j \in 1..BatchSize /\ BatchSize \in Nat \ {0}
      BY <1>1, <1>5
    <3>2. QED  BY <2>3, <3>1, PagePositions, SMTT(30)
  <2>5. QED  BY <2>2, <2>4
<1>7. QED  BY <1>5, <1>6

(* A sequence over a set is one over any larger set. *)
LEMMA SeqWiden ==
  ASSUME NEW S, NEW T, S \subseteq T, NEW s \in Seq(S)
  PROVE  s \in Seq(T)
<1>1. Len(s) \in Nat /\ s \in [1..Len(s) -> S]
  OBVIOUS
<1>2. s \in [1..Len(s) -> T]
  BY <1>1
<1>3. QED  BY <1>1, <1>2

(* A claim gives a memory below MaxAttempts at most ActAttempts rows. *)
LEMMA PlanRangesKeeps == ASSUME IInv, IInv', JInv, PlanRanges PROVE JInv'
<1>1. PICK v \in Versions : v = sweep.version
  BY DEF PlanRanges, IInv
<1> DEFINE P == Pending(v)
<1>2. PICK s \in Snapshots(P, BatchSize * FanOut) :
        IF s = <<>> THEN sweep' = Idle /\ UNCHANGED batch
        ELSE /\ sweep' = [sweep EXCEPT !.pc = "await"]
             /\ batch' = [b \in Batches |-> Scheduled(Page(s, b), v)]
  BY <1>1 DEF PlanRanges
<1>3. /\ sweep.pc = "plan" /\ faults <= faults' /\ faults \in Nat /\ zombies' = zombies
      /\ faults' = faults /\ zombies \in SUBSET ZombieRec
      /\ UNCHANGED lvars /\ run' = run /\ UNCHANGED events
  BY SweepAssumption DEF PlanRanges, IInv, STypeOK, lvars
<1>4. \A b \in Batches : batch[b] = NoBatch /\ run[b] = NoRun
  BY <1>3, BetweenWaves
<1>5. CASE s = <<>>
  BY <1>2, <1>3, <1>4, <1>5, BetweenWavesKeeps
<1>6. CASE s # <<>>
  <2>1. /\ sweep'.version = v
        /\ batch' = [b \in Batches |-> Scheduled(Page(s, b), v)]
    BY <1>1, <1>2, <1>6 DEF IInv, STypeOK
  <2>2. P \subseteq memories /\ memories \subseteq Memories /\ Memories \subseteq Nat
    BY ConstantsAssumption DEF Pending, IInv, LTypeOK
  <2>3. s \in Seq(P) /\ \A i, j \in DOMAIN s : i < j => s[i] < s[j]
    <3>1. PICK k \in 0..Lesser(BatchSize * FanOut, Cardinality(P)) : s \in [1..k -> P]
      BY DEF Snapshots
    <3>2. k \in Nat
      OBVIOUS
    <3>3. QED  BY <3>1, <3>2 DEF Snapshots, IsSnapshot
  <2>4. s \in Seq(Nat)
    BY <2>2, <2>3, SeqWiden
  <2>5. \A m, w : NFail(m, w)' = NFail(m, w)
    BY <1>3 DEF NFail, FailedRows
  <2>6. ASSUME NEW b \in Batches
        PROVE  /\ batch'[b].ids = Page(s, b) /\ Page(s, b) \in Seq(P)
               /\ Len(batch'[b].claimed) = Len(Page(s, b))
               /\ \A i \in 1..Len(Page(s, b)) :
                     /\ batch'[b].claimed[i] = NFail(Page(s, b)[i], v)
                     /\ batch'[b].st = "queued" /\ batch'[b].attempt = 1
               /\ batch'[b].st \in {"none", "queued"}
    <3>1. PICK ids : ids = Page(s, b)
      OBVIOUS
    <3>2. ids \in Seq(P) /\ batch'[b] = Scheduled(ids, v)
      BY <2>1, <2>3, <3>1, PageTypes
    <3>3. CASE ids = <<>>
      BY <3>1, <3>2, <3>3 DEF Scheduled, NoBatch
    <3>4. CASE ids # <<>>
      <4>1. PICK cl : cl = [i \in DOMAIN ids |-> NFail(ids[i], v)]
        OBVIOUS
      <4>2. batch'[b] = [st |-> "queued", ids |-> ids, attempt |-> 1, hb |-> 0,
                         claimed |-> cl]
        BY <3>2, <3>4, <4>1 DEF Scheduled
      <4>3. Len(cl) = Len(ids) /\ \A i \in 1..Len(ids) : cl[i] = NFail(ids[i], v)
        BY <3>2, <4>1
      <4>4. QED  BY <3>1, <3>2, <4>2, <4>3
    <3>5. QED  BY <3>3, <3>4
  <2>7. SiblingsDisjoint'
    <3> SUFFICES ASSUME NEW b \in Batches, NEW c \in Batches,
                        NEW i \in DOMAIN batch'[b].ids, NEW j \in DOMAIN batch'[c].ids,
                        batch'[b].ids[i] = batch'[c].ids[j]
                 PROVE  b = c /\ i = j
      BY DEF SiblingsDisjoint
    <3>1. i \in 1..Len(Page(s, b)) /\ j \in 1..Len(Page(s, c))
      BY <2>6
    <3>2. Page(s, b)[i] = Page(s, c)[j]
      BY <2>6
    <3>3. QED  BY <2>3, <2>4, <3>1, <3>2, PagesDisjoint
  <2>8. ASSUME NEW b \in Batches, NEW i \in 1..Len(Page(s, b))
        PROVE  /\ Page(s, b)[i] \in P
               /\ NFail(Page(s, b)[i], v) \in 0..(MaxAttempts - 1)
    <3>1. Page(s, b)[i] \in P
      BY <2>6
    <3>2. NFail(Page(s, b)[i], v) \in Nat
      BY <2>2, <3>1, NFailNat DEF IInv
    <3>3. NFail(Page(s, b)[i], v) < MaxAttempts
      BY <3>1 DEF Pending
    <3>4. QED  BY <3>1, <3>2, <3>3, ConstantsAssumption
  <2>9. \A b \in Batches : ClaimInv(b)' /\ NothingDropped(b)'
    <3> SUFFICES ASSUME NEW b \in Batches PROVE ClaimInv(b)' /\ NothingDropped(b)'
      OBVIOUS
    <3>1. \A i \in 1..Len(batch'[b].ids) :
             batch'[b].claimed[i] <= NFail(Page(s, b)[i], v)
      BY <2>6, <2>8
    <3>2. \A i \in 1..Len(batch'[b].ids) :
             NFail(batch[b].ids[i], sweep.version)' = NFail(Page(s, b)[i], v)
      BY <2>1, <2>5, <2>6
    <3>3. ClaimInv(b)'
      BY <2>6, <3>1, <3>2 DEF ClaimInv
    <3>4. QED  BY <2>6, <3>3 DEF NothingDropped
  <2>10. ZombieInv'
    BY <1>3, ZombiesFrame
  <2>11. \A m, w : FailuresDue(m, w)' = FailuresDue(m, w)
    BY <1>3, <2>5 DEF FailuresDue, ZombiesOf
  <2>12. Budget' = Budget /\ Budget = MaxAttempts - 1 + ActAttempts + faults
    BY <1>3 DEF Budget
  <2>13. ASSUME NEW b \in Batches, NEW i \in 1..Len(Page(s, b))
         PROVE  FailuresDue(Page(s, b)[i], v) + RowsLeft(batch'[b], run'[b], i) <= Budget
    <3>1. RowsLeft(batch'[b], run'[b], i) = ActAttempts
      BY <2>6, ConstantsAssumption DEF RowsLeft
    <3>2. Cardinality(ZombiesOf(zombies, Page(s, b)[i], v)) \in 0..faults
      BY <1>3, ZombieCount DEF JInv, ZombieInv
    <3>3. QED
      BY <1>3, <2>8, <2>12, <3>1, <3>2, ConstantsAssumption DEF FailuresDue
  <2>14. BudgetInv'
    <3>1. \A m \in Memories, w \in Versions : FailuresDue(m, w)' <= Budget'
      BY <2>11, <2>12 DEF JInv, BudgetInv
    <3>2. ASSUME NEW b \in Batches, NEW i \in 1..Len(batch'[b].ids)
          PROVE  (FailuresDue(batch[b].ids[i], sweep.version)
                    + RowsLeft(batch[b], run[b], i) <= Budget)'
      <4>1. FailuresDue(batch[b].ids[i], sweep.version)' = FailuresDue(Page(s, b)[i], v)
        BY <2>1, <2>6, <2>11
      <4>2. RowsLeft(batch[b], run[b], i)' = RowsLeft(batch'[b], run'[b], i)
        BY DEF RowsLeft, Unwritten
      <4>3. i \in 1..Len(Page(s, b))
        BY <2>6
      <4>4. QED  BY <2>12, <2>13, <4>1, <4>2, <4>3
    <3>3. QED  BY <3>1, <3>2 DEF BudgetInv
  <2>15. QED  BY <2>7, <2>9, <2>10, <2>14 DEF JInv
<1>7. QED  BY <1>5, <1>6

(* The second invariant holds initially: nothing is claimed or written. *)
LEMMA InitKeeps == Init => JInv
<1> SUFFICES ASSUME Init PROVE JInv
  OBVIOUS
<1>1. \A b \in Batches : batch[b].ids = <<>> /\ batch[b].claimed = <<>> /\ batch[b].st = "none"
  BY DEF Init, NoBatch
<1>2. SiblingsDisjoint
  BY <1>1 DEF SiblingsDisjoint
<1>3. \A b \in Batches : ClaimInv(b) /\ NothingDropped(b)
  BY <1>1 DEF ClaimInv, NothingDropped
<1>4. ZombieInv
  BY DEF Init, ZombieInv
<1>5. ASSUME NEW m \in Memories, NEW v \in Versions PROVE FailuresDue(m, v) <= Budget
  <2>1. FailedRows(m, v) = {} /\ ZombiesOf(zombies, m, v) = {}
    BY DEF Init, LInit, FailedRows, ZombiesOf
  <2>2. Cardinality({}) = 0
    BY FS_EmptySet
  <2>3. FailuresDue(m, v) = 0
    BY <2>1, <2>2 DEF FailuresDue, NFail
  <2>4. faults = 0
    BY DEF Init
  <2>5. QED  BY <2>3, <2>4, ConstantsAssumption DEF Budget
<1>6. BudgetInv
  BY <1>1, <1>5 DEF BudgetInv
<1>7. QED  BY <1>2, <1>3, <1>4, <1>6 DEF JInv

(* Every step preserves it. *)
LEMMA StepKeeps == IInv /\ JInv /\ [Next]_vars => JInv'
<1> SUFFICES ASSUME IInv, JInv, [Next]_vars PROVE JInv'
  OBVIOUS
<1>1. IInv' /\ [LNext]_lvars
  BY StepInv
<1>2. faults \in Nat
  BY SweepAssumption DEF IInv, STypeOK
<1>3. CASE ScheduleFires
  <2>1. \A b \in Batches : batch'[b] = NoBatch
    BY <1>3, BetweenWaves DEF ScheduleFires
  <2>2. QED  BY <1>1, <1>2, <1>3, <2>1, BetweenWavesKeeps DEF ScheduleFires, lvars
<1>4. CASE CountBacklog
  <2>1. \A b \in Batches : batch'[b] = NoBatch
    BY <1>4, BetweenWaves DEF CountBacklog
  <2>2. QED  BY <1>1, <1>2, <1>4, <2>1, BetweenWavesKeeps DEF CountBacklog, lvars
<1>5. CASE PlanRanges
  BY <1>1, <1>5, PlanRangesKeeps
<1>6. CASE AwaitAll
  <2>1. \A b \in Batches : batch'[b] = NoBatch
    BY <1>6 DEF AwaitAll
  <2>2. QED  BY <1>1, <1>2, <1>6, <2>1, BetweenWavesKeeps DEF AwaitAll, lvars
<1>7. CASE Wake
  <2>1. \A b \in Batches : batch'[b] = NoBatch
    BY <1>7, BetweenWaves DEF Wake
  <2>2. QED  BY <1>1, <1>2, <1>7, <2>1, BetweenWavesKeeps DEF Wake, TimePasses
<1>8. CASE SweepFails
  <2>1. \A b \in Batches : batch'[b] = NoBatch
    BY <1>8, BetweenWaves DEF SweepFails
  <2>2. faults <= faults'
    BY <1>2, <1>8 DEF SweepFails, Fault
  <2>3. QED  BY <1>1, <1>8, <2>1, <2>2, BetweenWavesKeeps DEF SweepFails, lvars
<1>9. CASE Time
  BY <1>1, <1>9, QuietStepKeeps DEF Time, TimePasses
<1>10. ASSUME NEW v \in Versions, ServerStart(v) PROVE JInv'
  BY <1>1, <1>10, ServerStartKeeps
<1>11. ASSUME NEW m \in Memories, UploadMemory(m) PROVE JInv'
  BY <1>1, <1>11, QuietStepKeeps DEF UploadMemory, InsertMemory
<1>12. ASSUME NEW z \in zombies, ZombieStep(z) PROVE JInv'
  BY <1>1, <1>12, ZombieStepKeeps
<1>13. ASSUME NEW b \in Batches, StartAttempt(b) PROVE JInv'
  BY <1>1, <1>13, StartAttemptKeeps
<1>14. ASSUME NEW b \in Batches, Finish(b) PROVE JInv'
  BY <1>1, <1>14, FinishKeeps
<1>15. ASSUME NEW b \in Batches, LostTimesOut(b) PROVE JInv'
  BY <1>1, <1>15, LostTimesOutKeeps
<1>16. ASSUME NEW b \in Batches, FetchTextsFails(b) PROVE JInv'
  BY <1>1, <1>16, FetchTextsFailsKeeps
<1>17. ASSUME NEW b \in Batches, SlowTimesOut(b) PROVE JInv'
  BY <1>1, <1>17, SlowTimesOutKeeps
<1>18. ASSUME NEW b \in Batches, FlushHeartbeat(b) PROVE JInv'
  BY <1>1, <1>18, FlushHeartbeatKeeps
<1>19. ASSUME NEW b \in Batches, NEW i \in Items, ItemStep(b, i) PROVE JInv'
  <2>1. CASE StartItem(b, i)
    BY <1>1, <2>1, StartItemKeeps
  <2>2. CASE ItemDone(b, i)
    BY <1>1, <2>2, ItemDoneKeeps
  <2>3. ASSUME NEW p \in BOOLEAN, ItemFailed(b, i, p) PROVE JInv'
    BY <1>1, <2>3, ItemFailedKeeps
  <2>4. CASE Mark(b, i)
    BY <1>1, <2>4, MarkKeeps
  <2>5. CASE Current(b, i)
    BY <1>1, <2>5, CurrentKeeps
  <2>6. CASE RecordHeartbeat(b, i)
    BY <1>1, <2>6, RecordHeartbeatKeeps
  <2>7. QED  BY <1>19, <2>1, <2>2, <2>3, <2>4, <2>5, <2>6 DEF ItemStep
<1>20. ASSUME NEW b \in Batches, NEW i \in Items, ItemStoreError(b, i) PROVE JInv'
  BY <1>1, <1>20, ItemStoreErrorKeeps
<1>21. CASE UNCHANGED vars
  BY <1>1, <1>21, QuietStepKeeps DEF vars, lvars
<1>22. QED
  BY <1>3, <1>4, <1>5, <1>6, <1>7, <1>8, <1>9, <1>10, <1>11, <1>12, <1>13,
     <1>14, <1>15, <1>16, <1>17, <1>18, <1>19, <1>20, <1>21
     DEF Next, SystemStep, FaultStep

(* Both invariants hold in every reachable state. *)
THEOREM ClaimInvariance == Spec => [](IInv /\ JInv)
<1>1. QED  BY InitKeeps, StepKeeps, Invariance, PTL DEF Spec

(* Sibling activities never hold the same memory, for any page size and    *)
(* fan-out: PlanRanges pages are disjoint, and a retry keeps its page.     *)
THEOREM SiblingPagesDisjoint == Spec => []SiblingsDisjoint
<1>1. JInv => SiblingsDisjoint
  BY DEF JInv
<1>2. QED  BY <1>1, ClaimInvariance, PTL

(* A ProcessBatch that completed settled each of its memories or recorded  *)
(* one more failure of it, whatever was retried, lost or timed out.        *)
THEOREM NothingDroppedSilently == Spec => []NoSilentDrop
<1>1. IInv /\ JInv => NoSilentDrop
  <2> SUFFICES ASSUME IInv, JInv, NEW b \in Batches, batch[b].st = "ok",
                      NEW i \in DOMAIN batch[b].ids
               PROVE  \/ Terminal(batch[b].ids[i], sweep.version)
                      \/ NFail(batch[b].ids[i], sweep.version) > batch[b].claimed[i]
    BY DEF NoSilentDrop
  <2>1. i \in 1..Len(batch[b].ids)
    BY BatchTypes
  <2>2. Progressed(b, i)
    BY <2>1 DEF JInv, NothingDropped
  <2>3. QED  BY <2>2 DEF Progressed, ItemSettled, TerminalPairs
<1>2. QED  BY <1>1, ClaimInvariance, PTL

(* The failures of a memory at a version overshoot MaxAttempts by at most  *)
(* one activity's attempts and one row for each fault.                     *)
THEOREM FailuresBounded == Spec => []FailureBudget
<1>1. IInv /\ JInv => FailureBudget
  <2> SUFFICES ASSUME IInv, JInv, NEW m \in memories, NEW v \in Versions
               PROVE  NFail(m, v) <= MaxAttempts - 1 + ActAttempts + faults
    BY DEF FailureBudget
  <2>1. m \in Memories /\ faults \in Nat /\ zombies \in SUBSET ZombieRec
    BY SweepAssumption DEF IInv, LTypeOK, STypeOK
  <2>2. FailuresDue(m, v) <= Budget
    BY <2>1 DEF JInv, BudgetInv
  <2>3. Cardinality(ZombiesOf(zombies, m, v)) \in 0..faults
    BY <2>1, ZombieCount DEF JInv, ZombieInv
  <2>4. NFail(m, v) \in Nat
    BY <2>1, NFailNat DEF IInv
  <2>5. QED
    BY <2>1, <2>2, <2>3, <2>4, ConstantsAssumption DEF FailuresDue, Budget
<1>2. QED  BY <1>1, ClaimInvariance, PTL
=============================================================================
