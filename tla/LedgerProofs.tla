---------------------------- MODULE LedgerProofs ----------------------------
(* What the ledger guarantees for every set of memories and versions, every *)
(* MaxAttempts, backoff and retry policy, and any number of rows.           *)
EXTENDS Ledger, DataFacts, TLAPS

(* The powers of two that LEAST(n_fail, 6) can reach. *)
LEMMA Powers ==
  ASSUME NEW a \in 0..6
  PROVE  \/ (a = 0 /\ 2^a = 1) \/ (a = 1 /\ 2^a = 2) \/ (a = 2 /\ 2^a = 4)
         \/ (a = 3 /\ 2^a = 8) \/ (a = 4 /\ 2^a = 16) \/ (a = 5 /\ 2^a = 32)
         \/ (a = 6 /\ 2^a = 64)
<1>1. a = 0 \/ a = 1 \/ a = 2 \/ a = 3 \/ a = 4 \/ a = 5 \/ a = 6
  OBVIOUS
<1>2. /\ 2^0 = 1 /\ 2^1 = 2 /\ 2^2 = 4 /\ 2^3 = 8
      /\ 2^4 = 16 /\ 2^5 = 32 /\ 2^6 = 64
  OBVIOUS
<1>3. QED  BY <1>1, <1>2, Zenon

(* Backoff windows are naturals and grow with the number of failures. *)
LEMMA WindowGrows ==
  ASSUME NEW n \in Nat, NEW k \in Nat, n <= k
  PROVE  Window(n) \in Nat /\ Window(k) \in Nat /\ Window(n) <= Window(k)
<1> DEFINE a == Lesser(n, 6)
           b == Lesser(k, 6)
           p == 2 ^ a
           q == 2 ^ b
<1>1. a \in 0..6 /\ b \in 0..6 /\ a <= b
  BY DEF Lesser
<1> HIDE DEF a, b
<1>2. \/ (a = 0 /\ p = 1) \/ (a = 1 /\ p = 2) \/ (a = 2 /\ p = 4)
      \/ (a = 3 /\ p = 8) \/ (a = 4 /\ p = 16) \/ (a = 5 /\ p = 32)
      \/ (a = 6 /\ p = 64)
  BY <1>1, Powers, Zenon
<1>3. \/ (b = 0 /\ q = 1) \/ (b = 1 /\ q = 2) \/ (b = 2 /\ q = 4)
      \/ (b = 3 /\ q = 8) \/ (b = 4 /\ q = 16) \/ (b = 5 /\ q = 32)
      \/ (b = 6 /\ q = 64)
  BY <1>1, Powers, Zenon
<1> HIDE DEF p, q
<1>4. p \in Nat /\ q \in Nat /\ p <= q
  BY <1>1, <1>2, <1>3
<1>5. BackoffBase * p \in Nat /\ BackoffBase * q \in Nat /\ BackoffBase * p <= BackoffBase * q
  BY <1>4, ConstantsAssumption
<1>6. Window(n) = BackoffBase * p /\ Window(k) = BackoffBase * q
  BY DEF Window, a, b, p, q
<1>7. QED  BY <1>5, <1>6

(* The saturation point of ages is a positive number. *)
LEMMA AgeCapNat == AgeCap \in Nat \ {0}
<1>1. MaxAttempts \in Nat /\ MaxAttempts <= MaxAttempts
  BY ConstantsAssumption
<1>2. Window(MaxAttempts) \in Nat
  BY <1>1, WindowGrows
<1>3. QED  BY <1>2 DEF AgeCap

(* Until exhaustion every window is shorter than a saturated age. *)
LEMMA WindowRunsOut ==
  ASSUME NEW n \in Nat, n < MaxAttempts
  PROVE  AgeCap > Window(n)
<1>1. MaxAttempts \in Nat /\ n <= MaxAttempts
  BY ConstantsAssumption
<1>2. /\ Window(n) \in Nat /\ Window(MaxAttempts) \in Nat
      /\ Window(n) <= Window(MaxAttempts)
  BY <1>1, WindowGrows
<1>3. QED  BY <1>2 DEF AgeCap

(* Appending a row keeps the types. *)
LEMMA AppendRowType ==
  ASSUME LTypeOK, NEW m \in memories, NEW r \in Row,
         AppendRow(m, r), UNCHANGED memories
  PROVE  LTypeOK'
<1>1. /\ m \in Memories
      /\ events[m] \in Seq(Row)
      /\ age[m] \in Seq(0..AgeCap)
      /\ Len(age[m]) = Len(events[m])
  BY DEF LTypeOK
<1>2. /\ Append(events[m], r) \in Seq(Row)
      /\ Append(age[m], 0) \in Seq(0..AgeCap)
      /\ Len(Append(age[m], 0)) = Len(Append(events[m], r))
  BY <1>1, AgeCapNat
<1>3. /\ events' = [events EXCEPT ![m] = Append(events[m], r)]
      /\ age' = [age EXCEPT ![m] = Append(age[m], 0)]
  BY DEF AppendRow
<1>4. events' \in [Memories -> Seq(Row)] /\ age' \in [Memories -> Seq(0..AgeCap)]
  BY <1>1, <1>2, <1>3 DEF LTypeOK
<1>5. \A n \in Memories : /\ Len(age'[n]) = Len(events'[n])
                          /\ n \notin memories' => events'[n] = <<>>
  BY <1>1, <1>2, <1>3 DEF LTypeOK
<1>6. QED  BY <1>4, <1>5 DEF LTypeOK

(* The rows the store API writes are rows of the table. *)
LEMMA RowTypes ==
  ASSUME NEW v \in Versions, NEW a \in Nat, NEW p \in BOOLEAN
  PROVE  /\ DoneRow(v, a) \in Row
         /\ [version |-> v, attempt |-> a,
             status |-> "failed", permanent |-> p] \in Row
BY DEF DoneRow, Row

(* Every store call either leaves the ledger alone or appends one row. *)
LEMMA InsertIsAppend ==
  ASSUME NEW m \in memories, NEW v \in Versions, NEW a \in 1..ActAttempts,
         NEW p \in BOOLEAN, InsertDone(m, v, a) \/ InsertFailed(m, v, a, p)
  PROVE  /\ UNCHANGED memories
         /\ \/ UNCHANGED <<events, age>>
            \/ \E r \in Row : AppendRow(m, r)
<1>1. a \in Nat
  BY ConstantsAssumption
<1>2. QED  BY <1>1, RowTypes DEF InsertDone, InsertFailed

(* Every step keeps the types. *)
LEMMA LTypeStep == LTypeOK /\ [LNext]_lvars => LTypeOK'
<1> SUFFICES ASSUME LTypeOK, [LNext]_lvars PROVE LTypeOK'
  OBVIOUS
<1>1. ASSUME NEW m \in Memories, InsertMemory(m) PROVE LTypeOK'
  BY <1>1 DEF InsertMemory, LTypeOK
<1>2. ASSUME NEW m \in memories, NEW v \in Versions, NEW a \in 1..ActAttempts,
             NEW p \in BOOLEAN, InsertDone(m, v, a) \/ InsertFailed(m, v, a, p)
      PROVE  LTypeOK'
  <2>1. CASE UNCHANGED <<events, age>>
    BY <1>2, <2>1, InsertIsAppend DEF LTypeOK
  <2>2. CASE \E r \in Row : AppendRow(m, r)
    BY <1>2, <2>2, InsertIsAppend, AppendRowType
  <2>3. QED  BY <1>2, <2>1, <2>2, InsertIsAppend
<1>3. CASE TimePasses
  <2>1. \A m \in Memories : age'[m] \in Seq(0..AgeCap) /\ Len(age'[m]) = Len(age[m])
    <3> TAKE m \in Memories
    <3>1. age[m] \in Seq(0..AgeCap)
      BY DEF LTypeOK
    <3>2. age'[m] = [i \in 1..Len(age[m]) |-> Lesser(age[m][i] + 1, AgeCap)]
      BY <1>3, <3>1 DEF TimePasses
    <3>3. \A i \in 1..Len(age[m]) : Lesser(age[m][i] + 1, AgeCap) \in 0..AgeCap
      BY <3>1, AgeCapNat DEF Lesser
    <3>4. Len(age[m]) \in Nat
      BY <3>1
    <3>5. QED  BY <3>2, <3>3, <3>4
  <2>2. age' \in [Memories -> Seq(0..AgeCap)]
    BY <1>3, <2>1 DEF TimePasses
  <2>3. QED  BY <1>3, <2>1, <2>2 DEF TimePasses, LTypeOK
<1>4. CASE UNCHANGED lvars
  BY <1>4 DEF lvars, LTypeOK
<1>5. QED  BY <1>1, <1>2, <1>3, <1>4 DEF LNext

(* The types of the tables hold in every reachable state. *)
THEOREM LTypeCorrect == LSpec => []LTypeOK
<1>1. LInit => LTypeOK
  BY DEF LInit, LTypeOK
<1>2. QED  BY <1>1, LTypeStep, PTL DEF LSpec

(* What a step of the ledger does to the rows of any memory: nothing, or   *)
(* one appended row, a done row only where there was none.                 *)
LEMMA StepAppends ==
  ASSUME LTypeOK, [LNext]_lvars, NEW n \in Memories
  PROVE  \/ events'[n] = events[n]
         \/ \E r \in Row : /\ events'[n] = Append(events[n], r)
                           /\ r.status = "done" => ~HasDone(n, r.version)
<1>1. CASE UNCHANGED events
  BY <1>1
<1>2. ASSUME NEW m \in memories, NEW v \in Versions, NEW a \in 1..ActAttempts,
             InsertDone(m, v, a)
      PROVE  \/ events'[n] = events[n]
             \/ \E r \in Row : /\ events'[n] = Append(events[n], r)
                               /\ r.status = "done" => ~HasDone(n, r.version)
  <2>1. DoneRow(v, a) \in Row /\ DoneRow(v, a).version = v
    BY ConstantsAssumption DEF DoneRow, Row
  <2>2. CASE HasDone(m, v)
    BY <1>2, <2>2 DEF InsertDone
  <2>3. CASE ~HasDone(m, v)
    <3>1. events' = [events EXCEPT ![m] = Append(events[m], DoneRow(v, a))]
      BY <1>2, <2>3 DEF InsertDone, AppendRow
    <3>2. CASE n = m
      BY <2>1, <2>3, <3>1, <3>2 DEF LTypeOK
    <3>3. CASE n # m
      BY <3>1, <3>3 DEF LTypeOK
    <3>4. QED  BY <3>2, <3>3
  <2>4. QED  BY <2>2, <2>3
<1>3. ASSUME NEW m \in memories, NEW v \in Versions, NEW a \in 1..ActAttempts,
             NEW p \in BOOLEAN, InsertFailed(m, v, a, p)
      PROVE  \/ events'[n] = events[n]
             \/ \E r \in Row : /\ events'[n] = Append(events[n], r)
                               /\ r.status = "done" => ~HasDone(n, r.version)
  <2> DEFINE r == [version |-> v, attempt |-> a,
                   status |-> "failed", permanent |-> p]
  <2>1. r \in Row /\ r.status # "done"
    BY ConstantsAssumption DEF Row
  <2>2. events' = [events EXCEPT ![m] = Append(events[m], r)]
    BY <1>3 DEF InsertFailed, AppendRow
  <2>3. CASE n = m
    BY <2>1, <2>2, <2>3 DEF LTypeOK
  <2>4. CASE n # m
    BY <2>2, <2>4 DEF LTypeOK
  <2>5. QED  BY <2>3, <2>4
<1>4. QED
  BY <1>1, <1>2, <1>3 DEF LNext, InsertMemory, TimePasses, lvars

(* No step gives a memory a second done row of one version. *)
LEMMA OneDoneStep == LTypeOK /\ AtMostOneDone /\ [LNext]_lvars => AtMostOneDone'
<1> SUFFICES ASSUME LTypeOK, AtMostOneDone, [LNext]_lvars,
                    NEW m \in Memories, NEW v \in Versions,
                    NEW i \in DoneRows(m, v)', NEW j \in DoneRows(m, v)'
             PROVE  i = j
  BY DEF AtMostOneDone
<1>1. CASE events'[m] = events[m]
  BY <1>1 DEF AtMostOneDone, DoneRows
<1>2. ASSUME NEW r \in Row, events'[m] = Append(events[m], r),
             r.status = "done" => ~HasDone(m, r.version)
      PROVE  i = j
  <2> DEFINE n == Len(events[m])
  <2>1. events[m] \in Seq(Row) /\ n \in Nat
    BY DEF LTypeOK
  <2>2. /\ DOMAIN events'[m] = 1..(n + 1)
        /\ DOMAIN events[m] = 1..n
        /\ events'[m][n + 1] = r
        /\ \A k \in 1..n : events'[m][k] = events[m][k]
    BY <1>2, <2>1
  <2>3. \A k \in DoneRows(m, v)' : \/ k \in DoneRows(m, v)
                                   \/ k = n + 1 /\ r.status = "done" /\ r.version = v
    <3> SUFFICES ASSUME NEW k \in DoneRows(m, v)'
                 PROVE  \/ k \in DoneRows(m, v)
                        \/ k = n + 1 /\ r.status = "done" /\ r.version = v
      OBVIOUS
    <3>1. /\ k \in DOMAIN events'[m]
          /\ events'[m][k].version = v /\ events'[m][k].status = "done"
      BY DEF DoneRows
    <3>2. k \in 1..n \/ k = n + 1
      BY <2>1, <2>2, <3>1
    <3>3. CASE k \in 1..n
      BY <2>2, <3>1, <3>3 DEF DoneRows
    <3>4. CASE k = n + 1
      BY <2>2, <3>1, <3>4
    <3>5. QED  BY <3>2, <3>3, <3>4
  <2>4. r.status = "done" /\ r.version = v => DoneRows(m, v) = {}
    BY <1>2 DEF HasDone
  <2>5. QED  BY <2>3, <2>4 DEF AtMostOneDone
<1>3. QED  BY <1>1, <1>2, StepAppends

(* uq_enrich_success with its ON CONFLICT arbiter: at most one done row    *)
(* per memory and version, for any number of attempts and writers.         *)
THEOREM OneDone == LSpec => []AtMostOneDone
<1>1. LInit => AtMostOneDone
  BY DEF LInit, AtMostOneDone, DoneRows
<1>2. QED  BY <1>1, OneDoneStep, LTypeCorrect, PTL DEF LSpec

(* No step removes or rewrites a row. *)
LEMMA HistoryKept == LTypeOK /\ [LNext]_lvars => HistoryStep
<1> SUFFICES ASSUME LTypeOK, [LNext]_lvars, NEW m \in Memories,
                    NEW i \in DOMAIN events[m]
             PROVE  i \in DOMAIN events'[m] /\ events'[m][i] = events[m][i]
  BY DEF HistoryStep
<1>1. events[m] \in Seq(Row)
  BY DEF LTypeOK
<1>2. CASE events'[m] = events[m]
  BY <1>2
<1>3. ASSUME NEW r \in Row, events'[m] = Append(events[m], r)
      PROVE  i \in DOMAIN events'[m] /\ events'[m][i] = events[m][i]
  BY <1>1, <1>3
<1>4. QED  BY <1>2, <1>3, StepAppends

(* Append-only: once written, a row stays as it is for ever. *)
THEOREM History == LSpec => HistoryImmutable
<1>1. LTypeOK /\ [LNext]_lvars => [HistoryStep]_lvars
  BY HistoryKept
<1>2. QED  BY <1>1, LTypeCorrect, PTL DEF LSpec, HistoryImmutable

(* The failed rows of a memory are finitely many rows of its ledger. *)
LEMMA FailedRowsFinite ==
  ASSUME LTypeOK, NEW m \in Memories, NEW v
  PROVE  /\ FailedRows(m, v) \subseteq DOMAIN events[m]
         /\ FailedRows(m, v) \subseteq Nat
         /\ IsFiniteSet(FailedRows(m, v))
         /\ NFail(m, v) \in Nat
<1>1. events[m] \in Seq(Row)
  BY DEF LTypeOK
<1>2. DOMAIN events[m] = 1..Len(events[m]) /\ Len(events[m]) \in Nat
  BY <1>1
<1>3. FailedRows(m, v) \subseteq DOMAIN events[m]
  BY DEF FailedRows
<1>4. IsFiniteSet(1..Len(events[m]))
  BY <1>2, FS_Interval
<1>5. IsFiniteSet(FailedRows(m, v))
  BY <1>2, <1>3, <1>4, FS_Subset
<1>6. QED  BY <1>2, <1>3, <1>5, FS_CardinalityType DEF NFail

(* ORDER BY attempt DESC, id DESC has a first row: the latest failure      *)
(* exists as soon as there is a failed row.                                *)
LEMMA LastFailExists ==
  ASSUME LTypeOK, NEW m \in Memories, NEW v, FailedRows(m, v) # {}
  PROVE  LastFail(m, v) \in FailedRows(m, v)
<1> DEFINE F == FailedRows(m, v)
           A == {events[m][i].attempt : i \in F}
<1>1. F \subseteq DOMAIN events[m] /\ F \subseteq Nat /\ IsFiniteSet(F) /\ F # {}
  BY FailedRowsFinite
<1>2. \A i \in F : events[m][i].attempt \in Nat
  <2>1. events[m] \in Seq(Row)
    BY DEF LTypeOK
  <2>2. \A i \in DOMAIN events[m] : events[m][i] \in Row
    BY <2>1
  <2>3. QED  BY <1>1, <2>2 DEF Row
<1> HIDE DEF F
<1>3. A \in SUBSET Int /\ A # {}
  <2>1. PICK i \in F : TRUE
    BY <1>1
  <2>2. events[m][i].attempt \in A
    OBVIOUS
  <2>3. ASSUME NEW a \in A PROVE a \in Int
    <3>1. PICK k \in F : a = events[m][k].attempt
      OBVIOUS
    <3>2. QED  BY <1>2, <3>1
  <2>4. QED  BY <2>2, <2>3
<1>4. IsFiniteSet(A)
  <2> DEFINE f == [i \in F |-> events[m][i].attempt]
  <2>1. f \in Surjection(F, A)
    BY DEF Surjection
  <2>2. QED  BY <1>1, <2>1, FS_Surjection
<1>5. PICK a \in A : \A b \in A : b <= a
  BY <1>3, <1>4, GreatestInt
<1> DEFINE G == {i \in F : events[m][i].attempt = a}
<1>6. G \in SUBSET Int /\ G # {} /\ IsFiniteSet(G)
  <2>1. G \subseteq F /\ G # {}
    BY <1>5
  <2> HIDE DEF G
  <2>2. IsFiniteSet(G)
    BY <1>1, <2>1, FS_Subset
  <2>3. QED  BY <1>1, <2>1, <2>2
<1>7. PICK i \in G : \A j \in G : j <= i
  BY <1>6, GreatestInt
<1>8. /\ i \in F
      /\ \A j \in F : \/ events[m][j].attempt < events[m][i].attempt
                      \/ events[m][j].attempt = events[m][i].attempt /\ j <= i
  <2>1. i \in F /\ events[m][i].attempt = a /\ a \in Nat
    BY <1>2, <1>7
  <2> SUFFICES ASSUME NEW j \in F
               PROVE  \/ events[m][j].attempt < events[m][i].attempt
                      \/ events[m][j].attempt = events[m][i].attempt /\ j <= i
    BY <2>1
  <2>2. events[m][j].attempt <= a /\ events[m][j].attempt \in Nat
    BY <1>2, <1>5
  <2>3. events[m][j].attempt = a => j <= i
    BY <1>7
  <2>4. QED  BY <2>1, <2>2, <2>3
<1>9. QED  BY <1>8 DEF LastFail, F

(* A memory that is neither done nor dead-lettered is claimable once its   *)
(* rows have aged past every window.                                       *)
LEMMA AgedIsPending ==
  ASSUME LTypeOK, NEW m \in memories, NEW v \in Versions,
         ~HasDone(m, v), ~HasPermanent(m, v), ~(NFail(m, v) >= MaxAttempts),
         \A i \in DOMAIN age[m] : age[m][i] = AgeCap
  PROVE  m \in Pending(v)
<1>1. m \in Memories
  BY DEF LTypeOK
<1>2. NFail(m, v) \in Nat /\ NFail(m, v) < MaxAttempts
  BY <1>1, FailedRowsFinite, ConstantsAssumption
<1>3. PastBackoff(m, v)
  <2> SUFFICES ASSUME FailedRows(m, v) # {}
               PROVE  age[m][LastFail(m, v)] > Window(NFail(m, v))
    BY DEF PastBackoff
  <2>1. LastFail(m, v) \in DOMAIN events[m]
    BY <1>1, LastFailExists, FailedRowsFinite
  <2>2. DOMAIN age[m] = DOMAIN events[m]
    <3>1. events[m] \in Seq(Row) /\ age[m] \in Seq(0..AgeCap) /\ Len(age[m]) = Len(events[m])
      BY <1>1 DEF LTypeOK
    <3>2. QED  BY <3>1
  <2>3. age[m][LastFail(m, v)] = AgeCap
    BY <2>1, <2>2
  <2>4. QED  BY <1>2, <2>3, WindowRunsOut
<1>4. QED  BY <1>2, <1>3 DEF Pending

(* The typed ledger leaves no limbo. *)
LEMMA TypedNoLimbo == LTypeOK => NoLimbo
<1> SUFFICES ASSUME LTypeOK, NEW m \in memories, NEW v \in Versions
             PROVE  /\ ~(HasDone(m, v) /\ m \in DeadLetter(v))
                    /\ ~(HasDone(m, v) /\ m \in Pending(v))
                    /\ ~(m \in DeadLetter(v) /\ m \in Pending(v))
                    /\ (\A i \in DOMAIN age[m] : age[m][i] = AgeCap)
                          => HasDone(m, v) \/ m \in DeadLetter(v) \/ m \in Pending(v)
  BY DEF NoLimbo
<1>1. NFail(m, v) \in Nat
  BY FailedRowsFinite DEF LTypeOK
<1>2. ~(m \in DeadLetter(v) /\ m \in Pending(v))
  BY <1>1, ConstantsAssumption DEF DeadLetter, Pending
<1>3. ~(HasDone(m, v) /\ m \in DeadLetter(v)) /\ ~(HasDone(m, v) /\ m \in Pending(v))
  BY DEF DeadLetter, Pending
<1>4. (\A i \in DOMAIN age[m] : age[m][i] = AgeCap)
         => HasDone(m, v) \/ m \in DeadLetter(v) \/ m \in Pending(v)
  BY AgedIsPending DEF DeadLetter
<1>5. QED  BY <1>2, <1>3, <1>4

(* pendingCoreSQL and dead_letter never overlap and, once the windows have *)
(* run out, never both miss a memory: for every MaxAttempts and backoff.   *)
THEOREM LimboFree == LSpec => []NoLimbo
<1>1. QED  BY LTypeCorrect, TypedNoLimbo, PTL
=============================================================================
