------------------------- MODULE EmbedClientProofs --------------------------
(***************************************************************************)
(* Proofs about the embedding client, for any number of concurrent calls,  *)
(* texts, embedders and retry bounds.  CInv is inductive: it adds to the   *)
(* properties what the cache holds, what a call about to store holds, and  *)
(* that the streak of permanent errors is at least the count of re-asks.   *)
(***************************************************************************)
EXTENDS EmbedClient, TLAPS

Call == [job : Jobs \cup {NoJob},
         pc : {"idle", "lookup", "ask", "backoff", "store", "returned"},
         db : BOOLEAN, tries : 0..TransientRetries, asks : 0..DimsRetries,
         rpcs : 0..(RpcAttempts - 1), vec : Vector \cup {NoVec}]

Result == [err : {"none", "permanent", "transient"},
           from : {"nowhere", "guard", "cache", "rpc", "error"},
           vec : Vector \cup {NoVec}]

(* CTypeOK of one call. *)
CallOK(s) == /\ s \in Call
             /\ s.pc # "idle" => s.job \in Jobs
             /\ s.pc = "store" => s.vec \in Vector

(* A key has one row, of the key's own prefix and with a good vector. *)
CacheOK ==
    /\ \A r \in cache : r.prefix = r.key[1] /\ Good(r.vec, r.key)
    /\ \A r, q \in cache : r.key = q.key => r = q

(* What holds of one call, its state s, streak k and result r, if the cache *)
(* holds the rows C.                                                       *)
CallInv(s, k, r, C) ==
    /\ s.pc \notin {"store", "returned"} => s.asks <= k
    /\ s.pc = "store" => Good(s.vec, Text(s.job))
    /\ s.pc # "returned" => r = NoResult
    /\ s.pc = "returned" /\ r.err = "none" =>
          r.vec \in Vector /\ Good(r.vec, Text(s.job))
    /\ r.err = "permanent" /\ r.from # "guard" => k > DimsRetries
    /\ r.from = "cache" => \E q \in C : q.key = Text(s.job) /\ q.vec = r.vec

CInv == /\ CTypeOK /\ CacheOK
        /\ \A c \in Calls : CallInv(call[c], streak[c], result[c], cache)

-----------------------------------------------------------------------------

LEMMA TypeUnfolded ==
    CTypeOK <=> /\ cache \subseteq CacheRow
                /\ gen \in 1..MaxGen
                /\ call \in [Calls -> Call]
                /\ streak \in [Calls -> 0..(DimsRetries + 1)]
                /\ result \in [Calls -> Result]
                /\ \A c \in Calls : CallOK(call[c])
<1>1. ASSUME call \in [Calls -> Call], NEW c \in Calls PROVE call[c] \in Call
  BY <1>1
<1> QED BY <1>1 DEF CTypeOK, Call, Result, CallOK

LEMMA AtType ==
    ASSUME NEW job \in Jobs \cup {NoJob}, NEW db \in BOOLEAN,
           NEW pc \in {"idle", "lookup", "ask", "backoff", "returned"},
           pc # "idle" => job \in Jobs
    PROVE  CallOK(At(job, pc, db))
BY EmbedAssumption DEF At, CallOK, Call

(* The initial state satisfies the invariant. *)
LEMMA InitInv == CInit => CInv
<1> SUFFICES ASSUME CInit PROVE CInv OBVIOUS
<1>1. CallOK(Idle) BY AtType DEF Idle
<1>2. Idle \in Call /\ NoResult \in Result
  BY <1>1 DEF CallOK, NoResult, Result
<1>3. call \in [Calls -> Call] /\ result \in [Calls -> Result]
  BY <1>2 DEF CInit
<1>4. \A c \in Calls : call[c] = Idle /\ streak[c] = 0 /\ result[c] = NoResult
  BY DEF CInit
<1>5. CTypeOK
  BY <1>1, <1>3, <1>4, EmbedAssumption, TypeUnfolded DEF CInit
<1>6. CallInv(Idle, 0, NoResult, cache)
  BY DEF CallInv, Idle, At, NoResult
<1> QED BY <1>4, <1>5, <1>6 DEF CInv, CacheOK, CInit

(* A step of call c alone: its state, streak and result become s, k and r, *)
(* the cache only grows and stays good.                                    *)
LEMMA OneCall ==
    ASSUME CInv, NEW c \in Calls, NEW s, NEW k, NEW r,
           call' = [call EXCEPT ![c] = s], streak' = [streak EXCEPT ![c] = k],
           result' = [result EXCEPT ![c] = r],
           CallOK(s), k \in 0..(DimsRetries + 1), r \in Result,
           cache \subseteq cache', cache' \subseteq CacheRow, CacheOK',
           gen' = gen, CallInv(s, k, r, cache')
    PROVE  CInv'
<1>1. /\ call \in [Calls -> Call] /\ streak \in [Calls -> 0..(DimsRetries + 1)]
      /\ result \in [Calls -> Result] /\ gen \in 1..MaxGen
      /\ \A d \in Calls : CallOK(call[d])
  BY TypeUnfolded DEF CInv
<1>2. /\ call' \in [Calls -> Call] /\ streak' \in [Calls -> 0..(DimsRetries + 1)]
      /\ result' \in [Calls -> Result]
  BY <1>1 DEF CallOK
<1>3. \A d \in Calls : CallOK(call'[d])
  BY <1>1
<1>4. CTypeOK' = (/\ cache' \subseteq CacheRow
                  /\ gen' \in 1..MaxGen
                  /\ call' \in [Calls -> Call]
                  /\ streak' \in [Calls -> 0..(DimsRetries + 1)]
                  /\ result' \in [Calls -> Result]
                  /\ \A d \in Calls : CallOK(call'[d]))
  BY DEF CTypeOK, Call, Result, CallOK
<1>5. CTypeOK' BY <1>1, <1>2, <1>3, <1>4
<1>6. ASSUME NEW d \in Calls PROVE CallInv(call[d], streak[d], result[d], cache)'
  <2>1. CASE d = c
    BY <1>1, <2>1
  <2>2. CASE d # c
    <3>1. call'[d] = call[d] /\ streak'[d] = streak[d] /\ result'[d] = result[d]
      BY <1>1, <2>2
    <3>2. CallInv(call[d], streak[d], result[d], cache) BY DEF CInv
    <3> QED BY <3>1, <3>2 DEF CallInv, Good
  <2> QED BY <2>1, <2>2
<1> QED BY <1>5, <1>6 DEF CInv

LEMMA SameCache ==
    ASSUME CInv, cache' = cache
    PROVE  cache \subseteq cache' /\ cache' \subseteq CacheRow /\ CacheOK'
<1>1. cache \subseteq CacheRow /\ CacheOK BY TypeUnfolded DEF CInv
<1> QED BY <1>1 DEF CacheOK, Good

LEMMA CallFacts ==
    ASSUME CInv, NEW c \in Calls
    PROVE  /\ CallOK(call[c]) /\ call[c] \in Call
           /\ streak[c] \in 0..(DimsRetries + 1) /\ result[c] \in Result
           /\ CallInv(call[c], streak[c], result[c], cache)
           /\ streak = [streak EXCEPT ![c] = streak[c]]
           /\ result = [result EXCEPT ![c] = result[c]]
<1>1. /\ call \in [Calls -> Call] /\ streak \in [Calls -> 0..(DimsRetries + 1)]
      /\ result \in [Calls -> Result] /\ \A d \in Calls : CallOK(call[d])
  BY TypeUnfolded DEF CInv
<1>2. CallInv(call[c], streak[c], result[c], cache) BY DEF CInv
<1> QED BY <1>1, <1>2

(* Call c returns. *)
LEMMA ReturnStep ==
    ASSUME CInv, NEW c \in Calls, NEW job \in Jobs, NEW err, NEW from, NEW v,
           NEW k \in 0..(DimsRetries + 1),
           Return(c, job, err, from, v), streak' = [streak EXCEPT ![c] = k],
           err \in {"none", "permanent", "transient"},
           from \in {"guard", "cache", "rpc", "error"}, v \in Vector \cup {NoVec},
           cache \subseteq cache', cache' \subseteq CacheRow, CacheOK', gen' = gen,
           err = "none" => v \in Vector /\ Good(v, Text(job)),
           err = "permanent" /\ from # "guard" => k > DimsRetries,
           from = "cache" => \E q \in cache' : q.key = Text(job) /\ q.vec = v
    PROVE  CInv'
<1> DEFINE s == At(job, "returned", FALSE)
           r == [err |-> err, from |-> from, vec |-> v]
<1>1. CallOK(s) BY AtType
<1>2. r \in Result BY DEF Result
<1>3. s.pc = "returned" /\ s.job = job BY DEF At
<1>4. CallInv(s, k, r, cache')
  BY <1>3 DEF CallInv
<1>5. call' = [call EXCEPT ![c] = s] /\ result' = [result EXCEPT ![c] = r]
  BY DEF Return
<1> HIDE DEF s, r
<1> QED BY <1>1, <1>2, <1>4, <1>5, OneCall

(* Call c goes on, to s. *)
LEMMA MoveStep ==
    ASSUME CInv, NEW c \in Calls, NEW s, NEW k \in 0..(DimsRetries + 1),
           call[c].pc # "returned", s.pc # "returned",
           call' = [call EXCEPT ![c] = s], streak' = [streak EXCEPT ![c] = k],
           result' = result, cache' = cache, gen' = gen, CallOK(s),
           s.pc # "store" => s.asks <= k,
           s.pc = "store" => Good(s.vec, Text(s.job))
    PROVE  CInv'
<1>1. result[c] = NoResult /\ result' = [result EXCEPT ![c] = result[c]]
      /\ result[c] \in Result
  BY CallFacts DEF CallInv
<1>2. CallInv(s, k, result[c], cache')
  BY <1>1 DEF CallInv, NoResult
<1>3. cache \subseteq cache' /\ cache' \subseteq CacheRow /\ CacheOK'
  BY SameCache
<1> QED BY <1>1, <1>2, <1>3, OneCall

-----------------------------------------------------------------------------
(* One lemma per action.                                                   *)

LEMMA StartInv ==
    ASSUME CInv, NEW c \in Calls, NEW j \in Jobs, Start(c, j)
    PROVE  CInv'
<1>1. /\ streak[c] \in 0..(DimsRetries + 1)
      /\ streak' = [streak EXCEPT ![c] = streak[c]]
      /\ call[c].pc = "idle" /\ cache' = cache /\ gen' = gen
  BY CallFacts DEF Start
<1>2. cache \subseteq cache' /\ cache' \subseteq CacheRow /\ CacheOK'
  BY <1>1, SameCache
<1>3. CASE Return(c, j, "permanent", "guard", NoVec)
  BY <1>1, <1>2, <1>3, ReturnStep
<1>4. CASE /\ \E db \in BOOLEAN :
                call' = [call EXCEPT ![c] =
                           At(j, IF db THEN "lookup" ELSE "ask", db)]
           /\ UNCHANGED result
  <2>1. PICK db \in BOOLEAN :
            call' = [call EXCEPT ![c] = At(j, IF db THEN "lookup" ELSE "ask", db)]
    BY <1>4
  <2> DEFINE pc == IF db THEN "lookup" ELSE "ask"
             s == At(j, pc, db)
  <2>2. pc \in {"lookup", "ask"} OBVIOUS
  <2>3. CallOK(s) BY <2>2, AtType
  <2>4. s.pc = pc /\ s.asks = 0 BY DEF At
  <2>5. call' = [call EXCEPT ![c] = s] BY <2>1
  <2> HIDE DEF s, pc
  <2>6. s.pc \notin {"store", "returned"} /\ s.asks <= streak[c]
    BY <1>1, <2>2, <2>4, EmbedAssumption
  <2> QED BY <1>1, <1>4, <2>3, <2>5, <2>6, MoveStep
<1> QED BY <1>3, <1>4 DEF Start

LEMMA CacheGetInv ==
    ASSUME CInv, NEW c \in Calls, CacheGet(c)
    PROVE  CInv'
<1>1. /\ streak[c] \in 0..(DimsRetries + 1)
      /\ streak' = [streak EXCEPT ![c] = streak[c]]
      /\ call[c].pc = "lookup" /\ cache' = cache /\ gen' = gen
      /\ CallOK(call[c]) /\ CallInv(call[c], streak[c], result[c], cache)
  BY CallFacts DEF CacheGet
<1>2. cache \subseteq cache' /\ cache' \subseteq CacheRow /\ CacheOK'
  BY <1>1, SameCache
<1>3. call[c].job \in Jobs BY <1>1 DEF CallOK
<1>4. ASSUME NEW q \in CacheRows(c),
             Return(c, call[c].job, "none", "cache", q.vec)
      PROVE  CInv'
  <2>1. q \in cache /\ q.key = Text(call[c].job)
    BY DEF CacheRows, CacheKey
  <2>2. q.vec \in Vector /\ Good(q.vec, q.key)
    BY <1>1, <1>2, <2>1 DEF CInv, CacheOK, CacheRow
  <2>3. PICK j \in Jobs, v \in Vector : j = call[c].job /\ v = q.vec
    BY <1>3, <2>2
  <2>4. Return(c, j, "none", "cache", v) BY <1>4, <2>3 DEF Return
  <2>5. Good(v, Text(j)) /\ \E r \in cache' : r.key = Text(j) /\ r.vec = v
    BY <1>1, <2>1, <2>2, <2>3
  <2> QED BY <1>1, <1>2, <2>4, <2>5, ReturnStep
<1>5. CASE call' = [call EXCEPT ![c].pc = "ask"] /\ UNCHANGED result
  <2> DEFINE s == [call[c] EXCEPT !.pc = "ask"]
  <2>1. CallOK(s) BY <1>1, <1>3 DEF CallOK, Call
  <2>2. s.pc = "ask" /\ s.asks = call[c].asks BY <1>1 DEF CallOK, Call
  <2>3. call' = [call EXCEPT ![c] = s] BY <1>5
  <2>4. s.asks <= streak[c] BY <1>1, <2>2 DEF CallInv
  <2> HIDE DEF s
  <2> QED BY <1>1, <1>5, <2>1, <2>2, <2>3, <2>4, MoveStep
<1>6. CASE Return(c, call[c].job, "transient", "error", NoVec)
  <2>1. PICK j \in Jobs : j = call[c].job BY <1>3
  <2>2. Return(c, j, "transient", "error", NoVec) BY <1>6, <2>1 DEF Return
  <2> QED BY <1>1, <1>2, <2>2, ReturnStep
<1> QED BY <1>4, <1>5, <1>6 DEF CacheGet

LEMMA BackoffInv ==
    ASSUME CInv, NEW c \in Calls, Backoff(c)
    PROVE  CInv'
<1>1. /\ streak[c] \in 0..(DimsRetries + 1)
      /\ streak' = [streak EXCEPT ![c] = streak[c]]
      /\ call[c].pc = "backoff" /\ cache' = cache /\ gen' = gen /\ result' = result
      /\ CallOK(call[c]) /\ CallInv(call[c], streak[c], result[c], cache)
  BY CallFacts DEF Backoff
<1> DEFINE s == [call[c] EXCEPT !.pc = "ask"]
<1>2. CallOK(s) BY <1>1 DEF CallOK, Call
<1>3. s.pc = "ask" /\ s.asks <= streak[c]
  BY <1>1 DEF CallOK, Call, CallInv
<1>4. call' = [call EXCEPT ![c] = s] BY DEF Backoff
<1> HIDE DEF s
<1> QED BY <1>1, <1>2, <1>3, <1>4, MoveStep

LEMMA ContextEndsInv ==
    ASSUME CInv, NEW c \in Calls, ContextEnds(c)
    PROVE  CInv'
<1>1. /\ call[c].pc \in {"lookup", "ask", "backoff"} /\ cache' = cache
      /\ gen' = gen /\ streak' = [streak EXCEPT ![c] = 0] /\ CallOK(call[c])
      /\ Return(c, call[c].job, "transient", "error", NoVec)
  BY CallFacts DEF ContextEnds
<1>2. cache \subseteq cache' /\ cache' \subseteq CacheRow /\ CacheOK'
  BY <1>1, SameCache
<1>3. call[c].job \in Jobs /\ 0 \in 0..(DimsRetries + 1)
  BY <1>1, EmbedAssumption DEF CallOK
<1>4. PICK j \in Jobs : j = call[c].job BY <1>3
<1>5. Return(c, j, "transient", "error", NoVec) BY <1>1, <1>4 DEF Return
<1> QED BY <1>1, <1>2, <1>3, <1>5, ReturnStep

LEMMA TextOf ==
    ASSUME NEW j \in Jobs
    PROVE  /\ Text(j) \in Texts /\ Text(j)[1] = j.prefix
           /\ j.prefix \in Prefixes /\ j.raw \in Raws
<1>1. j.raw \in Raws /\ j.prefix \in Prefixes BY EmbedAssumption
<1> QED BY <1>1 DEF Text, Texts

LEMMA CachePutInv ==
    ASSUME CInv, NEW c \in Calls, CachePut(c)
    PROVE  CInv'
<1>1. /\ streak[c] \in 0..(DimsRetries + 1)
      /\ streak' = [streak EXCEPT ![c] = streak[c]]
      /\ call[c].pc = "store" /\ gen' = gen
      /\ CallOK(call[c]) /\ CallInv(call[c], streak[c], result[c], cache)
      /\ Return(c, call[c].job, "none", "rpc", call[c].vec)
  BY CallFacts DEF CachePut
<1> DEFINE job == call[c].job
           v == call[c].vec
           row == RowFor(c, v)
<1>2. job \in Jobs /\ v \in Vector /\ Good(v, Text(job))
  BY <1>1 DEF CallOK, CallInv
<1>3. /\ row \in CacheRow /\ row.key = Text(job) /\ row.vec = v
      /\ row.prefix = row.key[1]
  BY <1>2, TextOf DEF RowFor, CacheKey, CacheRow
<1>4. cache \subseteq CacheRow /\ CacheOK BY TypeUnfolded DEF CInv
<1>5. cache \subseteq cache' /\ cache' \subseteq CacheRow /\ CacheOK'
  <2>1. CASE cache' = cache BY <2>1, SameCache
  <2>2. CASE cache' = cache \cup {row} /\ CacheRows(c) = {}
    <3>1. \A r \in cache : r.key # row.key
      <4> SUFFICES ASSUME NEW r \in cache, r.key = row.key PROVE FALSE OBVIOUS
      <4>1. r.prefix = row.prefix BY <1>3, <1>4 DEF CacheOK
      <4>2. row.prefix = job.prefix BY DEF RowFor
      <4>3. r \in CacheRows(c) BY <1>3, <4>1, <4>2 DEF CacheRows, CacheKey
      <4> QED BY <2>2, <4>3
    <3> HIDE DEF row, v, job
    <3>2. \A r \in cache' : r.prefix = r.key[1] /\ Good(r.vec, r.key)
      BY <1>2, <1>3, <1>4, <2>2 DEF CacheOK
    <3>3. \A r, q \in cache' : r.key = q.key => r = q
      BY <1>4, <2>2, <3>1 DEF CacheOK
    <3>4. CacheOK' BY <3>2, <3>3 DEF CacheOK, Good
    <3> QED BY <1>3, <1>4, <2>2, <3>4
  <2> QED BY <2>1, <2>2 DEF CachePut
<1>6. PICK j \in Jobs, w \in Vector : j = job /\ w = v
  BY <1>2
<1>7. Return(c, j, "none", "rpc", w) BY <1>1, <1>6 DEF Return
<1>8. Good(w, Text(j)) BY <1>2, <1>6
<1> QED BY <1>1, <1>5, <1>7, <1>8, ReturnStep

LEMMA FreshGood ==
    ASSUME CInv, NEW c \in Calls, call[c].job \in Jobs
    PROVE  /\ L2Normalize(Fresh(c)) \in Vector
           /\ Good(L2Normalize(Fresh(c)), Text(call[c].job))
<1>1. Text(call[c].job) \in Texts BY TextOf
<1>2. gen \in 1..MaxGen BY TypeUnfolded DEF CInv
<1>3. PICK n \in {"zero", "other"} :
          Fresh(c) = [of |-> Text(call[c].job), gen |-> gen, norm |-> n]
  BY DEF Fresh
<1>4. L2Normalize(Fresh(c)) = [of |-> Text(call[c].job), gen |-> gen,
                               norm |-> IF n = "zero" THEN "zero" ELSE "one"]
  BY <1>3 DEF L2Normalize
<1> QED BY <1>1, <1>2, <1>4 DEF Vector, Good

(* What one more permanent error, or the end of the run of them, does to   *)
(* the streak.                                                             *)
LEMMA StreakStep ==
    ASSUME NEW k \in 0..(DimsRetries + 1), NEW perm \in BOOLEAN,
           NEW n, n = IF ~perm THEN 0 ELSE IF k > DimsRetries THEN k ELSE k + 1
    PROVE  /\ n \in 0..(DimsRetries + 1)
           /\ \A a \in 0..DimsRetries : perm /\ a <= k =>
                 /\ a < DimsRetries => a + 1 <= n
                 /\ a >= DimsRetries => n > DimsRetries
BY EmbedAssumption

LEMMA AttemptInv ==
    ASSUME CInv, NEW c \in Calls, Attempt(c)
    PROVE  CInv'
<1>1. /\ streak[c] \in 0..(DimsRetries + 1)
      /\ call[c].pc = "ask" /\ cache' = cache /\ gen' = gen
      /\ CallOK(call[c]) /\ call[c] \in Call
      /\ CallInv(call[c], streak[c], result[c], cache)
  BY CallFacts DEF Attempt
<1>2. cache \subseteq cache' /\ cache' \subseteq CacheRow /\ CacheOK'
  BY <1>1, SameCache
<1>3. /\ call[c].job \in Jobs /\ call[c].asks <= streak[c]
      /\ call[c].asks \in 0..DimsRetries /\ call[c].tries \in 0..TransientRetries
      /\ call[c].rpcs \in 0..(RpcAttempts - 1)
  BY <1>1 DEF CallOK, CallInv, Call
<1>4. PICK j \in Jobs : j = call[c].job BY <1>3
<1>5. ASSUME call[c].rpcs + 1 < RpcAttempts,
             call' = [call EXCEPT ![c].rpcs = @ + 1], UNCHANGED <<streak, result>>
      PROVE  CInv'
  <2> DEFINE s == [call[c] EXCEPT !.rpcs = @ + 1]
  <2>1. call[c].rpcs + 1 \in 0..(RpcAttempts - 1)
    BY <1>3, <1>5, EmbedAssumption
  <2>2. s \in Call BY <1>1, <2>1 DEF Call
  <2>3. s.pc = "ask" /\ s.job = call[c].job /\ s.asks = call[c].asks
    BY <1>1 DEF Call
  <2>4. CallOK(s) BY <1>3, <2>2, <2>3 DEF CallOK
  <2>5. call' = [call EXCEPT ![c] = s] BY <1>5
  <2>6. streak' = [streak EXCEPT ![c] = streak[c]] BY <1>5, CallFacts
  <2> HIDE DEF s
  <2> QED BY <1>1, <1>3, <1>5, <2>3, <2>4, <2>5, <2>6, MoveStep
<1>6. ASSUME NEW o \in Outcomes, Answered(c, o) PROVE CInv'
  <2>1. PICK k : k = IF ~IsPermanent(o) THEN 0
                     ELSE IF streak[c] > DimsRetries THEN streak[c]
                     ELSE streak[c] + 1
    OBVIOUS
  <2>2. IsPermanent(o) \in BOOLEAN BY DEF IsPermanent
  <2>3. k \in 0..(DimsRetries + 1) BY <1>1, <2>1, <2>2, StreakStep
  <2>4. IsPermanent(o) => /\ call[c].asks < DimsRetries => call[c].asks + 1 <= k
                          /\ call[c].asks >= DimsRetries => k > DimsRetries
    BY <1>1, <1>3, <2>1, <2>2, StreakStep
  <2>5. streak' = [streak EXCEPT ![c] = k]
    BY <1>6, <2>1 DEF Answered
  <2>6. CASE o = "ok"
    <3>1. PICK v \in Vector : v = L2Normalize(Fresh(c)) /\ Good(v, Text(j))
      BY <1>3, <1>4, FreshGood
    <3>2. CASE call' = [call EXCEPT ![c].pc = "store", ![c].vec = v]
               /\ UNCHANGED result
      <4> DEFINE s == [call[c] EXCEPT !.pc = "store", !.vec = v]
      <4>1. s \in Call BY <1>1 DEF Call
      <4>2. s.pc = "store" /\ s.vec = v /\ s.job = j BY <1>1, <1>4 DEF Call
      <4>3. CallOK(s) BY <4>1, <4>2 DEF CallOK
      <4>4. call' = [call EXCEPT ![c] = s]
        BY <3>2, TypeUnfolded DEF CInv
      <4> HIDE DEF s
      <4> QED BY <1>1, <2>3, <2>5, <3>1, <3>2, <4>2, <4>3, <4>4, MoveStep
    <3>3. CASE Return(c, call[c].job, "none", "rpc", L2Normalize(Fresh(c)))
      <4>1. Return(c, j, "none", "rpc", v) BY <1>4, <3>1, <3>3 DEF Return
      <4>2. v \in Vector /\ Good(v, Text(j)) BY <3>1
      <4> QED BY <1>1, <1>2, <2>3, <2>5, <4>1, <4>2, ReturnStep
    <3> QED BY <1>6, <2>6, <3>1, <3>2, <3>3 DEF Answered, Embedded
  <2>7. CASE o # "ok"
    <3>1. CASE /\ IsPermanent(o) /\ call[c].asks < DimsRetries
               /\ call' = [call EXCEPT ![c].asks = @ + 1, ![c].rpcs = 0]
               /\ UNCHANGED result
      <4> DEFINE s == [call[c] EXCEPT !.asks = @ + 1, !.rpcs = 0]
      <4>2. call[c].asks + 1 \in 0..DimsRetries /\ 0 \in 0..(RpcAttempts - 1)
        BY <1>3, <3>1, EmbedAssumption
      <4>3. s \in Call BY <1>1, <4>2 DEF Call
      <4>4. s.pc = "ask" /\ s.job = j /\ s.asks = call[c].asks + 1
        BY <1>1, <1>4 DEF Call
      <4>5. CallOK(s) BY <4>3, <4>4 DEF CallOK
      <4>6. call' = [call EXCEPT ![c] = s]
        BY <3>1, TypeUnfolded DEF CInv
      <4> HIDE DEF s
      <4> QED BY <1>1, <2>3, <2>4, <2>5, <3>1, <4>4, <4>5, <4>6, MoveStep
    <3>2. CASE /\ IsPermanent(o) /\ call[c].asks >= DimsRetries
               /\ Return(c, call[c].job, "permanent", "error", NoVec)
      <4>1. Return(c, j, "permanent", "error", NoVec) BY <1>4, <3>2 DEF Return
      <4>2. k > DimsRetries BY <2>4, <3>2
      <4> QED BY <1>1, <1>2, <2>3, <2>5, <4>1, <4>2, ReturnStep
    <3>3. CASE /\ ~IsPermanent(o) /\ call[c].tries < TransientRetries
               /\ call' = [call EXCEPT ![c].pc = "backoff", ![c].rpcs = 0,
                                       ![c].tries = @ + 1, ![c].asks = 0]
               /\ UNCHANGED result
      <4> DEFINE s == [call[c] EXCEPT !.pc = "backoff", !.rpcs = 0,
                                      !.tries = @ + 1, !.asks = 0]
      <4>1. call[c].tries + 1 \in 0..TransientRetries /\ 0 \in 0..(RpcAttempts - 1)
            /\ 0 \in 0..DimsRetries
        BY <1>3, <3>3, EmbedAssumption
      <4>2. s \in Call BY <1>1, <4>1 DEF Call
      <4>3. s.pc = "backoff" /\ s.job = j /\ s.asks = 0 BY <1>1, <1>4 DEF Call
      <4>4. CallOK(s) BY <4>2, <4>3 DEF CallOK
      <4>5. call' = [call EXCEPT ![c] = s]
        BY <3>3, TypeUnfolded DEF CInv
      <4> HIDE DEF s
      <4>6. s.asks <= k BY <2>3, <4>3, EmbedAssumption
      <4> QED BY <1>1, <2>3, <2>5, <3>3, <4>3, <4>4, <4>5, <4>6, MoveStep
    <3>4. CASE Return(c, call[c].job, "transient", "error", NoVec)
      <4>1. Return(c, j, "transient", "error", NoVec) BY <1>4, <3>4 DEF Return
      <4> QED BY <1>1, <1>2, <2>3, <2>5, <4>1, ReturnStep
    <3> QED
      BY <1>6, <2>7, <3>1, <3>2, <3>3, <3>4 DEF Answered, AfterError, DimsRetry
  <2> QED BY <2>6, <2>7
<1> QED BY <1>5, <1>6 DEF Attempt

LEMMA RedeployInv == CInv /\ Redeploy => CInv'
<1> SUFFICES ASSUME CInv, Redeploy PROVE CInv' OBVIOUS
<1>1. gen' \in 1..MaxGen
  BY EmbedAssumption, TypeUnfolded DEF CInv, Redeploy
<1>2. UNCHANGED <<cache, call, streak, result>> BY DEF Redeploy
<1> QED
  BY <1>1, <1>2 DEF CInv, CTypeOK, CacheOK, CallInv, Good

LEMMA StutterInv == CInv /\ UNCHANGED cvars => CInv'
BY DEF cvars, CInv, CTypeOK, CacheOK, CallInv, Good

LEMMA NextInv == CInv /\ [CNext]_cvars => CInv'
<1> SUFFICES ASSUME CInv, CNext PROVE CInv' BY StutterInv
<1>1. CASE Redeploy BY <1>1, RedeployInv
<1>2. ASSUME NEW c \in Calls, NEW j \in Jobs, Start(c, j) PROVE CInv'
  BY <1>2, StartInv
<1>3. ASSUME NEW c \in Calls, Advance(c) PROVE CInv'
  BY <1>3, CacheGetInv, AttemptInv, BackoffInv, CachePutInv DEF Advance
<1>4. ASSUME NEW c \in Calls, ContextEnds(c) PROVE CInv'
  BY <1>4, ContextEndsInv
<1> QED BY <1>1, <1>2, <1>3, <1>4 DEF CNext

-----------------------------------------------------------------------------

(* The invariant is inductive. *)
LEMMA InvHolds == CSpec => []CInv
BY InitInv, NextInv, PTL DEF CSpec

(* CTypeOK: the bounds of the nested retry loops are never exceeded, and a *)
(* vector is at hand where Client.embed stores one.                        *)
THEOREM CTypeCorrect == CSpec => []CTypeOK
<1>1. CInv => CTypeOK BY DEF CInv
<1> QED BY <1>1, InvHolds, PTL

(* OwnVector: whoever filled the cache, and with whatever embedder, a      *)
(* successful embed returns a normalized vector of its own prefixed text.  *)
THEOREM OwnVectorHolds == CSpec => []OwnVector
<1>1. CInv => OwnVector
  <2> SUFFICES ASSUME CInv, NEW c \in Calls,
                      call[c].pc = "returned", result[c].err = "none"
               PROVE  result[c].vec # NoVec /\ Good(result[c].vec, Text(call[c].job))
    BY DEF OwnVector
  <2>1. result[c].vec \in Vector /\ Good(result[c].vec, Text(call[c].job))
    BY CallFacts DEF CallInv
  <2>2. NoVec \notin Vector BY EmbedAssumption DEF Vector, Texts
  <2> QED BY <2>1, <2>2
<1> QED BY <1>1, InvHolds, PTL

(* HitsAgree: ON CONFLICT DO NOTHING keeps the first vector of a key for   *)
(* ever, so all answers from the cache for a prefixed text are that one.   *)
THEOREM HitsAgreeHolds == CSpec => []HitsAgree
<1>1. CInv => HitsAgree
  <2> SUFFICES ASSUME CInv, NEW c \in Calls, NEW d \in Calls,
                      result[c].from = "cache", call[d].pc # "idle",
                      Text(call[c].job) = Text(call[d].job)
               PROVE  /\ {r.vec : r \in CacheRows(d)} = {result[c].vec}
                      /\ result[d].from = "cache" => result[d].vec = result[c].vec
    BY DEF HitsAgree
  <2>1. CacheOK BY DEF CInv
  <2>2. PICK q \in cache : q.key = Text(call[c].job) /\ q.vec = result[c].vec
    BY CallFacts DEF CallInv
  <2>3. call[d].job \in Jobs BY CallFacts DEF CallOK
  <2>4. q.prefix = call[d].job.prefix
    BY <2>1, <2>2, <2>3, TextOf DEF CacheOK
  <2>5. CacheRows(d) = {q}
    BY <2>1, <2>2, <2>4 DEF CacheRows, CacheKey, CacheOK
  <2>6. ASSUME result[d].from = "cache" PROVE result[d].vec = result[c].vec
    <3>1. PICK p \in cache : p.key = Text(call[d].job) /\ p.vec = result[d].vec
      BY <2>6, CallFacts DEF CallInv
    <3>2. p = q BY <2>1, <2>2, <3>1 DEF CacheOK
    <3> QED BY <2>2, <3>1, <3>2
  <2>7. {r.vec : r \in CacheRows(d)} = {result[c].vec}
    BY <2>2, <2>5
  <2> QED BY <2>6, <2>7
<1> QED BY <1>1, InvHolds, PTL

(* PermanentIsUnanimous: the re-asks of dimsRetryEmbedder report a         *)
(* PermanentError, which dead-letters a memory, only after DimsRetries + 1 *)
(* permanent answers in a row.                                             *)
THEOREM PermanentIsUnanimousHolds == CSpec => []PermanentIsUnanimous
<1>1. CInv => PermanentIsUnanimous
  BY CallFacts DEF PermanentIsUnanimous, CallInv
<1> QED BY <1>1, InvHolds, PTL
=============================================================================
