---------------------------- MODULE EmbedClient ----------------------------
(***************************************************************************)
(* internal/embed: the one way the program embeds a text.  A call goes     *)
(* through Client.embed (double-prefix guard, embedding_cache lookup,      *)
(* transport, dimension check, L2 normalisation, best-effort cache         *)
(* insert).  The transport is the gRPC adapter with its retry policy under *)
(* a bounded re-ask on permanent errors (dimsRetryEmbedder), and on the    *)
(* query side of eval under a bounded retry of transient ones              *)
(* (transientRetryEmbedder).  Calls run concurrently, the embedder service *)
(* may be replaced at any time, and any call's context may end.            *)
(***************************************************************************)
EXTENDS Integers

CONSTANTS Calls,             \* calls, numbered in the order they are made
          Raws,              \* raw texts
          Prefixed,          \* the raw texts that already carry a prefix
          Zeros,             \* the raw texts embedded as the zero vector
          Jobs,              \* what may be asked for: [raw, prefix, side]
          MaxGen,            \* bound on the embedders deployed one after another
          RpcAttempts,       \* maxAttempts of the retry service config
          DimsRetries,       \* dimsRetryEmbedder.retries
          TransientRetries,  \* transientRetryEmbedder.retries
          NoJob, NoVec       \* no job, no vector

Prefixes == {"document", "query"}
Sides == {"worker", "eval"}

ASSUME EmbedAssumption ==
    /\ Calls \subseteq Nat
    /\ Prefixed \subseteq Raws
    /\ Zeros \subseteq Raws
    /\ Jobs \subseteq [raw : Raws, prefix : Prefixes, side : Sides]
    /\ MaxGen \in Nat \ {0}
    /\ RpcAttempts \in Nat \ {0}
    /\ DimsRetries \in Nat
    /\ TransientRetries \in Nat
    /\ NoVec \notin [of : Prefixes \X Raws, gen : 1..MaxGen,
                      norm : {"zero", "one", "other"}]

VARIABLES cache,     \* rows of embedding_cache
          gen,       \* the embedder deployed now
          call,      \* call[c]: the call's control state
          streak,    \* streak[c]: RPCs in a row that just ended permanently
          result     \* result[c]: what the call returned, and from where

cvars == <<cache, gen, call, streak, result>>

-----------------------------------------------------------------------------
(* Texts, vectors, keys.                                                   *)

(* prefix + raw: prepended exactly once, so the pair says it all. *)
Text(job) == <<job.prefix, job.raw>>

Texts == Prefixes \X Raws

(* A vector of Dims floats: the text it embeds, the embedder that made it, *)
(* and its norm.  (A reply of another length never gets past the adapter.) *)
Vector == [of : Texts, gen : 1..MaxGen, norm : {"zero", "one", "other"}]

(* Mutant: the vector is stored and returned as the embedder sent it. *)
L2Normalize_Skipped(v) == v

(* A zero vector is left alone. *)
L2Normalize(v) == [v EXCEPT !.norm = IF @ = "zero" THEN "zero" ELSE "one"]

(* SHA-256 of the exact prefixed text: injective. *)
CacheKey(text) == text

(* Mutant: the lookup leaves the task prefix and the prefixed text out. *)
CacheRows_RawOnly(c) == {r \in cache : r.key[2] = call[c].job.raw}

(* cacheGetSQL: the rows of call c's key and task prefix (one model). *)
CacheRows(c) == {r \in cache : /\ r.key = CacheKey(Text(call[c].job))
                               /\ r.prefix = call[c].job.prefix}

RowFor(c, v) == [key |-> CacheKey(Text(call[c].job)),
                 prefix |-> call[c].job.prefix, vec |-> v]

-----------------------------------------------------------------------------
(* Control state.                                                          *)

(* A call for job that stands at pc; its loops have not begun. *)
At(job, pc, db) ==
    [job |-> job, pc |-> pc, db |-> db,
     tries |-> 0, asks |-> 0, rpcs |-> 0, vec |-> NoVec]

Idle == At(NoJob, "idle", FALSE)

Asking(c, side) ==
    call[c].pc \notin {"idle", "returned"} /\ call[c].job.side = side

NoResult == [err |-> "none", from |-> "nowhere", vec |-> NoVec]

(* The call for job returns: a vector (err "none"), a PermanentError, or   *)
(* another error.                                                          *)
Return(c, job, err, from, v) ==
    /\ call' = [call EXCEPT ![c] = At(job, "returned", FALSE)]
    /\ result' = [result EXCEPT ![c] = [err |-> err, from |-> from, vec |-> v]]

(* The outcomes of one RPC attempt: a vector of Dims floats, one of        *)
(* another length, INTERNAL, a retryable status, the RPC's own deadline.   *)
Outcomes == {"ok", "short", "Internal", "Unavailable", "Expired"}

(* GRPCEmbedder.Embed: INTERNAL and wrong dimensions are PermanentErrors. *)
IsPermanent(o) == o \in {"short", "Internal"}

CInit ==
    /\ cache = {}
    /\ gen = 1
    /\ call = [c \in Calls |-> Idle]
    /\ streak = [c \in Calls |-> 0]
    /\ result = [c \in Calls |-> NoResult]

(* EmbedDocument, EmbedQuery: the guard, then the cache if there is one.   *)
(* The worker always has its pool; eval goes without when PG is away.      *)
(* Workers call concurrently, eval asks one question after another.        *)
Start(c, job) ==
    /\ call[c].pc = "idle"
    /\ \A d \in Calls : d < c => call[d].pc # "idle"
    /\ job.side = "eval" => \A d \in Calls : ~Asking(d, "eval")
    /\ \/ /\ job.raw \in Prefixed
          /\ Return(c, job, "permanent", "guard", NoVec)
       \/ /\ job.raw \notin Prefixed
          /\ \E db \in BOOLEAN :
                /\ job.side = "worker" => db
                /\ call' = [call EXCEPT ![c] =
                              At(job, IF db THEN "lookup" ELSE "ask", db)]
          /\ UNCHANGED result
    /\ UNCHANGED <<cache, gen, streak>>

(* CacheGet: hit or miss; any other error fails the call, and is not       *)
(* permanent.                                                              *)
CacheGet(c) ==
    /\ call[c].pc = "lookup"
    /\ \/ \E r \in CacheRows(c) : Return(c, call[c].job, "none", "cache", r.vec)
       \/ /\ CacheRows(c) = {}
          /\ call' = [call EXCEPT ![c].pc = "ask"]
          /\ UNCHANGED result
       \/ Return(c, call[c].job, "transient", "error", NoVec)
    /\ UNCHANGED <<cache, gen, streak>>

(* Mutant: an exhausted re-ask, whatever the last answer was, is permanent. *)
AfterError_LastErr(c, o) ==
    LET s == call[c]
    IN  IF s.asks < DimsRetries
        THEN /\ call' = [call EXCEPT ![c].asks = @ + 1, ![c].rpcs = 0]
             /\ UNCHANGED result
        ELSE Return(c, call[c].job, "permanent", "error", NoVec)

(* Mutant: one re-ask too many. *)
AfterError_OneMore(c, o) ==
    IF IsPermanent(o) /\ call[c].asks <= DimsRetries
    THEN /\ call' = [call EXCEPT ![c].asks = @ + 1, ![c].rpcs = 0]
         /\ UNCHANGED result
    ELSE Return(c, call[c].job, "transient", "error", NoVec)

(* Mutant: the re-ask does not count. *)
AfterError_Unbounded(c, o) ==
    IF IsPermanent(o) THEN /\ call' = [call EXCEPT ![c].rpcs = 0]
                           /\ UNCHANGED result
                      ELSE Return(c, call[c].job, "transient", "error", NoVec)

(* dimsRetryEmbedder.Embed after a permanent error, the same on the        *)
(* server and in the client: ask again, up to DimsRetries times, then give *)
(* the error to the caller.                                                *)
DimsRetry(c) ==
    \/ /\ call[c].asks < DimsRetries
       /\ call' = [call EXCEPT ![c].asks = @ + 1, ![c].rpcs = 0]
       /\ UNCHANGED result
    \/ /\ call[c].asks >= DimsRetries
       /\ Return(c, call[c].job, "permanent", "error", NoVec)

(* An RPC failed for good.  dimsRetryEmbedder passes an error that is not  *)
(* permanent on at once; transientRetryEmbedder, on eval's side, tries the *)
(* whole of it again after such an error and passes a permanent one on.    *)
AfterError(c, o) ==
    LET more == call[c].job.side = "eval" /\ call[c].tries < TransientRetries
    IN  \/ /\ IsPermanent(o)
           /\ DimsRetry(c)
        \/ /\ ~IsPermanent(o) /\ more
           /\ call' = [call EXCEPT ![c].pc = "backoff", ![c].rpcs = 0,
                                   ![c].tries = @ + 1, ![c].asks = 0]
           /\ UNCHANGED result
        \/ /\ ~IsPermanent(o) /\ ~more
           /\ Return(c, call[c].job, "transient", "error", NoVec)

(* The vector the embedder deployed now makes of c's text. *)
Fresh(c) == [of |-> Text(call[c].job), gen |-> gen,
             norm |-> IF call[c].job.raw \in Zeros THEN "zero" ELSE "other"]

(* Client.embed after the transport: the dimensions are right, normalise.  *)
Embedded(c) ==
    IF call[c].db
    THEN /\ call' = [call EXCEPT ![c].pc = "store",
                                 ![c].vec = L2Normalize(Fresh(c))]
         /\ UNCHANGED result
    ELSE Return(c, call[c].job, "none", "rpc", L2Normalize(Fresh(c)))

(* The RPC of call c ends as o. *)
Answered(c, o) ==
    /\ streak' = [streak EXCEPT ![c] =
                     IF ~IsPermanent(o) THEN 0
                     ELSE IF @ > DimsRetries THEN @ ELSE @ + 1]
    /\ IF o = "ok" THEN Embedded(c) ELSE AfterError(c, o)

(* One attempt of the RPC ends.  The retry policy tries a retryable status *)
(* again, up to RpcAttempts attempts.                                      *)
Attempt(c) ==
    /\ call[c].pc = "ask"
    /\ \E o \in Outcomes :
          \/ /\ o = "Unavailable"
             /\ call[c].rpcs + 1 < RpcAttempts
             /\ call' = [call EXCEPT ![c].rpcs = @ + 1]
             /\ UNCHANGED <<streak, result>>
          \/ /\ o = "Unavailable" => call[c].rpcs + 1 >= RpcAttempts
             /\ Answered(c, o)
    /\ UNCHANGED <<cache, gen>>

(* transientRetryEmbedder's timer. *)
Backoff(c) ==
    /\ call[c].pc = "backoff"
    /\ call' = [call EXCEPT ![c].pc = "ask"]
    /\ UNCHANGED <<cache, gen, streak, result>>

(* Mutant: ON CONFLICT DO UPDATE. *)
CachePut_Upsert(c) ==
    /\ call[c].pc = "store"
    /\ cache' = (cache \ CacheRows(c)) \cup {RowFor(c, call[c].vec)}
    /\ Return(c, call[c].job, "none", "rpc", call[c].vec)
    /\ UNCHANGED <<gen, streak>>

(* CachePut, ON CONFLICT DO NOTHING; its error is dropped. *)
CachePut(c) ==
    /\ call[c].pc = "store"
    /\ \/ cache' = IF CacheRows(c) = {} THEN cache \cup {RowFor(c, call[c].vec)}
                                        ELSE cache
       \/ UNCHANGED cache
    /\ Return(c, call[c].job, "none", "rpc", call[c].vec)
    /\ UNCHANGED <<gen, streak>>

(* The caller's context ends: deadline, cancelled errgroup, shutdown.  The *)
(* query or RPC under way fails with CANCELED, which is not permanent;     *)
(* every later one would fail at once, so whatever is still retried before *)
(* the select sees ctx.Done, the call returns that error.  An insert under *)
(* way fails or not, as in CachePut.                                       *)
ContextEnds(c) ==
    /\ call[c].pc \in {"lookup", "ask", "backoff"}
    /\ streak' = [streak EXCEPT ![c] = 0]
    /\ Return(c, call[c].job, "transient", "error", NoVec)
    /\ UNCHANGED <<cache, gen>>

(* EMBEDDER_ADDR comes to be served by another embedder. *)
Redeploy ==
    /\ gen < MaxGen
    /\ gen' = gen + 1
    /\ UNCHANGED <<cache, call, streak, result>>

Advance(c) == CacheGet(c) \/ Attempt(c) \/ Backoff(c) \/ CachePut(c)

CNext ==
    \/ \E c \in Calls : (\E j \in Jobs : Start(c, j)) \/ Advance(c) \/ ContextEnds(c)
    \/ Redeploy

CSpec == CInit /\ [][CNext]_cvars

(* A call that was made is executed: queries and RPC attempts end (the     *)
(* service config's timeout bounds an RPC) and goroutines run on.          *)
CFairSpec == CSpec /\ \A c \in Calls : WF_cvars(Advance(c))

-----------------------------------------------------------------------------
(* Properties.                                                             *)

CacheRow == [key : Texts, prefix : Prefixes, vec : Vector]

(* Types; a vector is at hand exactly where the code is about to store it. *)
CTypeOK ==
    /\ cache \subseteq CacheRow
    /\ gen \in 1..MaxGen
    /\ call \in [Calls -> [job : Jobs \cup {NoJob},
                           pc : {"idle", "lookup", "ask", "backoff", "store",
                                 "returned"},
                           db : BOOLEAN,
                           tries : 0..TransientRetries,
                           asks : 0..DimsRetries,
                           rpcs : 0..(RpcAttempts - 1),
                           vec : Vector \cup {NoVec}]]
    /\ streak \in [Calls -> 0..(DimsRetries + 1)]
    /\ result \in [Calls -> [err : {"none", "permanent", "transient"},
                             from : {"nowhere", "guard", "cache", "rpc", "error"},
                             vec : Vector \cup {NoVec}]]
    /\ \A c \in Calls : /\ call[c].pc # "idle" => call[c].job \in Jobs
                        /\ call[c].pc = "store" => call[c].vec \in Vector

Good(v, text) == v.of = text /\ v.norm # "other"

(* Whatever was cached by whom, and however calls for one text under both  *)
(* prefixes interleave, a successful call returns a vector of its own      *)
(* prefixed text, of norm 1 unless it is zero: a document vector never     *)
(* answers a query, and no vector reaches a caller unnormalized.           *)
OwnVector ==
    \A c \in Calls :
        call[c].pc = "returned" /\ result[c].err = "none"
            => result[c].vec # NoVec /\ Good(result[c].vec, Text(call[c].job))

(* "races harmlessly": a key has one row for ever.  Two calls that missed  *)
(* together may bring vectors of different embedders, yet all calls ever   *)
(* answered from the cache for one prefixed text got the same vector,      *)
(* which is still the cached one.                                          *)
HitsAgree ==
    \A c, d \in Calls :
        /\ result[c].from = "cache" /\ result[c].err = "none"
        /\ call[d].pc # "idle" /\ Text(call[c].job) = Text(call[d].job)
        => /\ {r.vec : r \in CacheRows(d)} = {result[c].vec}
           /\ result[d].from = "cache" /\ result[d].err = "none"
                 => result[d].vec = result[c].vec

(* A memory is dead-lettered on a PermanentError.  Apart from the guard,   *)
(* a call returns one only after DimsRetries + 1 RPCs in a row ended in a  *)
(* permanent error: one bad reply, an outage or a cancelled context among  *)
(* them is never reported as permanent.                                    *)
PermanentIsUnanimous ==
    \A c \in Calls :
        result[c].err = "permanent" /\ result[c].from # "guard"
            => streak[c] > DimsRetries

(* However the embedder misbehaves, the nested retries end: every call     *)
(* that was started returns.                                               *)
EveryEmbedReturns ==
    \A c \in Calls : call[c].pc # "idle" ~> call[c].pc = "returned"
=============================================================================
