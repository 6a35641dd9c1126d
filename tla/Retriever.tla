----------------------------- MODULE Retriever ------------------------------
(***************************************************************************)
(* One call of Retriever.Search over the corpus of one conversation:       *)
(* candidates (BM25, dense), fusion, temporal boost, and the greedy MMR    *)
(* loop with its cap per session, one action per stage and per pick.       *)
(*                                                                         *)
(* Scores are integers: every score of a list is multiplied by the same    *)
(* positive factor, which no comparison notices.  Vectors are integer      *)
(* points of one circle, UnitSq times as long (squared) as the normalized  *)
(* vectors of the code.  BM25's formula is left open: it gives matching    *)
(* rows positive scores, whatever they are.  An id is the sequence of its  *)
(* turn numbers: <<3>> is a turn, <<3, 4>> the round "3+4".                *)
(***************************************************************************)
EXTENDS Integers, Sequences, FiniteSets

CONSTANTS UnitSq,       \* squared length of all vectors
          Window,       \* half-width of the temporal window
          NoTime,       \* the zero time
          MaxBM25       \* bound on BM25 scores

ASSUME RetrieverAssumption ==
    /\ UnitSq \in Nat \ {0} /\ Window \in Nat /\ MaxBM25 \in Nat \ {0}
    /\ NoTime \in Int /\ NoTime < 0

VARIABLES corpus,       \* its rows: id, session, time, lexemes, vector
          opts,         \* mode, topK, candidateN, rrfK, maxPerSession
          query,        \* lexemes, vector and dates of the question
          stage,        \* idle, fuse, adjust, mmr, done or error
          lists,        \* the candidates of BM25 and of the dense scan
          fused,        \* candidates after fusion
          ranked,       \* candidates after the temporal boost
          selected      \* indexes into ranked that MMR picked

rvars == <<corpus, opts, query, stage, lists, fused, ranked, selected>>
searchvars == <<query, stage, lists, fused, ranked, selected>>

-----------------------------------------------------------------------------
(* Rankings.                                                               *)

Dot(a, b) == a[1] * b[1] + a[2] * b[2]

(* String order of ids: member by member, a prefix first. *)
IdLess(a, b) ==
    \E i \in 1..(Len(b)) :
        /\ \A j \in 1..(i - 1) : j <= Len(a) /\ a[j] = b[j]
        /\ i > Len(a) \/ a[i] < b[i]

Before(x, y) ==
    x.score > y.score \/ (x.score = y.score /\ IdLess(x.id, y.id))

(* sortScored, of scored ids that are distinct. *)
sortScored(S) ==
    [i \in 1..Cardinality(S) |->
        CHOOSE x \in S : Cardinality({y \in S : Before(y, x)}) = i - 1]

ElementsOf(s) == {s[i] : i \in DOMAIN s}
IdsOf(s) == {s[i].id : i \in DOMAIN s}

Top(S, n) ==
    LET s == sortScored(S)
    IN  IF n > 0 /\ n < Len(s) THEN SubSeq(s, 1, n) ELSE s

RowOf(id) == CHOOSE r \in corpus : r.id = id

DenseTopN(vec, n) == Top({[id |-> r.id, score |-> Dot(r.vec, vec)] : r \in corpus}, n)

(* BM25.TopN: rows without a query term are left out; weight is what the   *)
(* formula gives the others.                                               *)
Matching(lex) == {r.id : r \in {x \in corpus : x.lex \cap lex # {}}}
BM25TopN(weight, n) ==
    Top({[id |-> i, score |-> weight[i]] : i \in DOMAIN weight}, n)

-----------------------------------------------------------------------------
(* Fusion.                                                                 *)

RankIn(list, id) ==
    IF id \in IdsOf(list) THEN CHOOSE i \in DOMAIN list : list[i].id = id ELSE 0

(* The product of k + 1 .. k + n, over which all 1/(k + rank) are whole. *)
Denominator(k, n) ==
    LET f[i \in 0..n] == IF i = 0 THEN 1 ELSE f[i - 1] * (k + i) IN f[n]

(* Mutant: an absent id counts as if it were at rank 0. *)
Share_Absent(k, n, rank) == Denominator(k, n) \div (k + rank)

(* What one list adds to an id at rank (0: absent), out of Denominator. *)
Share(k, n, rank) == IF rank = 0 THEN 0 ELSE Denominator(k, n) \div (k + rank)

RRF(k, a, b) ==
    LET n == IF Len(a) > Len(b) THEN Len(a) ELSE Len(b)
    IN  {[id |-> i, score |-> Share(k, n, RankIn(a, i)) + Share(k, n, RankIn(b, i))] :
            i \in IdsOf(a) \cup IdsOf(b)}

-----------------------------------------------------------------------------
(* The temporal boost.                                                     *)

(* An absolute date in the question wins; else a relative one, from the    *)
(* date of the question.                                                   *)
ExtractQueryTime(q) ==
    CASE q.abs # NoTime -> q.abs
      [] q.abs = NoTime /\ q.rel # NoTime -> q.base - q.rel
      [] q.abs = NoTime /\ q.rel = NoTime -> NoTime

(* Without the date of the question, only an absolute date counts. *)
QueryTime(q) == IF q.base = NoTime THEN q.abs ELSE ExtractQueryTime(q)

InWindow(id, t) ==
    LET r == RowOf(id).time
    IN  r # NoTime /\ r - t <= Window /\ t - r <= Window

(* Mutant: the boost is a penalty. *)
TemporalAdjust_Inverted(cands, t) ==
    IF t = NoTime THEN cands
    ELSE sortScored({[c EXCEPT !.score = @ * (IF InWindow(c.id, t) THEN 10 ELSE 13)] :
                         c \in ElementsOf(cands)})

(* In-window scores times 1.3: all scores times 10, theirs times 13. *)
TemporalAdjust(cands, t) ==
    IF t = NoTime THEN cands
    ELSE sortScored({[c EXCEPT !.score = @ * (IF InWindow(c.id, t) THEN 13 ELSE 10)] :
                         c \in ElementsOf(cands)})

-----------------------------------------------------------------------------
(* MMR.                                                                    *)

SessionAt(i) == RowOf(ranked[i].id).session
Picked == ElementsOf(selected)
PerSession(s) == Cardinality({i \in Picked : SessionAt(i) = s})
Similarity(i, j) == Dot(RowOf(ranked[i].id).vec, RowOf(ranked[j].id).vec)
MaxSim(i) ==
    IF Picked = {} THEN 0
    ELSE CHOOSE x \in {Similarity(i, j) : j \in Picked} :
             \A j \in Picked : Similarity(i, j) <= x

(* 0.7 rel - 0.3 maxSim, with rel the score over the best one if that is   *)
(* positive (times 10 UnitSq best), else the score itself, a dot product   *)
(* (times 10 UnitSq and the factor of the boost).                          *)
Objective(i) ==
    LET best == ranked[1].score
        scale == IF QueryTime(query) = NoTime THEN 1 ELSE 10
    IN  IF best > 0 THEN 7 * UnitSq * ranked[i].score - 3 * best * MaxSim(i)
        ELSE 7 * ranked[i].score - 3 * scale * MaxSim(i)

(* Mutant: a session may go one over its cap. *)
Open_OneMore ==
    {i \in DOMAIN ranked :
        /\ i \notin Picked
        /\ opts.maxPerSession > 0 => PerSession(SessionAt(i)) <= opts.maxPerSession}

(* Candidates MMR may still pick. *)
Open ==
    {i \in DOMAIN ranked :
        /\ i \notin Picked
        /\ opts.maxPerSession > 0 => PerSession(SessionAt(i)) < opts.maxPerSession}

Best ==
    CHOOSE i \in Open : \A j \in Open :
        Objective(j) < Objective(i) \/ (Objective(j) = Objective(i) /\ i <= j)

-----------------------------------------------------------------------------
(* NewRetriever and Search.                                                *)

DefaultTopK == 10
DefaultCandidateN == 100
DefaultRRFK == 60
Positive(x, default) == IF x > 0 THEN x ELSE default

ParseMode(m) == m \in {"bm25", "dense", "hybrid"}

(* NewCorpus takes rows of distinct ids only. *)
NewCorpusTakes(rows) == \A r, q \in rows : r.id = q.id => r = q

NewRetriever(o) ==
    [o EXCEPT !.topK = Positive(@, DefaultTopK),
              !.candidateN = Positive(@, DefaultCandidateN),
              !.rrfK = Positive(@, DefaultRRFK)]

NoQuery == [lex |-> {}, vec |-> <<0, 0>>, abs |-> NoTime, rel |-> NoTime,
            base |-> NoTime]

SearchIdle ==
    /\ query = NoQuery
    /\ stage = "idle"
    /\ lists = [bm25 |-> <<>>, dense |-> <<>>]
    /\ fused = <<>> /\ ranked = <<>> /\ selected = <<>>

(* BM25's list, then the query's vector and the dense list. *)
Candidates(q) ==
    /\ stage = "idle"
    /\ query' = q
    /\ \E weight \in [Matching(q.lex) -> 1..MaxBM25] :
          lists' = [bm25 |-> IF opts.mode = "dense" THEN <<>>
                             ELSE BM25TopN(weight, opts.candidateN),
                    dense |-> IF opts.mode = "bm25" THEN <<>>
                              ELSE DenseTopN(q.vec, opts.candidateN)]
    /\ stage' = "fuse"
    /\ UNCHANGED <<fused, ranked, selected>>

(* The query's vector is not to be had, or has the wrong dimension. *)
EmbedFails(q) ==
    /\ stage = "idle"
    /\ opts.mode # "bm25"
    /\ query' = q
    /\ stage' = "error"
    /\ UNCHANGED <<lists, fused, ranked, selected>>

Fuse ==
    /\ stage = "fuse"
    /\ fused' = CASE opts.mode = "bm25"   -> lists.bm25
                  [] opts.mode = "dense"  -> lists.dense
                  [] opts.mode = "hybrid" ->
                        sortScored(RRF(opts.rrfK, lists.bm25, lists.dense))
    /\ stage' = IF fused' = <<>> THEN "done" ELSE "adjust"
    /\ UNCHANGED <<query, lists, ranked, selected>>

Adjust ==
    /\ stage = "adjust"
    /\ ranked' = TemporalAdjust(fused, QueryTime(query))
    /\ stage' = "mmr"
    /\ UNCHANGED <<query, lists, fused, selected>>

(* An iteration of MMR's loop, or its end. *)
Pick ==
    /\ stage = "mmr"
    /\ IF Len(selected) < opts.topK /\ Open # {}
       THEN selected' = Append(selected, Best) /\ UNCHANGED stage
       ELSE stage' = "done" /\ UNCHANGED selected
    /\ UNCHANGED <<query, lists, fused, ranked>>

SearchStep == Fuse \/ Adjust \/ Pick

(* The ids Search returns. *)
Results == [i \in DOMAIN selected |-> ranked[selected[i]].id]

-----------------------------------------------------------------------------
(* Properties.                                                             *)

(* An id fares at least as well as another in a list. *)
AtLeast(list, a, b) ==
    RankIn(list, b) # 0 => RankIn(list, a) # 0 /\ RankIn(list, a) <= RankIn(list, b)

(* What rank fusion promises: in hybrid mode the fused list holds every    *)
(* candidate of either list once, and a candidate ranked at least as well  *)
(* as another by both lists never ends up behind it (no credit for being   *)
(* absent from a list).                                                    *)
FusionRespectsBothLists ==
    stage = "adjust" /\ opts.mode = "hybrid" =>
        /\ IdsOf(fused) = IdsOf(lists.bm25) \cup IdsOf(lists.dense)
        /\ Len(fused) = Cardinality(IdsOf(fused))
        /\ \A a, b \in IdsOf(fused) :
              /\ a # b
              /\ AtLeast(lists.bm25, a, b) /\ AtLeast(lists.dense, a, b)
              => RankIn(fused, a) < RankIn(fused, b)

(* The boost can put x, ranked behind y, ahead of it. *)
MayOvertake(x, y, t) ==
    /\ t # NoTime
    /\ \/ InWindow(x.id, t) /\ ~InWindow(y.id, t) /\ x.score > 0
       \/ InWindow(y.id, t) /\ ~InWindow(x.id, t) /\ y.score < 0

(* The boost loses no candidate and moves nothing without a date; with     *)
(* one, two candidates change places only when exactly one of them is in   *)
(* the window, and then the one in the window rises if its score is        *)
(* positive.  It can only fall if its score is negative, as dot products   *)
(* in dense mode may be: the factor makes such a score smaller.            *)
BoostCrossesWindowOnly ==
    stage = "mmr" =>
        /\ IdsOf(ranked) = IdsOf(fused) /\ Len(ranked) = Len(fused)
        /\ \A i, j \in DOMAIN fused :
              /\ i < j
              /\ RankIn(ranked, fused[i].id) > RankIn(ranked, fused[j].id)
              => MayOvertake(fused[j], fused[i], QueryTime(query))

(* What Search returns: distinct ids of the corpus, no session more often  *)
(* than its cap, the best candidate first; and fewer than topK only if     *)
(* every candidate left out belongs to a session that is at its cap.       *)
ResultsAreMaximal ==
    stage = "done" =>
        /\ Len(Results) <= opts.topK
        /\ ElementsOf(Results) \subseteq {r.id : r \in corpus}
        /\ Cardinality(ElementsOf(Results)) = Len(Results)
        /\ Results # <<>> => Results[1] = ranked[1].id
        /\ \A r \in corpus :
              LET n == Cardinality({id \in ElementsOf(Results) :
                                       RowOf(id).session = r.session})
              IN  /\ opts.maxPerSession > 0 => n <= opts.maxPerSession
                  /\ /\ r.id \in IdsOf(fused) \ ElementsOf(Results)
                     /\ Len(Results) < opts.topK
                     => opts.maxPerSession > 0 /\ n = opts.maxPerSession
=============================================================================
