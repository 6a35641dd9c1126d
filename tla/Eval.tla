-------------------------------- MODULE Eval --------------------------------
(***************************************************************************)
(* The client's eval command: flags and per-dataset tuning, then for every *)
(* conversation the corpus (rows of the enriched memories, filtered by     *)
(* granularity) and for every question a Search, whose result is expanded  *)
(* to turns and recorded; at the end the metrics, the budget of skipped    *)
(* questions and the gate of the fixtures decide the exit code.            *)
(*                                                                         *)
(* What the server sends is any part of the conversation's memories: the   *)
(* command only warns when some are not enriched at the version.  Rows     *)
(* without a local twin are dropped on arrival and left out here.          *)
(***************************************************************************)
EXTENDS Retriever, SequencesExt

D == INSTANCE Dataset WITH NoDate <- NoTime

CONSTANTS Files,        \* dataset files: name, whether there, contents
          Flags,        \* the flags of eval
          Lex(_),       \* the lexemes of a text
          Vec(_),       \* the embedding of a text
          Cut,          \* the cutoff of the gated metric (5)
          SkipDenom     \* at most 1/SkipDenom of the questions skipped (100)

Scale == 840            \* a multiple of all |gold| and ranks

(* The cutoff divides the scale; flags are integers; files have the shape  *)
(* their format requires; texts and questions have vectors.                *)
ASSUME EvalAssumption ==
    /\ Cut \in Nat \ {0} /\ Scale % Cut = 0 /\ SkipDenom \in Nat \ {0}
    /\ \A f \in Flags :
          {f.rrfK, f.candidates, f.topK, f.maxPerSession} \subseteq Int
    /\ \A f \in Files : f.present =>
          /\ D!DatasetFile(f)
          /\ \A c \in 1..Len(D!loadDataset(f)) :
             LET conv == D!loadDataset(f)[c]
             IN  /\ \A it \in D!localItems(conv) : Vec(it.text) \in Int \X Int
                 /\ \A q \in 1..Len(conv.questions) :
                       /\ "vec" \in DOMAIN conv.questions[q].text
                       /\ conv.questions[q].text.vec \in Int \X Int

(* Fixtures and LoCoMo files name turns of theirs as evidence. *)
ASSUME EvidenceAssumption ==
    \A f \in Files : f.present => D!EvidenceNamesTurns(f)

VARIABLES file, flags,  \* what eval is run with
          pc,           \* start, corpus, ask, ok or failed
          granularity,  \* turn, round or all
          convs,        \* the conversations loaded
          ci, qi,       \* the current conversation and question
          expand,       \* round id -> turn ids, of the current conversation
          fetched,      \* the items whose rows the server sent
          total, embedSkipped,
          results,      \* group, retrieved and gold of each question searched
          rep           \* the report

evars == <<file, flags, pc, granularity, convs, ci, qi, expand, fetched, total,
           embedSkipped, results, rep>>

NoReport == [n |-> 0, skipped |-> 0, recall |-> 0, mrr |-> 0, byGroup |-> <<>>]

EInit ==
    /\ file \in Files /\ flags \in Flags
    /\ pc = "start" /\ granularity = "all" /\ convs = <<>>
    /\ ci = 1 /\ qi = 1 /\ expand = <<>> /\ fetched = {}
    /\ total = 0 /\ embedSkipped = 0 /\ results = <<>> /\ rep = NoReport
    /\ corpus = {} /\ opts = [mode |-> "hybrid"] /\ SearchIdle

-----------------------------------------------------------------------------
(* Flags.                                                                  *)

evalDefaults(dataset) ==
    LET base == [granularity |-> "all", rrfK |-> DefaultRRFK,
                 candidates |-> DefaultCandidateN, topK |-> DefaultTopK,
                 maxPerSession |-> 4]
    IN  CASE dataset = "locomo" ->
                [base EXCEPT !.rrfK = 10, !.maxPerSession = 0]
          [] dataset = "longmemeval_s" ->
                [base EXCEPT !.rrfK = 30, !.granularity = "turn"]
          [] OTHER -> base

(* A flag left at its sentinel takes the default of the dataset. *)
Tuning(f, dataset) ==
    LET d == evalDefaults(dataset)
    IN  [mode |-> f.mode,
         granularity |-> IF f.granularity # "" THEN f.granularity ELSE d.granularity,
         rrfK |-> Positive(f.rrfK, d.rrfK),
         candidates |-> Positive(f.candidates, d.candidates),
         topK |-> Positive(f.topK, d.topK),
         maxPerSession |-> IF f.maxPerSession >= 0 THEN f.maxPerSession
                           ELSE d.maxPerSession]

FlagsAccepted ==
    /\ flags.version > 0
    /\ ParseMode(flags.mode)
    /\ Tuning(flags, file.name).granularity \in {"turn", "round", "all"}

Start ==
    /\ pc = "start"
    /\ IF FlagsAccepted /\ file.present
       THEN LET t == Tuning(flags, file.name)
            IN  /\ convs' = D!loadDataset(file)
                /\ granularity' = t.granularity
                /\ opts' = NewRetriever(
                     [mode |-> t.mode, topK |-> t.topK, candidateN |-> t.candidates,
                      rrfK |-> t.rrfK, maxPerSession |-> t.maxPerSession])
                /\ pc' = "corpus"
       ELSE pc' = "failed" /\ UNCHANGED <<convs, granularity, opts>>
    /\ UNCHANGED <<file, flags, ci, qi, expand, fetched, total, embedSkipped, results,
                   rep, corpus, searchvars>>

-----------------------------------------------------------------------------
(* The corpus of a conversation.                                           *)

(* Mutant: the twin of a single-turn round is dropped as well. *)
filterGranularity_RoundsOnly(items, rounds, g) ==
    {it \in items :
        CASE g = "all"   -> TRUE
          [] g = "turn"  -> it.id \notin DOMAIN rounds
          [] g = "round" -> it.id \in DOMAIN rounds}

(* "round" keeps the turns that are in no round row. *)
filterGranularity(items, rounds, g) ==
    LET covered == UNION {ToSet(rounds[r]) : r \in DOMAIN rounds}
    IN  {it \in items :
            CASE g = "all"   -> TRUE
              [] g = "turn"  -> it.id \notin DOMAIN rounds
              [] g = "round" -> it.id \in DOMAIN rounds \/ it.id \notin covered}

RowFrom(it) ==
    [id |-> it.id, session |-> it.session, time |-> it.date,
     lex |-> Lex(it.text), vec |-> Vec(it.text)]

(* fetchCorpus, filterGranularity, NewCorpus; or the stream fails, or two  *)
(* rows have one id, which NewCorpus refuses.                              *)
BuildCorpus ==
    /\ pc = "corpus" /\ ci <= Len(convs)
    /\ \/ \E sent \in SUBSET D!localItems(convs[ci]) :
             /\ expand' = D!expandOf(convs[ci])
             /\ fetched' = sent
             /\ corpus' = {RowFrom(it) : it \in
                                filterGranularity(sent, expand', granularity)}
             /\ NewCorpusTakes(corpus')
             /\ pc' = "ask" /\ qi' = 1
       \/ pc' = "failed" /\ UNCHANGED <<expand, fetched, corpus, qi>>
    /\ UNCHANGED <<file, flags, granularity, convs, ci, total, embedSkipped,
                   results, rep, opts, searchvars>>

-----------------------------------------------------------------------------
(* Questions.                                                              *)

Question == convs[ci].questions[qi]
QueryFrom(q) == [q.text EXCEPT !.base = q.date]

Ask ==
    /\ pc = "ask" /\ qi <= Len(convs[ci].questions) /\ stage = "idle"
    /\ total' = total + 1
    /\ Candidates(QueryFrom(Question)) \/ EmbedFails(QueryFrom(Question))
    /\ UNCHANGED <<file, flags, pc, granularity, convs, ci, qi, expand, fetched,
                   embedSkipped, results, rep, corpus, opts>>

EndSearch ==
    /\ query' = NoQuery /\ stage' = "idle"
    /\ lists' = [bm25 |-> <<>>, dense |-> <<>>]
    /\ fused' = <<>> /\ ranked' = <<>> /\ selected' = <<>>

Members(id, rounds) == IF id \in DOMAIN rounds THEN rounds[id] ELSE <<id>>

(* The first mention of each id, in order. *)
Dedup(s) ==
    LET first == {i \in DOMAIN s : \A j \in 1..(i - 1) : s[j] # s[i]}
    IN  D!PickAt(s, first)

(* Mutant: turns first, then the members of rounds. *)
expandRetrieved_RoundsLast(ids, rounds) ==
    Dedup(D!PickAt(ids, {i \in DOMAIN ids : ids[i] \notin DOMAIN rounds})
          \o FlattenSeq([i \in DOMAIN ids |-> Members(ids[i], rounds)]))

(* Rounds become their turns, in place; only the first mention stays. *)
expandRetrieved(ids, rounds) ==
    Dedup(FlattenSeq([i \in DOMAIN ids |-> Members(ids[i], rounds)]))

(* Search has answered. *)
Record ==
    /\ stage = "done"
    /\ results' = Append(results,
          [group |-> Question.group,
           retrieved |-> expandRetrieved(Results, expand),
           gold |-> {<<Question.evidence[i]>> : i \in DOMAIN Question.evidence}])
    /\ qi' = qi + 1
    /\ EndSearch
    /\ UNCHANGED <<file, flags, pc, granularity, convs, ci, expand, fetched, total,
                   embedSkipped, rep, corpus, opts>>

(* Search has failed: the command's context has ended, or the question is  *)
(* skipped.                                                                *)
SearchFailed ==
    /\ stage = "error"
    /\ EndSearch
    /\ \/ pc' = "failed" /\ UNCHANGED <<embedSkipped, qi>>
       \/ embedSkipped' = embedSkipped + 1 /\ qi' = qi + 1 /\ UNCHANGED pc
    /\ UNCHANGED <<file, flags, granularity, convs, ci, expand, fetched, total, results,
                   rep, corpus, opts>>

NextConversation ==
    /\ pc = "ask" /\ qi > Len(convs[ci].questions)
    /\ ci' = ci + 1 /\ pc' = "corpus"
    /\ expand' = <<>> /\ fetched' = {} /\ corpus' = {}
    /\ UNCHANGED <<file, flags, granularity, convs, qi, total, embedSkipped,
                   results, rep, opts, searchvars>>

-----------------------------------------------------------------------------
(* Metrics.                                                                *)

Hits(r, k) ==
    {id \in r.gold : \E i \in DOMAIN r.retrieved : i <= k /\ r.retrieved[i] = id}

RecallAtK(r, k) == (Scale * Cardinality(Hits(r, k))) \div Cardinality(r.gold)

MRR(r) ==
    IF Hits(r, Len(r.retrieved)) = {} THEN 0
    ELSE Scale \div (CHOOSE i \in DOMAIN r.retrieved :
             r.retrieved[i] \in r.gold /\ Hits(r, i - 1) = {})

(* The sums that an accum keeps; the means are these over n. *)
SumOver(values) ==
    LET sum[n \in 0..Len(values)] == IF n = 0 THEN 0 ELSE sum[n - 1] + values[n]
    IN  sum[Len(values)]

(* The results of questions with evidence. *)
Scored(rs) == D!PickAt(rs, {i \in DOMAIN rs : rs[i].gold # {}})

(* Mutant: the groups count questions without evidence, too. *)
Evaluate_AllInGroups(rs) ==
    LET scored == Scored(rs)
    IN  [n |-> Len(scored), skipped |-> Len(rs) - Len(scored),
         recall |-> SumOver([i \in DOMAIN scored |-> RecallAtK(scored[i], Cut)]),
         mrr |-> SumOver([i \in DOMAIN scored |-> MRR(scored[i])]),
         byGroup |-> [g \in {r.group : r \in ToSet(rs)} |->
             Cardinality({i \in DOMAIN rs : rs[i].group = g})]]

(* Evaluate: only questions with evidence count. *)
Evaluate(rs) ==
    LET scored == Scored(rs)
        groups == {r.group : r \in ToSet(scored)}
    IN  [n |-> Len(scored), skipped |-> Len(rs) - Len(scored),
         recall |-> SumOver([i \in DOMAIN scored |-> RecallAtK(scored[i], Cut)]),
         mrr |-> SumOver([i \in DOMAIN scored |-> MRR(scored[i])]),
         byGroup |-> [g \in groups |->
             Cardinality({i \in DOMAIN scored : scored[i].group = g})]]

(* Mutant: no budget. *)
OverBudget_None == FALSE

OverBudget == total > 0 /\ embedSkipped * SkipDenom > total

(* Mean recall below 0.999999, which for fewer than a thousand questions   *)
(* is below 1; with nothing scored it is 0.                                *)
GateFails(report) == report.n = 0 \/ report.recall < report.n * Scale

Report ==
    /\ pc = "corpus" /\ ci > Len(convs)
    /\ rep' = Evaluate(results)
    /\ pc' = IF OverBudget \/ (file.name = "fixtures" /\ GateFails(rep'))
             THEN "failed" ELSE "ok"
    /\ UNCHANGED <<file, flags, granularity, convs, ci, qi, expand, fetched, total,
                   embedSkipped, results, rvars>>

-----------------------------------------------------------------------------

SearchOn == SearchStep /\ UNCHANGED <<evars, corpus, opts>>

ENext ==
    \/ Start \/ BuildCorpus \/ Ask \/ SearchOn \/ Record \/ SearchFailed
    \/ NextConversation \/ Report

ESpec == EInit /\ [][ENext]_<<evars, rvars>>

-----------------------------------------------------------------------------
(* Properties.                                                             *)

QuestionsOf(c) == ToSet(convs[c].questions)
Asked == UNION {{c} \X (DOMAIN convs[c].questions) : c \in DOMAIN convs}

(* Rounds partition the dialog: they hold every turn once and in order,    *)
(* one or two turns each, a pair being one exchange of two speakers within *)
(* a session; and no turn that could have answered the one before it is    *)
(* left on its own.                                                        *)
RoundsPartitionTurns ==
    pc = "corpus" => \A c \in DOMAIN convs :
        LET rs == D!AssembleRounds(convs[c].items)
        IN  /\ FlattenSeq(rs) = convs[c].items
            /\ \A i \in DOMAIN rs :
                  /\ Len(rs[i]) \in {1, 2}
                  /\ Len(rs[i]) = 2 => /\ rs[i][1].session = rs[i][2].session
                                       /\ rs[i][1].speaker # rs[i][2].speaker
                  /\ i > 1 /\ Len(rs[i - 1]) = 1 =>
                        \/ rs[i - 1][1].session # rs[i][1].session
                        \/ rs[i - 1][1].speaker = rs[i][1].speaker

(* Evidence can be found at all: every turn a loader lists as evidence of  *)
(* a question is an item of the question's own conversation, whatever the  *)
(* lengths of the parallel arrays in the file.                             *)
GoldIsIndexed ==
    pc = "corpus" => \A c \in DOMAIN convs : \A q \in QuestionsOf(c) :
        \A e \in ToSet(q.evidence) : \E it \in ToSet(convs[c].items) : it.id = <<e>>

(* Whatever the granularity and whatever part of the conversation is       *)
(* enriched, a turn whose row was fetched is the turn, or a member of the  *)
(* round, of some row of the index, with one exception that the filter     *)
(* makes: with granularity round the row of a turn that is in a round is   *)
(* dropped even when no row of such a round was fetched to stand for it.   *)
EveryTurnCreditable ==
    pc = "ask" =>
        LET sent == {it.id : it \in fetched}
            RoundsWith(id) == {r \in DOMAIN expand : id \in ToSet(expand[r])}
        IN  \A it \in ToSet(convs[ci].items) : it.id \in sent =>
               \/ \E row \in corpus : it.id \in ToSet(Members(row.id, expand))
               \/ /\ granularity = "round"
                  /\ RoundsWith(it.id) # {} /\ RoundsWith(it.id) \cap sent = {}

(* Credit of a ranking: each turn counts once, at the rank of the best     *)
(* row that holds it; a row at rank j puts its turns among the first 2j;   *)
(* and nothing retrieved is lost.                                          *)
CreditAtBestRank ==
    stage = "done" =>
        LET out == expandRetrieved(Results, expand)
            Holders(t) == {j \in DOMAIN Results : t \in ToSet(Members(Results[j], expand))}
            BestOf(t) == CHOOSE j \in Holders(t) : \A h \in Holders(t) : j <= h
        IN  /\ ToSet(out) = UNION {ToSet(Members(id, expand)) : id \in ToSet(Results)}
            /\ \A i, j \in DOMAIN out : i < j =>
                  out[i] # out[j] /\ BestOf(out[i]) <= BestOf(out[j])
            /\ \A i \in DOMAIN out : i <= 2 * BestOf(out[i])

(* No question is lost or counted twice: until eval gives up, those asked  *)
(* are the recorded, the skipped and the one being searched; the report    *)
(* accounts for every question of the file once: scored, left out for want *)
(* of evidence, or skipped; the groups split the scored ones; and the two  *)
(* metrics agree: the mean reciprocal rank is at least that of a first hit *)
(* at the cutoff for the share of questions recall counts.                 *)
EveryQuestionCounted ==
    /\ pc # "failed" =>
          total = Len(results) + embedSkipped + (IF stage = "idle" THEN 0 ELSE 1)
    /\ rep # NoReport =>
          /\ rep.n + rep.skipped + embedSkipped = Cardinality(Asked)
          /\ total = Cardinality(Asked)
          /\ rep.n = Cardinality(UNION {{g} \X (1..rep.byGroup[g]) :
                                            g \in DOMAIN rep.byGroup})
          /\ rep.recall <= rep.n * Scale /\ rep.mrr <= rep.n * Scale
          /\ rep.mrr * Cut >= rep.recall

(* The gate is worth its name: if eval exits 0 on a fixtures file of fewer *)
(* than SkipDenom (100) questions, every question with evidence was        *)
(* searched and has all its evidence among the first Cut turns.            *)
GateMeansAllGold ==
    pc = "ok" /\ file.name = "fixtures" /\ Cardinality(Asked) < SkipDenom =>
        /\ Len(results) = Cardinality(Asked)
        /\ \A i \in DOMAIN results :
              \A g \in results[i].gold : \E j \in 1..Cut :
                  j \in DOMAIN results[i].retrieved /\ results[i].retrieved[j] = g
=============================================================================
