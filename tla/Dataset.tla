------------------------------ MODULE Dataset -------------------------------
(***************************************************************************)
(* The client's view of a benchmark: the loaders, which turn the three     *)
(* file formats into conversations (items to ingest and index, questions   *)
(* with their evidence), and the assembly of turns into rounds, done alike *)
(* at ingest and at eval.  A text is the sequence of its lines, a date the *)
(* time it parses to, or NoTime.                                           *)
(***************************************************************************)
EXTENDS Integers, Sequences, FiniteSets, SequencesExt

CONSTANT NoDate         \* no date, or one that does not parse

item(id, session, speaker, line, date) ==
    [id |-> <<id>>, session |-> session, speaker |-> speaker,
     text |-> <<line>>, date |-> date]

question(text, date, evidence, group) ==
    [text |-> text, date |-> date, evidence |-> evidence, group |-> group]

(* The numbers of a finite set in increasing order, and the entries of a   *)
(* sequence at such places: what a loop that skips the others collects.    *)
InOrder(I) ==
    [n \in 1..Cardinality(I) |->
        CHOOSE i \in I : Cardinality({j \in I : j < i}) = n - 1]
PickAt(s, I) == [n \in 1..Cardinality(I) |-> s[InOrder(I)[n]]]

-----------------------------------------------------------------------------
(* Rounds.                                                                 *)

(* Mutant: the speaker is compared with nobody. *)
AddTurn_AnySpeaker(rounds, t) ==
    LET last == rounds[Len(rounds)]
    IN  IF rounds # <<>> /\ Len(last) < 2 /\ last[1].session = t.session
        THEN [rounds EXCEPT ![Len(rounds)] = Append(@, t)]
        ELSE Append(rounds, <<t>>)

(* The turn joins the last round if that holds one turn, of the same       *)
(* session and of another speaker; else it opens a round.                  *)
AddTurn(rounds, t) ==
    LET last == rounds[Len(rounds)]
    IN  IF /\ rounds # <<>> /\ Len(last) < 2
           /\ last[1].session = t.session /\ last[1].speaker # t.speaker
        THEN [rounds EXCEPT ![Len(rounds)] = Append(@, t)]
        ELSE Append(rounds, <<t>>)

AssembleRounds(turns) ==
    LET rounds[n \in 0..Len(turns)] ==
            IF n = 0 THEN <<>> ELSE AddTurn(rounds[n - 1], turns[n])
    IN  rounds[Len(turns)]

RoundID(r) == [i \in DOMAIN r |-> r[i].id[1]]

(* By turn id; of turns that share one, the last counts. *)
dateOf(c, id) ==
    LET n == CHOOSE n \in DOMAIN c.items :
                 /\ c.items[n].id = id
                 /\ \A m \in DOMAIN c.items : c.items[m].id = id => m <= n
    IN  c.items[n].date

(* The rounds of two turns, as items: they carry their speakers in the     *)
(* text, and the date of their first turn.                                 *)
roundItemsOf(c) ==
    LET all == AssembleRounds(c.items)
        rounds == PickAt(all, {i \in DOMAIN all : Len(all[i]) >= 2})
    IN  [i \in DOMAIN rounds |->
            [id |-> RoundID(rounds[i]), session |-> rounds[i][1].session,
             speaker |-> "",
             text |-> [j \in DOMAIN rounds[i] |->
                          <<rounds[i][j].speaker, rounds[i][j].text[1]>>],
             date |-> dateOf(c, rounds[i][1].id)]]

(* Round id -> ids of its member turns. *)
expandOf(c) ==
    [id \in {r.id : r \in ToSet(roundItemsOf(c))} |-> [i \in DOMAIN id |-> <<id[i]>>]]

localItems(c) == ToSet(c.items) \cup ToSet(roundItemsOf(c))

-----------------------------------------------------------------------------
(* Loaders.                                                                *)

loadFixtures(f) ==
    << [items |-> [i \in DOMAIN f.turns |->
                      LET t == f.turns[i]
                      IN  item(t.id, t.session, t.speaker, t.text, t.date)],
        questions |-> [i \in DOMAIN f.questions |->
                      LET q == f.questions[i]
                      IN  question(q.text, q.date, q.evidence, "fixtures")]] >>

(* LoCoMoSample.UnmarshalJSON: the sessions of all session_N and           *)
(* session_N_date_time keys, in the order of N.                            *)
Sessions(s) ==
    LET nth == InOrder(DOMAIN s.turns \cup DOMAIN s.dates)
    IN  [i \in DOMAIN nth |->
            [index |-> nth[i],
             turns |-> IF nth[i] \in DOMAIN s.turns THEN s.turns[nth[i]] ELSE <<>>,
             date  |-> IF nth[i] \in DOMAIN s.dates THEN s.dates[nth[i]] ELSE NoDate]]

(* StringList: evidence may be nested. *)
flattenStrings(e) == FlattenSeq(e)

loadLoCoMo(samples) ==
    [i \in DOMAIN samples |->
        LET s == Sessions(samples[i])
        IN  [items |-> FlattenSeq([j \in DOMAIN s |->
                 [k \in DOMAIN s[j].turns |->
                     LET t == s[j].turns[k]
                     IN  item(t.id, s[j].index, t.speaker, t.text, s[j].date)]]),
             questions |-> [j \in DOMAIN samples[i].qa |->
                 LET qa == samples[i].qa[j]
                 IN  question(qa.text, NoDate, flattenStrings(qa.evidence), qa.category)]]]

(* "<session>_<index>", index < 10. *)
TurnID(sid, i) == 10 * sid + i

(* Sessions beyond the list of session ids are dropped. *)
Haystack(q) ==
    1..(IF Len(q.sessions) < Len(q.sids) THEN Len(q.sessions) ELSE Len(q.sids))

(* Mutant: turns are counted from 1. *)
GoldTurnIDs_FromOne(q) ==
    IF q.abstention THEN <<>> ELSE
    FlattenSeq([si \in Haystack(q) |->
        LET s == q.sessions[si]
            has == InOrder({k \in DOMAIN s : s[k].hasAnswer})
        IN  [k \in DOMAIN has |-> TurnID(q.sids[si], has[k])]])

(* The ids of all has_answer turns; none for an abstention question. *)
GoldTurnIDs(q) ==
    IF q.abstention THEN <<>> ELSE
    FlattenSeq([si \in Haystack(q) |->
        LET s == q.sessions[si]
            has == InOrder({k \in DOMAIN s : s[k].hasAnswer})
        IN  [k \in DOMAIN has |-> TurnID(q.sids[si], has[k] - 1)]])

loadLongMemEval(qs) ==
    [i \in DOMAIN qs |->
        LET q == qs[i]
        IN  [items |-> FlattenSeq([si \in Haystack(q) |->
                 [k \in DOMAIN q.sessions[si] |->
                     LET t == q.sessions[si][k]
                     IN  item(TurnID(q.sids[si], k - 1), q.sids[si], t.role, t.text,
                              IF si <= Len(q.dates) THEN q.dates[si] ELSE NoDate)]]),
             questions |-> << question(q.text, q.date, GoldTurnIDs(q), q.type) >>]]

loadDataset(file) ==
    CASE file.name = "fixtures"      -> loadFixtures(file.data)
      [] file.name = "locomo"        -> loadLoCoMo(file.data)
      [] file.name = "longmemeval_s" -> loadLongMemEval(file.data)

-----------------------------------------------------------------------------
(* The shapes that JSON decoding admits.                                   *)

IsSeq(s) == s \in Seq(ToSet(s))

FixturesFile(f) ==
    /\ IsSeq(f.turns) /\ \A t \in ToSet(f.turns) : t.id \in Int
    /\ IsSeq(f.questions) /\ \A q \in ToSet(f.questions) : q.evidence \in Seq(Int)

LoCoMoFile(samples) ==
    /\ IsSeq(samples)
    /\ \A s \in ToSet(samples) :
          /\ DOMAIN s.turns \cup DOMAIN s.dates \subseteq Nat
          /\ IsFiniteSet(DOMAIN s.turns \cup DOMAIN s.dates)
          /\ \A n \in DOMAIN s.turns :
                IsSeq(s.turns[n]) /\ \A t \in ToSet(s.turns[n]) : t.id \in Int
          /\ IsSeq(s.qa) /\ \A qa \in ToSet(s.qa) : qa.evidence \in Seq(Seq(Int))

LongMemEvalFile(qs) ==
    /\ IsSeq(qs)
    /\ \A q \in ToSet(qs) : /\ q.sids \in Seq(Int) /\ IsSeq(q.sessions)
                            /\ \A s \in ToSet(q.sessions) : IsSeq(s)

DatasetFile(file) ==
    \/ file.name = "fixtures" /\ FixturesFile(file.data)
    \/ file.name = "locomo" /\ LoCoMoFile(file.data)
    \/ file.name = "longmemeval_s" /\ LongMemEvalFile(file.data)

(* What a file itself lists as evidence are turns of the conversation. *)
EvidenceNamesTurns(file) ==
    /\ file.name = "fixtures" =>
          \A q \in ToSet(file.data.questions) : \A e \in ToSet(q.evidence) :
              \E t \in ToSet(file.data.turns) : t.id = e
    /\ file.name = "locomo" =>
          \A s \in ToSet(file.data) : \A qa \in ToSet(s.qa) :
              \A l \in ToSet(qa.evidence) : \A e \in ToSet(l) :
                  \E n \in DOMAIN s.turns : \E t \in ToSet(s.turns[n]) : t.id = e
=============================================================================
