------------------------------- MODULE MCEval --------------------------------
(* Small files of the three formats.  A line of dialog is a number; its     *)
(* lexemes and vectors are tables below, chosen so that the two rankers     *)
(* disagree and two vectors point away from the queries (in dense mode the  *)
(* boost then demotes the one that is in the window).                       *)
EXTENDS Eval

MCNoTime == -1

(* The last component of a round's line is the turn's line. *)
Lines(text) == {IF Len(l) = 2 THEN l[2][1] ELSE l[1] : l \in {text[i] : i \in DOMAIN text}}
MCLex(text) == UNION {CASE n = 1 -> {"x"} [] n = 2 -> {"y"} [] n \in {3, 4} -> {"x", "y"}
                        [] OTHER -> {} : n \in Lines(text)}
MCVec(text) == CASE Lines(text) = {1} -> <<5, 0>>  [] Lines(text) = {2} -> <<3, 4>>
                 [] Lines(text) = {3} -> <<-5, 0>> [] Lines(text) = {4} -> <<-4, 3>>
                 [] OTHER -> <<4, 3>>

Line(n) == <<n>>
Q(lex, vec, abs, rel) == [lex |-> lex, vec |-> vec, abs |-> abs, rel |-> rel,
                          base |-> NoTime]

(* Fixtures: every pattern of sessions and speakers of three turns. *)
Turn(i, s, p) == [id |-> i, session |-> s, speaker |-> p, text |-> Line(i),
                  date |-> IF i = 1 THEN NoTime ELSE 10 * s]
Fixture(s, p) ==
    [name |-> "fixtures", present |-> TRUE,
     data |-> [turns |-> [i \in 1..3 |-> Turn(i, s[i], p[i])],
               questions |->
                 << [text |-> Q({"x"}, <<5, 0>>, NoTime, NoTime), date |-> NoTime,
                     evidence |-> <<1>>],
                    [text |-> Q({"y"}, <<0, 5>>, NoTime, 5), date |-> 16,
                     evidence |-> <<2, 3>>] >>]]
Patterns == {<<1, 1, 1>>, <<1, 1, 2>>, <<1, 2, 2>>, <<1, 2, 1>>}
Speakers == {<<"a", "b", "a">>, <<"a", "a", "b">>, <<"a", "b", "b">>}

(* LoCoMo: sessions out of order, one with a date only, one with none;     *)
(* nested evidence and an adversarial question.                            *)
LoCoMo ==
    [name |-> "locomo", present |-> TRUE,
     data |-> << [turns |-> [n \in {1, 2} |->
                     IF n = 2 THEN << [id |-> 3, speaker |-> "b", text |-> Line(4)] >>
                     ELSE << [id |-> 1, speaker |-> "a", text |-> Line(1)],
                             [id |-> 2, speaker |-> "b", text |-> Line(3)] >>],
                  dates |-> [n \in {2, 3} |-> 10 * n],
                  qa |-> << [text |-> Q({"x"}, <<5, 0>>, 20, NoTime),
                             evidence |-> << <<1, 3>>, <<2>> >>, category |-> 1],
                            [text |-> Q({}, <<0, 5>>, NoTime, 5),
                             evidence |-> <<>>, category |-> 5],
                            [text |-> Q({"z"}, <<-3, 4>>, NoTime, NoTime),
                             evidence |-> << <<3>> >>, category |-> 2] >>] >>]

(* LoCoMo: two turns with one id. *)
Clash ==
    [name |-> "locomo", present |-> TRUE,
     data |-> << [turns |-> [n \in {1, 2} |->
                     << [id |-> 1, speaker |-> "a", text |-> Line(n)],
                        [id |-> n + 1, speaker |-> "b", text |-> Line(5)] >>],
                  dates |-> [n \in {1, 2} |-> 10 * n],
                  qa |-> << [text |-> Q({"x"}, <<5, 0>>, 10, NoTime),
                             evidence |-> << <<1>> >>, category |-> 1] >>] >>]

(* LongMemEval: a session without an id, dates that run out, an abstention. *)
Said(r, n, a) == [role |-> r, text |-> Line(n), hasAnswer |-> a]
LongMemEval ==
    [name |-> "longmemeval_s", present |-> TRUE,
     data |-> << [abstention |-> FALSE, type |-> "multi", date |-> 12,
                  text |-> Q({"x"}, <<5, 0>>, NoTime, 2), sids |-> <<1, 2>>,
                  dates |-> <<10>>,
                  sessions |-> << <<Said("user", 1, TRUE), Said("assistant", 2, FALSE)>>,
                                  <<Said("user", 3, TRUE)>>,
                                  <<Said("user", 2, TRUE)>> >>],
                 [abstention |-> TRUE, type |-> "multi", date |-> NoTime,
                  text |-> Q({"y"}, <<5, 0>>, NoTime, NoTime), sids |-> <<1>>,
                  dates |-> <<10>>,
                  sessions |-> << <<Said("user", 2, TRUE)>> >>] >>]

MCFiles ==
    {Fixture(s, p) : s \in Patterns, p \in Speakers} \cup {LoCoMo, Clash, LongMemEval}
    \cup {[name |-> "locomo", present |-> FALSE, data |-> <<>>]}

Flag(v, m, g, k, n, t, c) ==
    [version |-> v, mode |-> m, granularity |-> g, rrfK |-> k, candidates |-> n,
     topK |-> t, maxPerSession |-> c]
MCFlags ==
    {Flag(1, "hybrid", "", 0, 0, 0, -1), Flag(1, "hybrid", "round", 1, 3, 2, 1),
     Flag(1, "dense", "turn", 0, 0, 2, 0), Flag(1, "bm25", "all", 0, 2, 3, 2),
     Flag(1, "dense", "all", 0, 0, 0, 1), Flag(1, "hybrid", "turn", 3, 2, 3, 0),
     Flag(0, "hybrid", "", 0, 0, 0, -1), Flag(1, "bm25", "word", 0, 0, 0, -1)}
=============================================================================
