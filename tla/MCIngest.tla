------------------------------ MODULE MCIngest ------------------------------
(* Small instances of ingest. *)
EXTENDS Ingest

CONSTANTS t1, t2, x, y

Mem(turn, text) == [turn |-> turn, text |-> text]

(* Two turns that say the same words; an edited dataset, one of whose      *)
(* turns occurs twice; session-granular memories without a turn, two of    *)
(* them equal.                                                             *)
SameWords == <<Mem(t1, x), Mem(t2, x)>>
Edited == <<Mem(t1, y), Mem(t1, x)>>
NoTurns == <<Mem(NoTurn, x), Mem(NoTurn, x), Mem(NoTurn, y)>>

MCDatasets == {SameWords, Edited, NoTurns}
=============================================================================
