------------------------------ MODULE MCHarness ------------------------------
(* A run over the ledger under free concurrent use of the store API: any   *)
(* attempt of any memory may report any outcome at any time.  And what the *)
(* repository says of dead memories.                                       *)
EXTENDS Harness

CONSTANT MaxRows         \* bound on the rows of the whole ledger

RowsOf(e) == UNION {{m} \X DOMAIN e[m] : m \in Memories}

MCConvOf == [m \in Memories |-> IF m = 1 THEN "A" ELSE "B"]

MCNext == HNext /\ Cardinality(RowsOf(events')) <= MaxRows

MCSpec == HInit /\ [][MCNext]_<<lvars, hvars>>

(* cmd/client/main.go: wait-enriched --fail-on-dead exits "nonzero the     *)
(* moment dead > 0", "if any memory is dead-lettered"; a memory is dead    *)
(* (docs/04-append-only.md, the SQL function dead_letter) after a          *)
(* permanent failure or after MaxAttempts failures.  So a poll made while  *)
(* some memory is dead ends the wait.                                      *)
DeadEndsTheWait ==
    [][Poll /\ DeadLetter(Int16(run.version)) # {} => run'.step = "dead"]_<<lvars, hvars>>
=============================================================================
