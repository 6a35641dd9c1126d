--------------------------- MODULE MCEmbedClient ---------------------------
(* Three calls, each a worker's document, eval's query of the same text,   *)
(* a query that already carries a prefix, or one embedded as zero.         *)
EXTENDS EmbedClient

CONSTANTS x, y, z

MCJobs == {[raw |-> x, prefix |-> "document", side |-> "worker"],
           [raw |-> x, prefix |-> "query", side |-> "eval"],
           [raw |-> y, prefix |-> "query", side |-> "eval"],
           [raw |-> z, prefix |-> "query", side |-> "eval"]}
=============================================================================
