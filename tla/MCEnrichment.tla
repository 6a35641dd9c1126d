---------------------------- MODULE MCEnrichment ----------------------------
(* Small instances of the sweep, and what the repository's own comments    *)
(* claim of it.                                                            *)
EXTENDS Enrichment

(* internal/store/enrichment.go: a claimable memory is "past the           *)
(* exponential backoff window of the LATEST failed attempt".  Rows are in  *)
(* id order, so the latest failure is the one with the largest index.      *)
PastBackoffOfLatestFailure ==
    \A v \in Versions : \A m \in Pending(v) :
        \A i \in FailedRows(m, v) :
            (\A j \in FailedRows(m, v) : j <= i)
                => age[m][i] > Window(NFail(m, v))

(* internal/enrich/activities.go: a permanent embed error is               *)
(* "dead-lettered, never retried": no row of the same version follows it.  *)
DeadLetteredNeverRetried ==
    \A m \in memories, v \in Versions :
        \A i \in FailedRows(m, v), j \in FailedRows(m, v) \cup DoneRows(m, v) :
            events[m][i].permanent => j <= i

(* internal/enrich/enrich.go: bumping the version "re-enqueues every       *)
(* memory for re-enrichment for free": once the server runs with a version *)
(* no older than the one it was first started with, every memory settles   *)
(* at that version.                                                        *)
BumpReEnriches ==
    \A m \in Memories, v \in Versions :
        (m \in memories /\ deployed = v /\ schedule <= v)
            ~> (deployed # v \/ HasDone(m, v) \/ m \in DeadLetter(v))

(* Bounds of the batch run.  Two memories are worked on by concurrent      *)
(* goroutines with faults; the third, which makes a second page, comes     *)
(* last, and from then on there is no fault and one goroutine at a time.   *)
OneAtATime ==
    /\ Cardinality({b \in Batches : batch[b].st = "running"}) <= 1
    /\ \A b \in Batches :
          Cardinality({i \in Items : run[b].item[i] \notin {"todo", "end"}}) <= 1

BatchNext ==
    /\ Next
    /\ 3 \in memories' => {1, 2} \subseteq memories' /\ faults' = 0 /\ OneAtATime'

BatchSpec == Init /\ [][BatchNext]_vars
=============================================================================
