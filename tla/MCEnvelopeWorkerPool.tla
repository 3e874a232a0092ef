------------------------- MODULE MCEnvelopeWorkerPool -------------------------
(***************************************************************************)
(* Two workers, one place in the queue and five calls: enough for a late   *)
(* answer to meet a task, for that task's answer to meet the next, and for *)
(* a full queue.                                                           *)
(***************************************************************************)
EXTENDS EnvelopeWorkerPool

CONSTANTS good1, good2, good3, bad1, bad2

MCTasks == {good1, good2, good3, bad1, bad2}
MCAuthentic == {good1, good2, good3}
===============================================================================
