------------------------- MODULE MCEmbeddingPipeline -------------------------
(***************************************************************************)
(* One thread that executes jobs, the sweep, and a chat task that can be   *)
(* cancelled; one of two nodes can never be embedded.                      *)
(***************************************************************************)
EXTENDS EmbeddingPipeline

CONSTANTS worker, sweep, chat, n1, n2

MCCallers == {worker, sweep, chat}
MCAsync == {chat}
MCWorkers == {worker}
MCNodes == {n1, n2}
MCHopeless == {n2}

===============================================================================
