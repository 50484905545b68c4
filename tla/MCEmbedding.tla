----------------------------- MODULE MCEmbedding -----------------------------
(***************************************************************************)
(* Instances of the embedding client and service for TLC.  The requests of *)
(* the earlier attempts stay with the service when the client gives up, so *)
(* that those of one call compete as those of several calls do.            *)
(***************************************************************************)
EXTENDS EmbeddingClient, TLC

MCRequests == Calls \X (1..MaxAttempts)
=============================================================================
