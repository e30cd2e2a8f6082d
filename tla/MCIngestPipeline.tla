---------------------------- MODULE MCIngestPipeline ----------------------------
(* Small instance of IngestPipeline: two jobs that captured the same event. *)
EXTENDS IngestPipeline

CONSTANTS a, b, p1

MCTokenOf == [j \in Jobs |-> p1]
=============================================================================
