--------------------------- MODULE MCIngestPipeline ---------------------------
(* The instances of IngestPipeline that TLC checks. *)
EXTENDS IngestPipeline
=============================================================================
