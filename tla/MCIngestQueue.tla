---------------------------- MODULE MCIngestQueue ----------------------------
(* The instances of IngestQueue that TLC checks. *)
EXTENDS IngestQueue, TLC

Symmetry == Permutations(Workers) \cup Permutations(Requests)
=============================================================================
