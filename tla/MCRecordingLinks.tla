-------------------------- MODULE MCRecordingLinks --------------------------
(* RecordingLinks on a few requests, interchangeable within their kind. *)
EXTENDS RecordingLinks, TLC

Symmetry == Permutations(Upload) \cup Permutations(Change)
=============================================================================
