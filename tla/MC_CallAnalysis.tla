--------------------------- MODULE MC_CallAnalysis ---------------------------
(* TLC instance of CallAnalysis: transcripts shorter and longer than the limit. *)
EXTENDS CallAnalysis
==============================================================================
