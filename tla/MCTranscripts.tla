----------------------------- MODULE MCTranscripts -----------------------------
(* Transcripts with interchangeable texts. *)
EXTENDS Transcripts

TextSymmetry == Permutations(Texts)
================================================================================
