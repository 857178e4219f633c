--------------------------------- MODULE MCWiki ---------------------------------
(***************************************************************************)
(* A small wiki for TLC: two pages, the second not there at first.         *)
(***************************************************************************)
EXTENDS Wiki, TLC

CONSTANTS p1, p2, k1, k2, c1, c2

PagesValue == {p1, p2}
TwoKeys == {k1, k2}
TwoChunks == {c1, c2}
ChunkSymmetry == Permutations({c1, c2})
AlikeValue == {<<p1, p2>>}
AllDecisions == CandidateDecisions
AllTaxonomy == {"merge", "split", "rename"}
================================================================================
