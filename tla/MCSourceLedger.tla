---------------------------- MODULE MCSourceLedger ----------------------------
(***************************************************************************)
(* Instances of SourceLedger for TLC: the texts a file may hold are named  *)
(* by the chunks they consist of.                                          *)
(***************************************************************************)
EXTENDS LedgerProperties, TLC

CONSTANTS b1, b2

MCBlocks == {b1, b2}
MCOneBlock == {b1}
BlockSymmetry == Permutations(MCBlocks)

MCHashes == {"a", "b"}

(* One chunk, then two: a chunk is kept, added, moved and dropped.         *)
MCVersions == {"A", "AB", "B"}
MCContent == [v \in MCVersions |->
    CASE v = "A" -> <<"a">> [] v = "AB" -> <<"a", "b">> [] OTHER -> <<"b">>]

(* One text: a file is there or not.                                       *)
MCOneVersion == {"A"}
MCOneContent == [v \in MCOneVersion |-> <<"a">>]

(* Two texts without a common chunk.                                       *)
MCTwoVersions == {"A", "B"}
MCTwoContent == [v \in MCTwoVersions |-> IF v = "A" THEN <<"a">> ELSE <<"b">>]
==============================================================================
