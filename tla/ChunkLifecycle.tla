---------------------------- MODULE ChunkLifecycle ----------------------------
(***************************************************************************)
(* What the ledger and the pages promise the user, whatever the order of   *)
(* indexing, runs, decisions and crashes (docs/PRD.md, FR-LEDGER-02 and    *)
(* FR-REING-03): a chunk that has been superseded stays superseded, one    *)
(* that has been settled is not worked on again unless an operator resets  *)
(* it, and no block and no piece of evidence disappears from the wiki.     *)
(***************************************************************************)
EXTENDS ChunkLedger

CONSTANTS
    Blocks,
    Reopens         \* may an operator return settled chunks to the worklist?

VARIABLES
    life,           \* what has become of each chunk
    written,        \* blocks that have been written
    evidence        \* pairs of a block and a chunk it rests on

Life == {"absent", "open", "review", "settled", "superseded"}

Follows(from, to) ==
    \/ from = "absent" /\ to = "open"
    \/ from \in {"open", "review"} /\ to \in Life \ {"absent"}
    \/ from = "settled" /\ to = "superseded"
    \/ from = "settled" /\ to = "open" /\ Reopens

LifeInit ==
    /\ life = [r \in Row |-> "absent"]
    /\ written = {} /\ evidence = {}

LifeNext ==
    /\ life' \in [Row -> Life]
    /\ \A r \in Row : life'[r] = life[r] \/ Follows(life[r], life'[r])
    /\ written \subseteq written' /\ written' \subseteq Blocks
    /\ evidence \subseteq evidence' /\ evidence' \subseteq written' \X Row

LifeSpec == LifeInit /\ [][LifeNext]_<<life, written, evidence>>
==============================================================================
