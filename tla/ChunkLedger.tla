----------------------------- MODULE ChunkLedger -----------------------------
(***************************************************************************)
(* The chunk ledger of core/ledger.py and core/db/dao.py, without state:   *)
(* which rows can exist, which dispositions they can have, and which       *)
(* disposition may follow which.                                           *)
(*                                                                         *)
(* A ledger row is identified, as by the UNIQUE constraint of              *)
(* shared/migrations_local/001_acw_core.sql, by source, source version,    *)
(* content hash and ordinal.  The version is the hash of the file and      *)
(* chunking is a function of the text, so version and ordinal determine    *)
(* the content hash: Content[v] is the sequence of the hashes of the       *)
(* chunks of file version v.                                               *)
(***************************************************************************)
EXTENDS Integers, Sequences, FiniteSets

CONSTANTS
    Sources,        \* documents of kind 'source', by path
    Versions,       \* the texts a source file may hold
    Hashes,         \* content hashes of chunks
    Content,        \* Content[v]: hashes of the chunks of v, in file order
    MaxChunks,      \* bound: no version has more chunks than this
    MaxAttempts     \* ACWConfig.max_attempts

ASSUME ContentAssumption ==
    /\ Content \in [Versions -> Seq(Hashes)]
    /\ MaxChunks \in Nat
    /\ \A v \in Versions : Len(Content[v]) <= MaxChunks

ASSUME AttemptsAssumption == MaxAttempts \in Nat \ {0}

(* The rows the ledger may come to hold, and the hash each one carries.    *)
Row == {r \in [src : Sources, ver : Versions, ord : 1..MaxChunks] :
            r.ord <= Len(Content[r.ver])}

HashOf(r) == Content[r.ver][r.ord]

HashesOf(v) == {Content[v][i] : i \in 1..Len(Content[v])}

RowsOf(s) == {r \in Row : r.src = s}

(* Two rows for the same text of one source in different versions.         *)
SameContent(q, r) ==
    /\ q.src = r.src
    /\ q.ver # r.ver
    /\ HashOf(q) = HashOf(r)

(***************************************************************************)
(* Dispositions.  "absent" stands for a row that has not been inserted.    *)
(***************************************************************************)
Disposition ==
    {"pending", "placed", "duplicate", "irrelevant", "exclusion_pending",
     "conflicted_pending", "failed", "failed_final", "superseded"}

allowed_transitions(d) ==
    CASE d = "pending" -> Disposition \ {"pending"}
      [] d = "failed" -> {"pending", "failed_final", "superseded"}
      [] d = "conflicted_pending" -> {"placed", "duplicate", "superseded"}
      [] d = "exclusion_pending" -> {"pending", "irrelevant", "superseded"}
      [] OTHER -> {"superseded"}

(* Mutant: one attempt too many.                                           *)
FailedAsLate(n) == IF n >= MaxAttempts THEN "failed_final" ELSE "failed"

(* mark_failed: the disposition of a row whose attempts so far are n.      *)
FailedAs(n) == IF n + 1 >= MaxAttempts THEN "failed_final" ELSE "failed"
==============================================================================
