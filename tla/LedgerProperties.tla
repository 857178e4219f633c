--------------------------- MODULE LedgerProperties ---------------------------
(***************************************************************************)
(* What SourceLedger is checked for.                                       *)
(***************************************************************************)
EXTENDS SourceLedger

RowState == Disposition \cup {"absent"}

BlockStatus == {"none", "current", "needs_review", "conflicted", "deprecated", "deleted"}

WorkspaceType ==
    /\ file \in [Sources -> Versions \cup {NoFile}] /\ edits \in 0..MaxEdits
    /\ docVer \in [Sources -> Versions \cup {NoFile}]
    /\ removed \subseteq Sources /\ synced \subseteq Sources
    /\ faults \in 0..MaxFaults

LedgerType ==
    disp \in [Row -> RowState] /\ attempts \in [Row -> Nat] /\ live \subseteq Row

BlockType ==
    /\ blockStatus \in [Blocks -> BlockStatus]
    /\ blockSrc \in [Blocks -> Sources \cup {NoSource}]
    /\ links \subseteq Blocks \X Row /\ cited \in [Blocks -> SUBSET Row]
    /\ flagged \subseteq Blocks /\ orphaned \subseteq Blocks

ReviewType ==
    /\ openRows \subseteq ReviewRow /\ apRow \subseteq ReviewRow
    /\ apTo \in {"irrelevant", "pending"} /\ apTodo \subseteq Row

IndexType ==
    /\ lock \in {"free", "watcher", "process", "reindex", "apply"}
    /\ ixPhase \in {"idle", "document", "create", "reconcile", "delete", "removed"}
    /\ ixBy \in {"none", "watcher", "process", "startup"}
    /\ ixSrc \in Sources \cup {NoSource} /\ ixOrd \in 1..MaxChunks + 1
    /\ ixTodo \subseteq Row /\ ixChanged \in BOOLEAN

RunType ==
    /\ rnPhase \in {"idle", "scan", "retry", "work", "batch", "irrelevant", "exclude",
                    "emit", "finish", "done"}
    /\ rnTodo \subseteq Sources /\ rnScan \in BOOLEAN
    /\ lastRun \in {"none", "completed", "aborted"}
    /\ rnWork \subseteq Row /\ rnGroup \subseteq Row /\ rnRest \subseteq Row
    /\ rnDefer \subseteq Row /\ rnExcl \subseteq Row

BatchType ==
    /\ rnAll \subseteq Row /\ rnBatch \subseteq Row /\ rnCur \in Row \cup {NoRow}
    /\ rnOut \subseteq {"placed", "duplicate", "conflicted_pending"}
    /\ rnLink \subseteq Blocks \X Row

(* An index job is about a source; until it starts to supersede it is      *)
(* about a text, and its position stays within that text.                  *)
IndexInText ==
    /\ ixPhase # "idle" => ixSrc \in Sources
    /\ ixPhase \in {"document", "create", "reconcile"} => docVer[ixSrc] \in Versions
    /\ ixPhase = "create" => ixOrd <= LastOrd + 1

(* The variables hold what their columns and local variables can hold.     *)
TypeOK ==
    /\ WorkspaceType /\ LedgerType /\ BlockType /\ ReviewType
    /\ IndexType /\ RunType /\ BatchType /\ IndexInText

------------------------------------------------------------------------------
(* While a run works, nobody else touches what it works on: the chunks it  *)
(* has still to process are pending and current (core/pipeline/run.py      *)
(* reads its worklist once and trusts the lock for the rest of the run).   *)
RunOwnsItsRows ==
    rnPhase \in {"work", "batch"} =>
        \A r \in rnWork \cup rnRest \cup rnBatch : r \in live /\ disp[r] = "pending"

(* Once a source has been indexed or deleted to the end, no chunk of text  *)
(* that its file no longer contains counts as anything but superseded,     *)
(* whatever runs, decisions and crashes come later (core/reingest.py).     *)
NoStaleEvidence ==
    \A s \in synced : \A r \in RowsOf(s) :
        (s \in removed \/ HashOf(r) \notin HashesOf(docVer[s]))
            => disp[r] \in {"absent", "superseded"}

(* A placed chunk is evidence of some block: the disposition and the link  *)
(* are written in different commits (core/pipeline/run.py, apply.py) and   *)
(* copied together to the next version (core/ingest.py).                   *)
PlacedHasBlock ==
    \A r \in Row : disp[r] = "placed" => \E b \in Blocks : <<b, r>> \in links

(* A block rests on chunks of one source, its own: whoever looks for the   *)
(* blocks a source leaves without evidence relies on it                    *)
(* (core/reingest.py, flag_blocks_with_only_superseded_chunks), several    *)
(* others must keep it (core/ingest.py, core/review/apply.py,              *)
(* core/conflicts/detect.py).                                              *)
EvidenceOfOwnSource == \A l \in links : blockSrc[l[1]] = l[2].src

(* failed and failed_final say whether attempts are left, across retries,  *)
(* copies to a new version and crashes; no chunk is tried too often.       *)
AttemptBudget ==
    \A r \in Row : /\ attempts[r] <= MaxAttempts
                   /\ disp[r] = "failed" => attempts[r] \in 1..MaxAttempts - 1
                   /\ disp[r] = "failed_final" => attempts[r] = MaxAttempts

(* A completed llmwiki process run has dealt with every chunk of every     *)
(* source file it found (core/pipeline/run.py, the gate of FR-LEDGER-04).  *)
CompletedRunCovers ==
    (rnPhase = "done" /\ rnScan /\ lastRun = "completed") =>
        \A s \in Sources : (docVer[s] # NoFile /\ s \notin removed) =>
            \A i \in 1..Len(Content[docVer[s]]) :
                LET r == [src |-> s, ver |-> docVer[s], ord |-> i]
                IN  r \in live /\ disp[r] \notin {"absent", "pending"}

(* After a completed process run, every block that has lost its last       *)
(* evidence is marked needs_review, unless the user has decided about it   *)
(* since, and there is an open row for every needs_review block            *)
(* (FR-REING-02; core/reingest.py and core/pipeline/run.py).               *)
CompletedRunListsStale ==
    (rnPhase = "done" /\ rnScan /\ lastRun = "completed") =>
        \A b \in Blocks :
            /\ (b \in orphaned /\ OnlySuperseded(b)) =>
                   blockStatus[b] \in {"needs_review", "deleted"}
            /\ blockStatus[b] = "needs_review" => \E w \in openRows : w.block = b

(* What a disposition means to the user.                                   *)
LifeOf(d) ==
    CASE d \in {"pending", "failed"} -> "open"
      [] d \in {"conflicted_pending", "exclusion_pending"} -> "review"
      [] d \in {"placed", "duplicate", "irrelevant", "failed_final"} -> "settled"
      [] OTHER -> d

(* The ledger implements the lifecycle it promises (ChunkLifecycle): no    *)
(* interleaving of indexing, runs, decisions and crashes brings back a     *)
(* superseded chunk, works again on a settled one, or loses evidence.      *)
Lifecycle == INSTANCE ChunkLifecycle WITH
    life <- [r \in Row |-> LifeOf(disp[r])],
    written <- {b \in Blocks : blockStatus[b] # "none"},
    evidence <- links,
    Reopens <- ResetFrom # {}

ImplementsLifecycle == Lifecycle!LifeSpec

------------------------------------------------------------------------------
(* Liveness, under FairSpec.                                               *)

(* A run that starts ends: completed, aborted or killed, with the lock     *)
(* free for the next command (core/pipeline/run.py).                       *)
RunTerminates == rnPhase # "idle" ~> (rnPhase = "idle" /\ lock # "process")

(* If process is run again and again, every chunk of the current text is   *)
(* settled for good: failures are retried, but not for ever                *)
(* (core/ledger.py, mark_failed; docs/PRD.md, FR-LEDGER-02).               *)
EventuallySettled ==
    []<>(rnPhase = "retry" /\ rnScan) =>
        <>[](\A r \in live : disp[r] \notin {"pending", "failed"})
==============================================================================
