---------------------------- MODULE SourceLedger ----------------------------
(***************************************************************************)
(* Sources, the chunk ledger, processing runs and review decisions, as     *)
(* core/ingest.py, core/reingest.py, core/ledger.py, core/pipeline/run.py, *)
(* core/review/apply.py and api/domain/watcher.py drive them.              *)
(*                                                                         *)
(* Three processes share the database: the local server (startup scan,     *)
(* file watcher, auto-process), the llmwiki command line (process,         *)
(* apply-decisions, reset-dispositions) and the user, who edits files.     *)
(* One action is what the code does between two commits, so a process may  *)
(* be killed between any two of them.  Where an action stands for several  *)
(* commits its comment says so.                                            *)
(***************************************************************************)
EXTENDS ChunkLedger

CONSTANTS
    Blocks,         \* context blocks that may be written (bounds their number)
    BatchMax,       \* ACWConfig.batch_max_chunks
    ThresholdNum, ThresholdDen, \* exclusion_review_threshold as a fraction
    Drivers,        \* who indexes and runs: see Driver
    ResetFrom,      \* dispositions an operator gives to reset-dispositions
    Answers,        \* how model calls end: see Answer
    Decisions,      \* the decisions a reviewer takes on conflict rows
    CrashIn,        \* phases in which a process may be killed
    MaxEdits,       \* bound on file edits and deletions
    MaxFaults,      \* bound on kills and on page write conflicts
    NoFile, NoSource, NoRow, NoBlock

Phases == {"index", "removed", "run", "apply"}

Driver == {"watcher", "startup", "process", "reindex", "auto"}

Answer == {"irrelevant", "placed", "duplicate", "conflicted_pending", "error"}

ConflictDecision == {"accept_new", "deprecate_existing", "merge", "mark_conflicted",
                     "keep_existing", "delete_duplicate"}

ASSUME SourceLedgerAssumption ==
    /\ BatchMax \in Nat \ {0}
    /\ ThresholdNum \in Nat /\ ThresholdDen \in Nat \ {0}
    /\ Drivers \subseteq Driver /\ Answers \subseteq Answer
    /\ ResetFrom \subseteq Disposition
    /\ Decisions \subseteq ConflictDecision
    /\ CrashIn \subseteq Phases
    /\ MaxEdits \in Nat /\ MaxFaults \in Nat
    /\ NoFile \notin Versions /\ NoSource \notin Sources
    /\ NoRow \notin Row /\ NoBlock \notin Blocks
    /\ IsFiniteSet(Blocks)

VARIABLES
    \* the workspace and the documents table
    file,           \* text of each source file, or NoFile
    docVer,         \* documents.content_hash, or NoFile before the first index
    removed,        \* sources whose document says 'Source file removed'
    \* acw_chunk_ledger
    disp,           \* disposition of each row, or "absent"
    attempts,
    live,           \* rows whose document_chunk_id names an existing chunk
    \* acw_blocks and acw_block_chunks
    blockStatus, blockSrc, links,
    cited,          \* the chunk_ids on the page of each block
    flagged,        \* blocks whose page text says needs_review
    \* acw_review_rows not yet applied
    openRows,
    \* .llmwiki/lock: the operation that holds it
    lock,
    \* index job: index_document_chunks or mark_source_deleted
    ixPhase, ixBy, ixSrc, ixOrd, ixTodo, ixChanged,
    \* processing run
    rnPhase, rnTodo, rnWork, rnGroup, rnRest, rnAll, rnBatch, rnCur, rnOut,
    rnLink,         \* a block is committed, its link to the chunk is not yet
    rnDefer, rnExcl, rnScan, lastRun,
    \* apply-decisions on an exclusion row
    apRow, apTo, apTodo,
    \* budgets of the environment
    edits, faults,
    \* history: sources whose last index or deletion job ran to its end, and
    \* blocks that have lost their last evidence since a decision about them
    synced, orphaned

wsVars     == <<file, edits>>
docVars    == <<docVer, removed, synced>>
ledgerVars == <<disp, attempts>>
blockVars  == <<blockStatus, blockSrc, links, cited, flagged, orphaned>>
ixVars     == <<ixPhase, ixBy, ixSrc, ixOrd, ixTodo, ixChanged>>
batchVars  == <<rnAll, rnBatch, rnCur, rnOut, rnLink>>
groupVars  == <<rnWork, rnGroup, rnRest, rnDefer, rnExcl>>
rnVars     == <<rnPhase, rnTodo, rnScan, lastRun, batchVars, groupVars>>
apVars     == <<apRow, apTo, apTodo>>
vars       == <<wsVars, docVars, ledgerVars, live, blockVars, openRows, lock,
                ixVars, rnVars, apVars, faults>>

------------------------------------------------------------------------------
(* Review rows: a conflict has a candidate (its chunks, one unless it is   *)
(* merged, and its source) and an existing block, a stale row only the     *)
(* block, an exclusion row only its chunks.                                *)
(* "new" rows belong to the run in progress; emit_review_file puts them in *)
(* a review file ("filed"); rows of a run that never emitted are "lost".   *)
(* Rows that agree in all of this are counted once.                        *)
ReviewRow ==
    {w \in [kind : {"conflict", "exclusion", "needs_review"},
            chunks : SUBSET Row, src : Sources \cup {NoSource},
            block : Blocks \cup {NoBlock}, state : {"new", "filed", "lost"}] :
        /\ w.block = NoBlock <=> w.kind = "exclusion"
        /\ w.src # NoSource <=> w.kind = "conflict"}

InState(R, from, to) ==
    {IF w.state = from THEN [w EXCEPT !.state = to] ELSE w : w \in R}

(* ChunkLedger._transition, for the rows of S at once.                     *)
Transition(S, d) ==
    /\ \A r \in S : d \in allowed_transitions(disp[r])
    /\ disp' = [r \in Row |-> IF r \in S THEN d ELSE disp[r]]
    /\ UNCHANGED attempts

(* Mutant: attempts are not counted.                                       *)
MarkFailedUncounted(S) ==
    /\ disp' = [r \in Row |-> IF r \in S THEN FailedAs(attempts[r]) ELSE disp[r]]
    /\ UNCHANGED attempts

mark_failed(S) ==
    /\ disp' = [r \in Row |-> IF r \in S THEN FailedAs(attempts[r]) ELSE disp[r]]
    /\ attempts' = [r \in Row |-> IF r \in S THEN attempts[r] + 1 ELSE attempts[r]]

(* A block's status is changed by a decision of the user.                  *)
Decide(b, status) ==
    /\ blockStatus' = [blockStatus EXCEPT ![b] = status]
    /\ flagged' = flagged \ {b}
    /\ orphaned' = orphaned \ {b}

Links(b) == {r \in Row : <<b, r>> \in links}

OnlySuperseded(b) == Links(b) # {} /\ \A r \in Links(b) : disp[r] = "superseded"

------------------------------------------------------------------------------
(* The user edits, restores or deletes a source file.                      *)
EditFile(s, v) ==
    /\ edits < MaxEdits
    /\ v # file[s]
    /\ file' = [file EXCEPT ![s] = v]
    /\ edits' = edits + 1
    /\ UNCHANGED <<docVars, ledgerVars, live, blockVars, openRows, lock,
                   ixVars, rnVars, apVars, faults>>

------------------------------------------------------------------------------
(* Mutant: the watcher does not wait for the lock.                         *)
MayIndexUnlocked(s, by) ==
    /\ ixPhase = "idle"
    /\ CASE by = "watcher" -> by \in Drivers /\ (file[s] # docVer[s] \/ s \in removed)
         [] by = "process" -> rnPhase = "scan" /\ s \in rnTodo
         [] by = "startup" -> by \in Drivers

(* Indexing.  "by" is who indexes: the watcher takes the lock for one      *)
(* file, process indexes every file under its own lock before it runs, the *)
(* server's startup scan takes no lock.  The watcher is told of changes.   *)
(* One index job is in progress at a time.                                 *)
MayIndex(s, by) ==
    /\ ixPhase = "idle"
    /\ CASE by = "watcher" -> /\ by \in Drivers /\ lock = "free"
                              /\ file[s] # docVer[s] \/ s \in removed
         [] by = "process" -> rnPhase = "scan" /\ s \in rnTodo
         [] by = "startup" -> by \in Drivers

IndexEnds ==
    /\ ixPhase' = "idle" /\ ixBy' = "none" /\ ixSrc' = NoSource /\ ixOrd' = 1
    /\ ixTodo' = {} /\ ixChanged' = FALSE

LockFor(by) == lock' = IF by = "watcher" THEN "watcher" ELSE lock

(* _index_file of an existing text file, changed or not, up to the commit  *)
(* of the document and of its source version.                              *)
BeginIndex(s, by) ==
    /\ MayIndex(s, by) /\ LockFor(by)
    /\ file[s] # NoFile
    /\ docVer' = [docVer EXCEPT ![s] = file[s]]
    /\ removed' = removed \ {s}
    /\ synced' = synced \ {s}
    /\ ixPhase' = "document" /\ ixBy' = by /\ ixSrc' = s
    /\ ixChanged' = (docVer[s] # file[s] \/ s \in removed \/ s \notin synced)
    /\ UNCHANGED <<wsVars, ledgerVars, live, blockVars, openRows, ixOrd, ixTodo,
                   rnVars, apVars, faults>>

(* index_document_chunks replaces document_chunks: the new chunks have new *)
(* ids, so no ledger row refers to one until it is seeded again.           *)
ReplaceChunks ==
    /\ ixPhase = "document"
    /\ live' = live \ RowsOf(ixSrc)
    /\ ixPhase' = "create" /\ ixOrd' = 1
    /\ UNCHANGED <<wsVars, docVars, ledgerVars, blockVars, openRows, lock, ixBy,
                   ixSrc, ixTodo, ixChanged, rnVars, apVars, faults>>

Priors(r) == {q \in Row : SameContent(q, r) /\ disp[q] \notin {"absent", "superseded"}}

(* The rows _copy_prior_disposition_if_needed may choose: one at the same  *)
(* place in the file if there is one.  Which of several was updated last   *)
(* is not modelled.                                                        *)
BestPriors(r) ==
    LET same == {q \in Priors(r) : q.ord = r.ord}
    IN  IF same # {} THEN same ELSE Priors(r)

(* Mutant: seeding copies to rows that are no longer new.                  *)
CopySourcesAlways(r) == IF Priors(r) # {} THEN BestPriors(r) ELSE {r}

(* The rows whose disposition and links seeding r takes over: r itself     *)
(* when there is nothing to copy.                                          *)
CopySources(r) ==
    IF disp[r] = "pending" /\ attempts[r] = 0 /\ Priors(r) # {}
      THEN BestPriors(r) ELSE {r}

SeedRow(i) == [src |-> ixSrc, ver |-> docVer[ixSrc], ord |-> i]

(* Mutant: one chunk too many.                                             *)
LastOrdOff == Len(Content[docVer[ixSrc]]) + 1

LastOrd == Len(Content[docVer[ixSrc]])

(* Mutant: only rows beyond the end of the new text are stale.             *)
StaleRowsByPlace(s) ==
    {r \in RowsOf(s) : /\ r.ver # docVer[s] /\ r.ord > Len(Content[docVer[s]])
                       /\ disp[r] \notin {"absent", "superseded"}}

(* reconcile_source_version reads the rows to supersede once: those of     *)
(* other versions whose text the current version does not contain.         *)
StaleRows(s) ==
    {r \in RowsOf(s) : /\ r.ver # docVer[s]
                       /\ HashOf(r) \notin HashesOf(docVer[s])
                       /\ disp[r] \notin {"absent", "superseded"}}

(* What one step of seeding inserts, and what it commits the copy for.     *)
Inserted  == {SeedRow(i) : i \in {ixOrd} \cap 1..LastOrd}
CopiedNow == {SeedRow(i) : i \in {ixOrd - 1} \cap 1..LastOrd}

(* Mutant: the disposition is copied without its links.                    *)
CopiedLinksNone(from) == {}

CopiedLinks(from) == {l \in Blocks \X CopiedNow : <<l[1], from[l[2]]>> \in links}

(* One step of _seed_ledger_for_current_chunks.  create_pending_chunk      *)
(* inserts and commits a row, or keeps a row of the same identity as it    *)
(* is, whatever its disposition, and points it at the chunk.  The copy     *)
(* from a prior row that follows it is committed with the next row, or     *)
(* after the last one, when the rows to reconcile are read.                *)
SeedChunk ==
    /\ ixPhase = "create"
    /\ \E from \in [CopiedNow -> Row] :
         /\ \A r \in CopiedNow : from[r] \in CopySources(r)
         /\ disp' = [r \in Row |->
                IF r \in CopiedNow THEN disp[from[r]]
                ELSE IF r \in Inserted /\ disp[r] = "absent" THEN "pending"
                ELSE disp[r]]
         /\ attempts' = [r \in Row |-> IF r \in CopiedNow THEN attempts[from[r]]
                                                         ELSE attempts[r]]
         /\ links' = links \cup CopiedLinks(from)
    /\ live' = live \cup Inserted
    /\ IF ixOrd > LastOrd
         THEN ixPhase' = "reconcile" /\ ixTodo' = StaleRows(ixSrc) /\ UNCHANGED ixOrd
         ELSE ixOrd' = ixOrd + 1 /\ UNCHANGED <<ixPhase, ixTodo>>
    /\ UNCHANGED <<wsVars, docVars, blockStatus, blockSrc, cited, flagged, orphaned, openRows,
                   lock, ixBy, ixSrc, ixChanged, rnVars, apVars, faults>>

(* mark_source_deleted: every row, then the document, then the blocks.     *)
BeginDelete(s, by) ==
    /\ MayIndex(s, by) /\ LockFor(by)
    /\ file[s] = NoFile /\ docVer[s] # NoFile /\ s \notin removed
    /\ synced' = synced \ {s}
    /\ ixPhase' = "delete" /\ ixBy' = by /\ ixSrc' = s /\ ixChanged' = TRUE
    /\ ixTodo' = {r \in RowsOf(s) : disp[r] \notin {"absent", "superseded"}}
    /\ UNCHANGED <<wsVars, docVer, removed, ledgerVars, live, blockVars, openRows,
                   ixOrd, rnVars, apVars, faults>>

mark_superseded(r) ==
    /\ ixPhase \in {"reconcile", "delete"} /\ r \in ixTodo
    /\ Transition({r}, "superseded")
    /\ ixTodo' = ixTodo \ {r}
    /\ orphaned' = orphaned \cup {b \in Blocks : /\ r \in Links(b)
           /\ \A q \in Links(b) \ {r} : disp[q] = "superseded"}
    /\ UNCHANGED <<wsVars, docVars, live, blockStatus, blockSrc, links, cited, flagged, openRows,
                   lock, ixPhase, ixBy, ixSrc, ixOrd, ixChanged, rnVars, apVars, faults>>

MarkRemoved ==
    /\ ixPhase = "delete" /\ ixTodo = {}
    /\ removed' = removed \cup {ixSrc}
    /\ ixPhase' = "removed"
    /\ UNCHANGED <<wsVars, docVer, synced, ledgerVars, live, blockVars, openRows,
                   lock, ixBy, ixSrc, ixOrd, ixTodo, ixChanged, rnVars, apVars, faults>>

(* Mutant: only current blocks are flagged.                                *)
LostEvidenceOfCurrent(b) ==
    blockSrc[b] = ixSrc /\ OnlySuperseded(b) /\ blockStatus[b] = "current"

(* flag_blocks_with_only_superseded_chunks, the end of both jobs.          *)
LostEvidence(b) ==
    blockSrc[b] = ixSrc /\ OnlySuperseded(b) /\ blockStatus[b] # "deleted"

FlagBlocks ==
    /\ ixPhase = "removed" \/ (ixPhase = "reconcile" /\ ixTodo = {})
    /\ blockStatus' = [b \in Blocks |->
           IF LostEvidence(b) THEN "needs_review" ELSE blockStatus[b]]
    /\ synced' = synced \cup {ixSrc}
    /\ rnTodo' = IF ixBy = "process" THEN rnTodo \ {ixSrc} ELSE rnTodo
    /\ lock' = IF ixBy = "watcher" THEN "free" ELSE lock
    /\ IndexEnds
    /\ UNCHANGED <<wsVars, docVer, removed, ledgerVars, live, blockSrc, links, cited,
                   flagged, orphaned, openRows, rnPhase, rnScan, lastRun, batchVars, groupVars, apVars,
                   faults>>

------------------------------------------------------------------------------
(* Processing runs.                                                        *)

(* cmd_process: take the lock, index or delete every source, then run.     *)
BeginProcess ==
    /\ "process" \in Drivers /\ lock = "free" /\ lock' = "process"
    /\ rnPhase' = "scan" /\ rnTodo' = Sources /\ rnScan' = TRUE
    /\ UNCHANGED <<wsVars, docVars, ledgerVars, live, blockVars, openRows, ixVars,
                   lastRun, batchVars, groupVars, apVars, faults>>

(* _auto_process_loop: run_processing_run without a scan of its own.       *)
BeginAuto ==
    /\ "auto" \in Drivers /\ lock = "free" /\ lock' = "process"
    /\ rnPhase' = "retry" /\ rnScan' = FALSE
    /\ UNCHANGED <<wsVars, docVars, ledgerVars, live, blockVars, openRows, ixVars,
                   rnTodo, lastRun, batchVars, groupVars, apVars, faults>>

(* cmd_reindex: drop every chunk, index or delete every source, no run.    *)
BeginReindex ==
    /\ "reindex" \in Drivers /\ lock = "free" /\ lock' = "reindex"
    /\ live' = {}
    /\ rnPhase' = "scan" /\ rnTodo' = Sources
    /\ UNCHANGED <<wsVars, docVars, ledgerVars, blockVars, openRows, ixVars, rnScan,
                   lastRun, batchVars, groupVars, apVars, faults>>

(* scan_workspace has nothing left to do: the remaining sources have no    *)
(* file and no document, or a document already marked removed.             *)
FinishScan ==
    /\ rnPhase = "scan" /\ ixBy # "process"
    /\ \A s \in rnTodo : file[s] = NoFile /\ (docVer[s] = NoFile \/ s \in removed)
    /\ rnTodo' = {}
    /\ IF lock = "reindex" THEN rnPhase' = "idle" /\ lock' = "free"
                          ELSE rnPhase' = "retry" /\ UNCHANGED lock
    /\ UNCHANGED <<wsVars, docVars, ledgerVars, live, blockVars, openRows, ixVars,
                   rnScan, lastRun, batchVars, groupVars, apVars, faults>>

(* _worklist joins document_chunks: rows that are not live drop out.       *)
_worklist ==
    {r \in live : \/ disp[r] = "pending"
                  \/ disp[r] = "failed" /\ attempts[r] < MaxAttempts}

(* The run starts: sync_block_statuses writes what the database says about *)
(* stale blocks to their pages, mark_pending_for_retry takes the failed    *)
(* rows back (one commit each; a run that starts again repeats them), and  *)
(* the worklist is read.                                                   *)
StartRun ==
    /\ rnPhase = "retry"
    /\ flagged' = flagged \cup {b \in Blocks : blockStatus[b] = "needs_review"}
    /\ Transition({r \in _worklist : disp[r] = "failed"}, "pending")
    /\ rnWork' = _worklist /\ rnPhase' = "work"
    /\ UNCHANGED <<wsVars, docVars, live, blockStatus, blockSrc, links, cited, orphaned, openRows,
                   lock, ixVars, rnTodo, rnScan, lastRun, batchVars, rnGroup, rnRest, rnDefer, rnExcl, apVars, faults>>

(* _source_groups and batch_chunks_by_source.                              *)
StartGroup(s) ==
    /\ rnPhase = "work" /\ rnGroup = {}
    /\ rnWork \cap RowsOf(s) # {}
    /\ rnGroup' = rnWork \cap RowsOf(s) /\ rnRest' = rnGroup'
    /\ rnWork' = rnWork \ RowsOf(s)
    /\ UNCHANGED <<wsVars, docVars, ledgerVars, live, blockVars, openRows, lock,
                   ixVars, rnPhase, rnTodo, rnScan, lastRun, batchVars, rnDefer,
                   rnExcl, apVars, faults>>

IsNextBatch(B) ==
    /\ B # {} /\ Cardinality(B) <= BatchMax
    /\ B = rnRest \/ Cardinality(B) = BatchMax
    /\ \A r \in B, q \in rnRest \ B : r.ord <= q.ord

StartBatch ==
    /\ rnPhase = "work"
    /\ \E B \in SUBSET rnRest :
         /\ IsNextBatch(B)
         /\ rnAll' = B /\ rnBatch' = B /\ rnRest' = rnRest \ B
    /\ rnPhase' = "batch" /\ rnCur' = NoRow /\ rnOut' = {} /\ rnLink' = {}
    /\ UNCHANGED <<wsVars, docVars, ledgerVars, live, blockVars, openRows, lock,
                   ixVars, rnTodo, rnScan, lastRun, rnWork, rnGroup, rnDefer, rnExcl,
                   apVars, faults>>

(* C1 calls a chunk irrelevant: decided when the source's group is done.   *)
DeferIrrelevant(r) ==
    /\ "irrelevant" \in Answers
    /\ rnPhase = "batch" /\ rnCur = NoRow /\ r \in rnBatch
    /\ rnDefer' = rnDefer \cup {r} /\ rnBatch' = rnBatch \ {r}
    /\ UNCHANGED <<wsVars, docVars, ledgerVars, live, blockVars, openRows, lock,
                   ixVars, rnPhase, rnTodo, rnScan, lastRun, rnAll, rnCur, rnOut, rnLink,
                   rnWork, rnGroup, rnRest, rnExcl, apVars, faults>>

(* write_candidate, once per placement of the chunk.                       *)
MayPlace(r) ==
    rnPhase = "batch" /\ r \in rnBatch /\ rnCur \in {NoRow, r} /\ rnLink = {}

Placing(r, outcome) ==
    /\ outcome \in Answers
    /\ MayPlace(r)
    /\ rnCur' = r /\ rnOut' = rnOut \cup {outcome}
    /\ UNCHANGED <<wsVars, docVars, ledgerVars, live, lock, ixVars, rnPhase, rnTodo,
                   rnScan, lastRun, rnAll, rnBatch, rnLink, groupVars, apVars, faults>>

(* Neither duplicate nor conflict: _insert_clean_block writes the page and *)
(* commits the block,                                                      *)
CreateBlock(r, b) ==
    /\ "placed" \in Answers
    /\ MayPlace(r)
    /\ blockStatus[b] = "none"
    /\ blockStatus' = [blockStatus EXCEPT ![b] = "current"]
    /\ blockSrc' = [blockSrc EXCEPT ![b] = r.src]
    /\ cited' = [cited EXCEPT ![b] = {r}]
    /\ rnCur' = r /\ rnLink' = {<<b, r>>}
    /\ UNCHANGED <<wsVars, docVars, ledgerVars, live, links, flagged, orphaned, openRows,
                   lock, ixVars, rnPhase, rnTodo, rnScan, lastRun, rnAll, rnBatch,
                   rnOut, groupVars, apVars, faults>>

(* and link_block_chunk commits its evidence.                              *)
link_block_chunk ==
    /\ rnLink # {} /\ rnLink' = {}
    /\ links' = links \cup rnLink
    /\ rnOut' = rnOut \cup {"placed"}
    /\ UNCHANGED <<wsVars, docVars, ledgerVars, live, blockStatus, blockSrc, cited, flagged,
                   orphaned, openRows, lock, ixVars, rnPhase, rnTodo, rnScan, lastRun,
                   rnAll, rnBatch, rnCur, groupVars, apVars, faults>>

(* Mutant: a block of any source is found a duplicate.                     *)
DuplicateOfAnySource(r, b) ==
    /\ Placing(r, "duplicate")
    /\ blockStatus[b] \notin {"none", "deleted"}
    /\ IF b \in flagged
         THEN /\ blockStatus' = [blockStatus EXCEPT ![b] = "current"]
              /\ links' = links \cup {<<b, r>>}
              /\ flagged' = flagged \ {b}
         ELSE UNCHANGED <<blockStatus, links, flagged>>
    /\ UNCHANGED <<blockSrc, cited, orphaned, openRows>>

(* Only a block of the same source can be found a duplicate; one whose     *)
(* page says needs_review is revived and takes the chunk as evidence.      *)
PlaceDuplicate(r, b) ==
    /\ Placing(r, "duplicate")
    /\ blockStatus[b] \notin {"none", "deleted"} /\ blockSrc[b] = r.src
    /\ IF b \in flagged
         THEN /\ blockStatus' = [blockStatus EXCEPT ![b] = "current"]
              /\ links' = links \cup {<<b, r>>}
              /\ flagged' = flagged \ {b}
         ELSE UNCHANGED <<blockStatus, links, flagged>>
    /\ UNCHANGED <<blockSrc, cited, orphaned, openRows>>

PlaceConflict(r, b) ==
    /\ Placing(r, "conflicted_pending")
    /\ blockStatus[b] \notin {"none", "deleted"}
    /\ openRows' = openRows \cup {[kind |-> "conflict", chunks |-> {r}, src |-> r.src,
                                   block |-> b, state |-> "new"]}
    /\ UNCHANGED blockVars

LeavesBatch(r) == rnBatch' = rnBatch \ {r} /\ rnCur' = NoRow /\ rnOut' = {}

(* _record_placement_outcomes: a conflict outranks a block written, which  *)
(* outranks a duplicate.  A row that is no longer pending raises instead,  *)
(* and BatchFails takes over.                                              *)
_record_placement_outcomes(r) ==
    /\ rnPhase = "batch" /\ rnCur = r /\ rnOut # {} /\ rnLink = {}
    /\ disp[r] = "pending"
    /\ Transition({r}, IF "conflicted_pending" \in rnOut THEN "conflicted_pending"
                       ELSE IF "placed" \in rnOut THEN "placed" ELSE "duplicate")
    /\ LeavesBatch(r)
    /\ UNCHANGED <<wsVars, docVars, live, blockVars, openRows, lock, ixVars, rnPhase,
                   rnTodo, rnScan, lastRun, rnAll, rnLink, groupVars, apVars, faults>>

(* An error of the placement itself fails the one chunk.                   *)
ChunkFails(r) ==
    /\ "error" \in Answers
    /\ MayPlace(r)
    /\ disp[r] = "pending"
    /\ mark_failed({r})
    /\ LeavesBatch(r)
    /\ UNCHANGED <<wsVars, docVars, live, blockVars, openRows, lock, ixVars, rnPhase,
                   rnTodo, rnScan, lastRun, rnAll, rnLink, groupVars, apVars, faults>>

BatchEnds ==
    /\ rnPhase' = "work" /\ rnAll' = {} /\ rnBatch' = {} /\ rnCur' = NoRow /\ rnOut' = {}
    /\ rnLink' = {}

EndBatch ==
    /\ rnPhase = "batch" /\ rnBatch = {}
    /\ BatchEnds
    /\ UNCHANGED <<wsVars, docVars, ledgerVars, live, blockVars, openRows, lock,
                   ixVars, rnTodo, rnScan, lastRun, groupVars, apVars, faults>>

(* Mutant: a failed batch goes back to the queue.                          *)
BatchRequeued ==
    /\ "error" \in Answers
    /\ rnPhase = "batch" /\ rnBatch # {} /\ rnLink = {}
    /\ rnRest' = rnRest \cup {r \in rnAll : disp[r] = "pending"}
    /\ BatchEnds
    /\ UNCHANGED <<wsVars, docVars, ledgerVars, live, blockVars, openRows, lock, ixVars,
                   rnTodo, rnScan, lastRun, rnWork, rnGroup, rnDefer, rnExcl, apVars,
                   faults>>

(* Any other exception, AgentTimeout of a model call for one: every chunk  *)
(* of the batch that is still pending fails, deferred ones included.       *)
BatchFails ==
    /\ "error" \in Answers
    /\ rnPhase = "batch" /\ rnBatch # {} /\ rnLink = {}
    /\ mark_failed({r \in rnAll : disp[r] = "pending"})
    /\ BatchEnds
    /\ UNCHANGED <<wsVars, docVars, live, blockVars, openRows, lock, ixVars, rnTodo,
                   rnScan, lastRun, groupVars, apVars, faults>>

(* PageWriteConflict: the rest of the batch stays pending.                 *)
PageConflict ==
    /\ rnPhase = "batch" /\ rnBatch # {} /\ rnLink = {}
    /\ faults < MaxFaults /\ faults' = faults + 1
    /\ BatchEnds
    /\ UNCHANGED <<wsVars, docVars, ledgerVars, live, blockVars, openRows, lock,
                   ixVars, rnTodo, rnScan, lastRun, groupVars, apVars>>

------------------------------------------------------------------------------
(* _finalize_deferred_irrelevant, when the group of a source is done.      *)
FinalizeGroup ==
    /\ rnPhase = "work" /\ rnGroup # {} /\ rnRest = {}
    /\ rnPhase' = IF Cardinality(rnDefer) * ThresholdDen
                       > ThresholdNum * Cardinality(rnGroup)
                    THEN "exclude" ELSE "irrelevant"
    /\ UNCHANGED <<wsVars, docVars, ledgerVars, live, blockVars, openRows, lock,
                   ixVars, rnTodo, rnScan, lastRun, batchVars, groupVars, apVars,
                   faults>>

DeferredAs == IF rnPhase = "exclude" THEN "exclusion_pending" ELSE "irrelevant"

MarkDeferred(r) ==
    /\ rnPhase \in {"irrelevant", "exclude"} /\ r \in rnDefer
    /\ Transition({r}, DeferredAs)
    /\ rnDefer' = rnDefer \ {r}
    /\ rnExcl' = IF rnPhase = "exclude" THEN rnExcl \cup {r} ELSE rnExcl
    /\ UNCHANGED <<wsVars, docVars, live, blockVars, openRows, lock, ixVars, rnPhase,
                   rnTodo, rnScan, lastRun, batchVars, rnWork, rnGroup, rnRest,
                   apVars, faults>>

(* All are marked; an exclusion gets its review row only now.              *)
EndGroup ==
    /\ rnPhase \in {"irrelevant", "exclude"} /\ rnDefer = {}
    /\ openRows' = IF rnPhase = "irrelevant" THEN openRows
                     ELSE openRows \cup {[kind |-> "exclusion", chunks |-> rnExcl,
                                         src |-> NoSource, block |-> NoBlock,
                                         state |-> "new"]}
    /\ rnPhase' = "work" /\ rnGroup' = {} /\ rnExcl' = {}
    /\ UNCHANGED <<wsVars, docVars, ledgerVars, live, blockVars, lock, ixVars, rnTodo,
                   rnScan, lastRun, batchVars, rnWork, rnRest, rnDefer, apVars, faults>>

(* An exception that leaves the batch loop: the run is marked aborted and  *)
(* emits no review file.                                                   *)
AbortRun ==
    /\ rnPhase' = "done" /\ lastRun' = "aborted"
    /\ openRows' = InState(openRows, "new", "lost")
    /\ rnWork' = {} /\ rnGroup' = {} /\ rnRest' = {} /\ rnDefer' = {} /\ rnExcl' = {}
    /\ UNCHANGED <<wsVars, docVars, ledgerVars, live, blockVars, lock, ixVars, rnTodo,
                   rnScan, batchVars, apVars>>

(* InvalidDispositionTransition: a deferred chunk is no longer pending.    *)
DeferredRaises ==
    /\ rnPhase \in {"irrelevant", "exclude"}
    /\ \E r \in rnDefer : DeferredAs \notin allowed_transitions(disp[r])
    /\ AbortRun
    /\ UNCHANGED faults

(* A page write conflict or a model error outside the batches: the domain  *)
(* hint before them, reviews, coverage and summaries after them.           *)
RunRaises ==
    /\ rnPhase \in {"emit", "finish"} \/ (rnPhase = "work" /\ rnGroup = {})
    /\ faults < MaxFaults /\ faults' = faults + 1
    /\ AbortRun

(* create_stale_block_reviews: a row for every needs_review block that no  *)
(* open row is about (one commit each).                                    *)
create_stale_block_reviews ==
    /\ rnPhase = "work" /\ rnGroup = {} /\ rnWork = {}
    /\ openRows' = openRows \cup
           {[kind |-> "needs_review", chunks |-> {}, src |-> NoSource, block |-> b,
            state |-> "new"] :
              b \in {c \in Blocks : blockStatus[c] = "needs_review"}
                     \ {w.block : w \in openRows}}
    /\ rnPhase' = "emit"
    /\ UNCHANGED <<wsVars, docVars, ledgerVars, live, blockVars, lock, ixVars, rnTodo,
                   rnScan, lastRun, batchVars, groupVars, apVars, faults>>

(* The review file lists the rows of this run, no others.                  *)
emit_review_file ==
    /\ rnPhase = "emit" /\ rnPhase' = "finish"
    /\ openRows' = InState(openRows, "new", "filed")
    /\ UNCHANGED <<wsVars, docVars, ledgerVars, live, blockVars, lock, ixVars, rnTodo,
                   rnScan, lastRun, batchVars, groupVars, apVars, faults>>

(* Mutant: the gate of the run counts nothing.                             *)
NothingPending == 0

(* _pending_count counts the pending rows of every version of every source.*)
_pending_count == Cardinality({r \in Row : disp[r] = "pending"})

finish_run ==
    /\ rnPhase = "finish" /\ rnPhase' = "done"
    /\ lastRun' = IF _pending_count > 0 THEN "aborted" ELSE "completed"
    /\ UNCHANGED <<wsVars, docVars, ledgerVars, live, blockVars, openRows, lock, ixVars,
                   rnTodo, rnScan, batchVars, groupVars, apVars, faults>>

ReleaseLock ==
    /\ rnPhase = "done" /\ rnPhase' = "idle" /\ lock' = "free"
    /\ rnScan' = FALSE /\ lastRun' = "none"
    /\ UNCHANGED <<wsVars, docVars, ledgerVars, live, blockVars, openRows, ixVars,
                   rnTodo, batchVars, groupVars, apVars, faults>>

------------------------------------------------------------------------------
(* apply-decisions, for the rows a review file lists.                      *)
MayApply(w, kind) ==
    /\ lock = "free" /\ w \in openRows
    /\ w.kind = kind /\ w.state = "filed"

(* _apply_staleness and _mark_applied.                                     *)
ApplyStale(w, status) ==
    /\ MayApply(w, "needs_review") /\ blockStatus[w.block] # "deleted"
    /\ status \in {"current", "deprecated"}
    /\ Decide(w.block, status)
    /\ openRows' = openRows \ {w}
    /\ UNCHANGED <<wsVars, docVars, ledgerVars, live, blockSrc, links, cited, lock, ixVars,
                   rnVars, apVars, faults>>

(* Mutant: every candidate decided about is placed.                        *)
FinalizeAsPlaced(w, affected) ==
    /\ disp' = [r \in Row |->
           IF r \in affected /\ disp[r] = "conflicted_pending" THEN "placed" ELSE disp[r]]
    /\ UNCHANGED attempts

(* _finalize_candidate_dispositions, once w is closed: the chunks of the   *)
(* candidate are settled unless another open row still waits for them.     *)
_finalize_candidate_dispositions(w, affected) ==
    LET done  == {r \in affected : /\ disp[r] = "conflicted_pending"
                                   /\ \A o \in openRows \ {w} : r \notin o.chunks}
        shown == {r \in Row : \E b \in Blocks : /\ <<b, r>> \in links'
                                                 /\ blockStatus'[b] # "deleted"}
    IN  /\ disp' = [r \in Row |-> IF r \notin done THEN disp[r]
                                 ELSE IF r \in shown THEN "placed" ELSE "duplicate"]
        /\ UNCHANGED attempts

(* _merged_candidate rests on the chunks of both, under the candidate's    *)
(* source.                                                                 *)
Merged(w) == w.chunks \cup cited[w.block]

Kept(w, decision) == IF decision = "merge" THEN Merged(w) ELSE w.chunks

(* A decision that keeps the candidate writes it, or what it is merged to, *)
(* to block n; what becomes of the existing block depends on the decision. *)
(* The statuses, the block, its links and the row are commits of their     *)
(* own, the page is written last.                                          *)
AcceptCandidate(w, n, decision) ==
    /\ MayApply(w, "conflict") /\ decision \in Decisions
    /\ blockStatus[n] = "none" /\ blockStatus[w.block] # "deleted"
    /\ blockSrc' = [blockSrc EXCEPT ![n] = w.src]
    /\ \E decided \in
           CASE decision = "accept_new" -> {{}, {w.block}}
             [] decision \in {"deprecate_existing", "merge", "mark_conflicted"} -> {{w.block}}
             [] OTHER -> {} :
         /\ blockStatus' = [b \in Blocks |->
                CASE b = n -> IF decision = "mark_conflicted" THEN "conflicted" ELSE "current"
                  [] b \in decided -> IF decision = "mark_conflicted" THEN "conflicted"
                                                                     ELSE "deprecated"
                  [] OTHER -> blockStatus[b]]
         /\ flagged' = flagged \ decided /\ orphaned' = orphaned \ decided
    /\ openRows' = openRows \ {w}
    /\ cited' = [cited EXCEPT ![n] = Kept(w, decision)]
    /\ links' = links \cup ({n} \X Kept(w, decision))
    /\ _finalize_candidate_dispositions(w, Kept(w, decision))
    /\ UNCHANGED <<wsVars, docVars, live, lock, ixVars, rnVars, apVars, faults>>

(* keep_existing and reject_new drop the candidate.                        *)
RejectCandidate(w) ==
    /\ MayApply(w, "conflict") /\ "keep_existing" \in Decisions
    /\ blockStatus[w.block] # "deleted"
    /\ openRows' = openRows \ {w}
    /\ UNCHANGED blockVars
    /\ _finalize_candidate_dispositions(w, w.chunks)
    /\ UNCHANGED <<wsVars, docVars, live, lock, ixVars, rnVars, apVars, faults>>

(* merge without an approved text deprecates the existing block and puts a *)
(* follow-up row for the merged candidate in a review file of its own.     *)
MergeCandidate(w) ==
    /\ MayApply(w, "conflict") /\ "merge" \in Decisions
    /\ blockStatus[w.block] # "deleted"
    /\ Decide(w.block, "deprecated")
    /\ openRows' = (openRows \ {w}) \cup {[w EXCEPT !.chunks = Merged(w)]}
    /\ UNCHANGED <<wsVars, docVars, ledgerVars, live, blockSrc, links, cited, lock,
                   ixVars, rnVars, apVars, faults>>

(* delete_duplicate gives every chunk of the existing block the            *)
(* disposition duplicate by a plain UPDATE; mark_duplicate of the          *)
(* candidate's chunks, which comes next, may raise at one of them and      *)
(* leave the rest undone.                                                  *)
DeleteDuplicate(w) ==
    /\ MayApply(w, "conflict") /\ "delete_duplicate" \in Decisions
    /\ blockStatus[w.block] # "deleted"
    /\ LET gone == Links(w.block)
           may  == {r \in w.chunks \ gone : "duplicate" \in allowed_transitions(disp[r])}
       IN  \E done \in IF may = w.chunks THEN {may} ELSE SUBSET may :
             /\ disp' = [r \in Row |-> IF r \in gone \cup done THEN "duplicate" ELSE disp[r]]
             /\ IF done = w.chunks
                  THEN Decide(w.block, "deleted") /\ openRows' = openRows \ {w}
                  ELSE UNCHANGED <<blockStatus, flagged, orphaned, openRows>>
    /\ UNCHANGED <<wsVars, docVars, attempts, live, blockSrc, links, cited, lock, ixVars,
                   rnVars, apVars, faults>>

(* _apply_exclusion: one transaction per chunk, then _mark_applied.        *)
StartExclusion(w, to) ==
    /\ MayApply(w, "exclusion") /\ lock' = "apply"
    /\ to \in {"irrelevant", "pending"}
    /\ apRow' = {w} /\ apTo' = to /\ apTodo' = w.chunks
    /\ UNCHANGED <<wsVars, docVars, ledgerVars, live, blockVars, openRows, ixVars,
                   rnVars, faults>>

ExcludeChunk(r) ==
    /\ apRow # {} /\ r \in apTodo
    /\ Transition({r}, apTo)
    /\ apTodo' = apTodo \ {r}
    /\ UNCHANGED <<wsVars, docVars, live, blockVars, openRows, lock, ixVars, rnVars,
                   apRow, apTo, faults>>

ApplyEnds == apRow' = {} /\ apTo' = "irrelevant" /\ apTodo' = {} /\ lock' = "free"

FinishExclusion ==
    /\ apRow # {} /\ apTodo = {}
    /\ openRows' = openRows \ apRow
    /\ ApplyEnds
    /\ UNCHANGED <<wsVars, docVars, ledgerVars, live, blockVars, ixVars, rnVars, faults>>

(* InvalidDispositionTransition: the command fails, the row stays open.    *)
ExclusionRaises ==
    /\ \E r \in apTodo : apTo \notin allowed_transitions(disp[r])
    /\ ApplyEnds
    /\ UNCHANGED <<wsVars, docVars, ledgerVars, live, blockVars, openRows, ixVars,
                   rnVars, faults>>

(* reset-dispositions: a plain UPDATE of every version's rows, attempts    *)
(* kept.                                                                   *)
reset_dispositions(s, d) ==
    /\ lock = "free" /\ d \in ResetFrom
    /\ LET R == {r \in RowsOf(s) : disp[r] = d}
       IN  /\ R # {}
           /\ disp' = [r \in Row |-> IF r \in R THEN "pending" ELSE disp[r]]
    /\ UNCHANGED <<wsVars, docVars, attempts, live, blockVars, openRows, lock, ixVars,
                   rnVars, apVars, faults>>

------------------------------------------------------------------------------
(* A process is killed.  Its lock names a dead pid, so the next process    *)
(* takes it over; what it committed stays.                                 *)
Kill(phase) ==
    /\ phase \in CrashIn
    /\ faults < MaxFaults /\ faults' = faults + 1

IndexPhase == IF ixPhase = "removed" THEN "removed" ELSE "index"

(* The server, while the watcher or the startup scan indexes.              *)
KillIndexing ==
    /\ Kill(IndexPhase)
    /\ ixBy \in {"watcher", "startup"}
    /\ lock' = IF ixBy = "watcher" THEN "free" ELSE lock
    /\ IndexEnds
    /\ UNCHANGED <<wsVars, docVars, ledgerVars, live, blockVars, openRows, rnVars, apVars>>

(* The process that runs, or indexes before it runs.                       *)
KillRun ==
    /\ rnPhase # "idle"
    /\ Kill(IF ixBy = "process" THEN IndexPhase ELSE "run")
    /\ rnPhase' = "idle" /\ rnTodo' = {} /\ rnScan' = FALSE /\ lastRun' = "none"
    /\ rnAll' = {} /\ rnBatch' = {} /\ rnCur' = NoRow /\ rnOut' = {} /\ rnLink' = {}
    /\ rnWork' = {} /\ rnGroup' = {} /\ rnRest' = {} /\ rnDefer' = {} /\ rnExcl' = {}
    /\ lock' = "free"
    /\ openRows' = InState(openRows, "new", "lost")
    /\ IF ixBy = "process" THEN IndexEnds ELSE UNCHANGED ixVars
    /\ UNCHANGED <<wsVars, docVars, ledgerVars, live, blockVars, apVars>>

KillApply ==
    /\ apRow # {} /\ Kill("apply")
    /\ ApplyEnds
    /\ UNCHANGED <<wsVars, docVars, ledgerVars, live, blockVars, openRows, ixVars, rnVars>>

------------------------------------------------------------------------------
Init ==
    /\ file \in [Sources -> Versions \cup {NoFile}] /\ edits = 0
    /\ docVer = [s \in Sources |-> NoFile] /\ removed = {} /\ synced = {}
    /\ disp = [r \in Row |-> "absent"] /\ attempts = [r \in Row |-> 0]
    /\ live = {}
    /\ blockStatus = [b \in Blocks |-> "none"] /\ blockSrc = [b \in Blocks |-> NoSource]
    /\ links = {} /\ cited = [b \in Blocks |-> {}]
    /\ flagged = {} /\ orphaned = {} /\ openRows = {} /\ lock = "free"
    /\ ixPhase = "idle" /\ ixBy = "none" /\ ixSrc = NoSource /\ ixOrd = 1
    /\ ixTodo = {} /\ ixChanged = FALSE
    /\ rnPhase = "idle" /\ rnTodo = {} /\ rnScan = FALSE /\ lastRun = "none"
    /\ rnAll = {} /\ rnBatch = {} /\ rnCur = NoRow /\ rnOut = {} /\ rnLink = {}
    /\ rnWork = {} /\ rnGroup = {} /\ rnRest = {} /\ rnDefer = {} /\ rnExcl = {}
    /\ apRow = {} /\ apTo = "irrelevant" /\ apTodo = {}
    /\ faults = 0

Indexing ==
    \/ \E s \in Sources, by \in {"watcher", "process", "startup"} :
           BeginIndex(s, by) \/ BeginDelete(s, by)
    \/ ReplaceChunks \/ SeedChunk \/ MarkRemoved \/ FlagBlocks
    \/ \E r \in Row : mark_superseded(r)

Batching ==
    \/ \E s \in Sources : StartGroup(s)
    \/ StartBatch \/ link_block_chunk \/ EndBatch \/ BatchFails \/ PageConflict
    \/ \E r \in Row : DeferIrrelevant(r) \/ _record_placement_outcomes(r) \/ ChunkFails(r)
    \/ \E r \in Row, b \in Blocks :
           CreateBlock(r, b) \/ PlaceDuplicate(r, b) \/ PlaceConflict(r, b)

Running ==
    \/ FinishScan \/ StartRun \/ Batching
    \/ FinalizeGroup \/ EndGroup \/ DeferredRaises \/ RunRaises
    \/ \E r \in Row : MarkDeferred(r)
    \/ create_stale_block_reviews \/ emit_review_file \/ finish_run \/ ReleaseLock

Applying ==
    \/ \E w \in openRows :
          \/ \E status \in {"current", "deprecated"} : ApplyStale(w, status)
          \/ \E n \in Blocks, d \in Decisions : AcceptCandidate(w, n, d)
          \/ RejectCandidate(w) \/ MergeCandidate(w) \/ DeleteDuplicate(w)
          \/ \E to \in {"irrelevant", "pending"} : StartExclusion(w, to)
    \/ \E r \in Row : ExcludeChunk(r)
    \/ FinishExclusion \/ ExclusionRaises

Next ==
    \/ \E s \in Sources, v \in Versions \cup {NoFile} : EditFile(s, v)
    \/ Indexing
    \/ BeginProcess \/ BeginAuto \/ BeginReindex \/ Running
    \/ Applying
    \/ \E s \in Sources, d \in ResetFrom : reset_dispositions(s, d)
    \/ KillIndexing \/ KillRun \/ KillApply

Spec == Init /\ [][Next]_vars

(* A process that started and is not killed goes on.                       *)
FairSpec == Spec /\ WF_vars(Indexing /\ ixPhase # "idle") /\ WF_vars(Running)
                 /\ WF_vars(\E s \in Sources : BeginIndex(s, "process")
                                              \/ BeginDelete(s, "process"))
==============================================================================
