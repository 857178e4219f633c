------------------------- MODULE SourceLedger_proofs -------------------------
(***************************************************************************)
(* Theorems about SourceLedger, for every value of its constants: types,   *)
(* attempts, the blocks of placed chunks, and the lifecycle of a chunk.    *)
(*                                                                         *)
(* Then what indexing, runs and decisions may rely on of one another: the  *)
(* lock keeps them apart, a run owns the rows it works on, an index job    *)
(* that ended leaves no stale evidence, and a completed run has dealt with *)
(* all chunks and all stale blocks.                                        *)
(***************************************************************************)
EXTENDS LedgerProperties, FiniteSetTheorems, TLAPS

(* What is known of a chunk's place in its text (core/ingest.py).          *)
LEMMA LenContent == ASSUME NEW v \in Versions PROVE Len(Content[v]) \in 0..MaxChunks
  BY ContentAssumption

(* The last ordinal of a text is within the bound on chunks. *)
LEMMA LastOrdInText ==
  ASSUME TypeOK, ixPhase \in {"document", "create", "reconcile"}
  PROVE  LastOrd \in 0..MaxChunks
  BY LenContent DEF TypeOK, IndexInText, LastOrd

(* A seeded row is a row of the ledger. *)
LEMMA RowOfSeed ==
  ASSUME TypeOK, ixPhase = "create", NEW i \in 1..LastOrd
  PROVE  SeedRow(i) \in Row
<1>1. ixSrc \in Sources /\ docVer[ixSrc] \in Versions
  BY DEF TypeOK, IndexInText
<1>2. i \in 1..MaxChunks /\ i <= Len(Content[docVer[ixSrc]])
  BY LastOrdInText, ContentAssumption DEF LastOrd
<1> QED
  BY <1>1, <1>2 DEF SeedRow, Row

(* So are the rows of a whole text. *)
LEMMA SeedRowsAreRows ==
  ASSUME TypeOK, ixPhase = "create"
  PROVE  Inserted \subseteq Row /\ CopiedNow \subseteq Row
  BY RowOfSeed DEF Inserted, CopiedNow

(* A review row changes its state and nothing else.                        *)
LEMMA InStateRows ==
  ASSUME NEW R, R \subseteq ReviewRow, NEW from, NEW to \in {"new", "filed", "lost"}
  PROVE  InState(R, from, to) \subseteq ReviewRow
  BY DEF InState, ReviewRow

(* A decision about a conflict keeps chunks of the ledger.                 *)
LEMMA KeptRows ==
  ASSUME TypeOK, NEW w \in openRows, w.kind = "conflict", NEW d
  PROVE  /\ w.block \in Blocks /\ w.src \in Sources
         /\ Merged(w) \subseteq Row /\ Kept(w, d) \subseteq Row
<1>1. w \in ReviewRow
  BY DEF TypeOK, ReviewType
<1>2. w.block \in Blocks /\ w.src \in Sources /\ w.chunks \subseteq Row
  BY <1>1 DEF ReviewRow
<1> QED
  BY <1>2 DEF TypeOK, BlockType, Merged, Kept

(* The first ordinal is within the bound of the counter. *)
LEMMA FirstOrd == 1 \in 1..MaxChunks + 1
  BY ContentAssumption

(* The ledger starts within its types. *)
LEMMA TypeInit == Init => TypeOK
<1> SUFFICES ASSUME Init PROVE TypeOK
  OBVIOUS
<1>1. WorkspaceType
  BY SourceLedgerAssumption DEF WorkspaceType, Init
<1>2. LedgerType
  BY DEF LedgerType, Init, RowState
<1>3. BlockType
  BY DEF BlockType, Init, BlockStatus
<1>4. ReviewType
  BY DEF ReviewType, Init
<1>5. IndexType
  BY FirstOrd DEF IndexType, Init
<1>6. RunType
  BY DEF RunType, Init
<1>7. BatchType
  BY DEF BatchType, Init
<1>8. IndexInText
  BY DEF IndexInText, Init
<1> QED
  BY <1>1, <1>2, <1>3, <1>4, <1>5, <1>6, <1>7, <1>8 DEF TypeOK

(* Indexing stays within the types. *)
LEMMA TypeIndexing == TypeOK /\ Indexing => TypeOK'
<1> SUFFICES ASSUME TypeOK, Indexing PROVE TypeOK'
  OBVIOUS
<1> USE DEF TypeOK, wsVars, docVars, ledgerVars, blockVars, ixVars, batchVars, groupVars, rnVars, apVars
<1>1. ASSUME NEW s \in Sources, NEW by \in {"watcher", "process", "startup"}, BeginIndex(s, by)
      PROVE  TypeOK'
  <2>1. (LedgerType /\ BlockType /\ ReviewType /\ RunType /\ BatchType)'
    BY <1>1 DEF BeginIndex, LedgerType, BlockType, ReviewType, RunType, BatchType
  <2>2. WorkspaceType'
    BY SourceLedgerAssumption, <1>1 DEF WorkspaceType, BeginIndex, LockFor, MayIndex
  <2>3. IndexType'
    BY FirstOrd, <1>1 DEF IndexType, BeginIndex, LockFor, MayIndex
  <2>4. IndexInText'
    BY <1>1 DEF IndexInText, BeginIndex, LockFor, MayIndex, WorkspaceType
  <2> QED
    BY <2>1, <2>2, <2>3, <2>4
<1>2. ASSUME NEW s \in Sources, NEW by \in {"watcher", "process", "startup"}, BeginDelete(s, by)
      PROVE  TypeOK'
  <2>1. (LedgerType /\ BlockType /\ ReviewType /\ RunType /\ BatchType)'
    BY <1>2 DEF BeginDelete, LedgerType, BlockType, ReviewType, RunType, BatchType
  <2>2. WorkspaceType'
    BY SourceLedgerAssumption, <1>2 DEF WorkspaceType, BeginDelete, LockFor,
       MayIndex, RowsOf
  <2>3. IndexType'
    BY FirstOrd, <1>2 DEF IndexType, BeginDelete, LockFor, MayIndex, RowsOf
  <2>4. IndexInText'
    BY <1>2 DEF IndexInText, BeginDelete, LockFor, MayIndex, RowsOf
  <2> QED
    BY <2>1, <2>2, <2>3, <2>4
<1>3. CASE ReplaceChunks
  <2>1. (WorkspaceType /\ BlockType /\ ReviewType /\ RunType /\ BatchType)'
    BY <1>3 DEF ReplaceChunks, WorkspaceType, BlockType, ReviewType, RunType, BatchType
  <2>2. LedgerType'
    BY <1>3 DEF LedgerType, ReplaceChunks, RowState
  <2>3. IndexType'
    BY FirstOrd, <1>3 DEF IndexType, ReplaceChunks
  <2>4. IndexInText'
    <3>1. LastOrd' = LastOrd /\ 0 <= LastOrd
      BY LastOrdInText, <1>3 DEF ReplaceChunks, LastOrd
    <3> QED
      BY <3>1, LastOrdInText, <1>3 DEF IndexInText, ReplaceChunks
  <2> QED
    BY <2>1, <2>2, <2>3, <2>4
<1>4. CASE SeedChunk
  <2>1. (WorkspaceType /\ ReviewType /\ RunType /\ BatchType)'
    BY <1>4 DEF SeedChunk, WorkspaceType, ReviewType, RunType, BatchType
  <2>2. LedgerType'
    <3>1. PICK from \in [CopiedNow -> Row] :
            /\ disp' = [r \in Row |->
                   IF r \in CopiedNow THEN disp[from[r]]
                   ELSE IF r \in Inserted /\ disp[r] = "absent" THEN "pending"
                   ELSE disp[r]]
            /\ attempts' = [r \in Row |-> IF r \in CopiedNow THEN attempts[from[r]]
                                                            ELSE attempts[r]]
      BY <1>4 DEF SeedChunk
    <3>2. live' = live \cup Inserted
      BY <1>4 DEF SeedChunk
    <3> QED
      BY <3>1, <3>2, SeedRowsAreRows, <1>4 DEF LedgerType, RowState, Disposition,
         SeedChunk
  <2>3. BlockType'
    <3>1. links' \subseteq Blocks \X Row
      BY <1>4, SeedRowsAreRows DEF SeedChunk, CopiedLinks, BlockType
    <3> QED
      BY <1>4, <3>1 DEF BlockType, SeedChunk
  <2>4. IndexType'
    <3>1. StaleRows(ixSrc) \subseteq Row
      BY DEF StaleRows, RowsOf
    <3>2. LastOrd \in Nat /\ LastOrd <= MaxChunks /\ MaxChunks \in Nat
      BY <1>4, LastOrdInText, ContentAssumption DEF SeedChunk
    <3>3. CASE ixOrd > LastOrd
      BY <1>4, <3>1, <3>3 DEF IndexType, SeedChunk
    <3>4. CASE ~(ixOrd > LastOrd)
      BY <1>4, <3>2, <3>4 DEF IndexType, SeedChunk
    <3> QED
      BY <3>3, <3>4
  <2>5. IndexInText'
    <3>1. LastOrd \in Nat /\ LastOrd' = LastOrd
      BY <1>4, LastOrdInText DEF SeedChunk, LastOrd
    <3>2. CASE ixOrd > LastOrd
      BY <1>4, <3>2 DEF IndexInText, SeedChunk
    <3>3. CASE ~(ixOrd > LastOrd)
      BY <1>4, <3>1, <3>3 DEF IndexInText, IndexType, SeedChunk
    <3> QED
      BY <3>2, <3>3
  <2> QED
    BY <2>1, <2>2, <2>3, <2>4, <2>5
<1>5. CASE MarkRemoved
  <2>1. (LedgerType /\ BlockType /\ ReviewType /\ RunType /\ BatchType)'
    BY <1>5 DEF MarkRemoved, LedgerType, BlockType, ReviewType, RunType, BatchType
  <2>2. WorkspaceType'
    BY SourceLedgerAssumption, <1>5 DEF WorkspaceType, MarkRemoved, IndexInText
  <2>3. IndexType'
    BY FirstOrd, <1>5 DEF IndexType, MarkRemoved
  <2>4. IndexInText'
    BY <1>5 DEF IndexInText, MarkRemoved
  <2> QED
    BY <2>1, <2>2, <2>3, <2>4
<1>6. CASE FlagBlocks
  <2>1. (LedgerType /\ ReviewType /\ BatchType)'
    BY <1>6 DEF FlagBlocks, LedgerType, ReviewType, BatchType
  <2>2. WorkspaceType'
    BY SourceLedgerAssumption, <1>6 DEF WorkspaceType, FlagBlocks, IndexEnds,
       IndexInText
  <2>3. BlockType'
    BY <1>6 DEF BlockType, FlagBlocks, BlockStatus
  <2>4. IndexType'
    BY FirstOrd, <1>6 DEF IndexType, FlagBlocks, IndexEnds
  <2>5. RunType'
    BY <1>6 DEF RunType, FlagBlocks, IndexEnds
  <2>6. IndexInText'
    BY <1>6 DEF IndexInText, FlagBlocks, IndexEnds
  <2> QED
    BY <2>1, <2>2, <2>3, <2>4, <2>5, <2>6
<1>7. ASSUME NEW r \in Row, mark_superseded(r) PROVE TypeOK'
  <2>1. (WorkspaceType /\ ReviewType /\ RunType /\ BatchType /\ IndexInText)'
    BY <1>7 DEF mark_superseded, WorkspaceType, ReviewType, RunType, BatchType,
       IndexInText, LastOrd
  <2>2. LedgerType'
    BY <1>7 DEF LedgerType, mark_superseded, Transition, Disposition, RowState
  <2>3. BlockType'
    BY <1>7 DEF BlockType, mark_superseded, Transition, BlockStatus
  <2>4. IndexType'
    BY FirstOrd, <1>7 DEF IndexType, mark_superseded, Transition
  <2> QED
    BY <2>1, <2>2, <2>3, <2>4
<1> QED
  BY <1>1, <1>2, <1>3, <1>4, <1>5, <1>6, <1>7 DEF Indexing

(* So does making batches. *)
LEMMA TypeBatching == TypeOK /\ Batching => TypeOK'
<1> SUFFICES ASSUME TypeOK, Batching PROVE TypeOK'
  OBVIOUS
<1> USE DEF TypeOK, wsVars, docVars, ledgerVars, blockVars, ixVars, batchVars, groupVars, rnVars, apVars
<1>1. ASSUME NEW s \in Sources, StartGroup(s) PROVE TypeOK'
  <2>1. (WorkspaceType /\ LedgerType /\ BlockType /\ ReviewType /\ IndexType /\ BatchType /\ IndexInText)'
    BY <1>1 DEF StartGroup, WorkspaceType, LedgerType, BlockType, ReviewType,
       IndexType, BatchType, IndexInText, LastOrd
  <2>2. RunType'
    BY <1>1 DEF RunType, StartGroup
  <2> QED
    BY <2>1, <2>2
<1>2. CASE StartBatch
  <2>1. (WorkspaceType /\ LedgerType /\ BlockType /\ ReviewType /\ IndexType /\ IndexInText)'
    BY <1>2 DEF StartBatch, WorkspaceType, LedgerType, BlockType, ReviewType,
       IndexType, IndexInText, LastOrd
  <2>2. RunType'
    BY <1>2 DEF RunType, StartBatch
  <2>3. BatchType'
    BY <1>2 DEF BatchType, StartBatch, RunType
  <2> QED
    BY <2>1, <2>2, <2>3
<1>3. CASE EndBatch
  <2>1. (WorkspaceType /\ LedgerType /\ BlockType /\ ReviewType /\ IndexType /\ IndexInText)'
    BY <1>3 DEF EndBatch, WorkspaceType, LedgerType, BlockType, ReviewType,
       IndexType, IndexInText, LastOrd
  <2>2. RunType'
    BY <1>3 DEF RunType, EndBatch, BatchEnds
  <2>3. BatchType'
    BY <1>3 DEF BatchType, EndBatch, BatchEnds
  <2> QED
    BY <2>1, <2>2, <2>3
<1>4. CASE BatchFails
  <2>1. (WorkspaceType /\ BlockType /\ ReviewType /\ IndexType /\ IndexInText)'
    BY <1>4 DEF BatchFails, WorkspaceType, BlockType, ReviewType, IndexType,
       IndexInText, LastOrd
  <2>2. LedgerType'
    BY <1>4 DEF LedgerType, BatchFails, mark_failed, FailedAs, Disposition, RowState
  <2>3. RunType'
    BY <1>4 DEF RunType, BatchFails, BatchEnds
  <2>4. BatchType'
    BY <1>4 DEF BatchType, BatchFails, BatchEnds
  <2> QED
    BY <2>1, <2>2, <2>3, <2>4
<1>5. CASE PageConflict
  <2>1. (LedgerType /\ BlockType /\ ReviewType /\ IndexType /\ IndexInText)'
    BY <1>5 DEF PageConflict, LedgerType, BlockType, ReviewType, IndexType,
       IndexInText, LastOrd
  <2>2. WorkspaceType'
    BY SourceLedgerAssumption, <1>5 DEF WorkspaceType, PageConflict, BatchEnds
  <2>3. RunType'
    BY <1>5 DEF RunType, PageConflict, BatchEnds
  <2>4. BatchType'
    BY <1>5 DEF BatchType, PageConflict, BatchEnds
  <2> QED
    BY <2>1, <2>2, <2>3, <2>4
<1>6. ASSUME NEW r \in Row, DeferIrrelevant(r) PROVE TypeOK'
  <2>1. (WorkspaceType /\ LedgerType /\ BlockType /\ ReviewType /\ IndexType /\ IndexInText)'
    BY <1>6 DEF DeferIrrelevant, WorkspaceType, LedgerType, BlockType, ReviewType,
       IndexType, IndexInText, LastOrd
  <2>2. RunType'
    BY <1>6 DEF RunType, DeferIrrelevant
  <2>3. BatchType'
    BY <1>6 DEF BatchType, DeferIrrelevant
  <2> QED
    BY <2>1, <2>2, <2>3
<1>7. ASSUME NEW r \in Row, _record_placement_outcomes(r) PROVE TypeOK'
  <2>1. (WorkspaceType /\ BlockType /\ ReviewType /\ IndexType /\ RunType /\ IndexInText)'
    BY <1>7 DEF _record_placement_outcomes, WorkspaceType, BlockType, ReviewType,
       IndexType, RunType, IndexInText, LastOrd
  <2>2. LedgerType'
    BY <1>7 DEF LedgerType, _record_placement_outcomes, Transition, Disposition,
       LeavesBatch, RowState
  <2>3. BatchType'
    BY <1>7 DEF BatchType, _record_placement_outcomes, Transition, LeavesBatch
  <2> QED
    BY <2>1, <2>2, <2>3
<1>8. ASSUME NEW r \in Row, ChunkFails(r) PROVE TypeOK'
  <2>1. (WorkspaceType /\ BlockType /\ ReviewType /\ IndexType /\ RunType /\ IndexInText)'
    BY <1>8 DEF ChunkFails, WorkspaceType, BlockType, ReviewType, IndexType,
       RunType, IndexInText, LastOrd
  <2>2. LedgerType'
    BY <1>8 DEF LedgerType, ChunkFails, mark_failed, FailedAs, Disposition,
       LeavesBatch, RowState
  <2>3. BatchType'
    BY <1>8 DEF BatchType, ChunkFails, LeavesBatch
  <2> QED
    BY <2>1, <2>2, <2>3
<1>9. ASSUME NEW r \in Row, NEW b \in Blocks, CreateBlock(r, b) PROVE TypeOK'
  <2>1. (WorkspaceType /\ LedgerType /\ ReviewType /\ IndexType /\ RunType /\ IndexInText)'
    BY <1>9 DEF CreateBlock, WorkspaceType, LedgerType, ReviewType, IndexType,
       RunType, IndexInText, LastOrd
  <2>2. BlockType'
    BY <1>9 DEF BlockType, CreateBlock, MayPlace, Row, BlockStatus
  <2>3. BatchType'
    BY <1>9 DEF BatchType, CreateBlock, MayPlace, Row
  <2> QED
    BY <2>1, <2>2, <2>3
<1>10. CASE link_block_chunk
  <2>1. (WorkspaceType /\ LedgerType /\ ReviewType /\ IndexType /\ RunType /\ IndexInText)'
    BY <1>10 DEF link_block_chunk, WorkspaceType, LedgerType, ReviewType, IndexType,
       RunType, IndexInText, LastOrd
  <2>2. BlockType'
    BY <1>10 DEF BlockType, link_block_chunk, BatchType, BlockStatus
  <2>3. BatchType'
    BY <1>10 DEF BatchType, link_block_chunk
  <2> QED
    BY <2>1, <2>2, <2>3
<1>11. ASSUME NEW r \in Row, NEW b \in Blocks, PlaceDuplicate(r, b) PROVE TypeOK'
  <2>1. (WorkspaceType /\ LedgerType /\ ReviewType /\ IndexType /\ RunType /\ IndexInText)'
    BY <1>11 DEF PlaceDuplicate, Placing, WorkspaceType, LedgerType, ReviewType,
       IndexType, RunType, IndexInText, LastOrd
  <2>2. BlockType'
    BY <1>11 DEF BlockType, PlaceDuplicate, Placing, BlockStatus
  <2>3. BatchType'
    BY <1>11 DEF BatchType, PlaceDuplicate, Placing
  <2> QED
    BY <2>1, <2>2, <2>3
<1>12. ASSUME NEW r \in Row, NEW b \in Blocks, PlaceConflict(r, b) PROVE TypeOK'
  <2>1. (WorkspaceType /\ LedgerType /\ BlockType /\ IndexType /\ RunType /\ IndexInText)'
    BY <1>12 DEF PlaceConflict, Placing, WorkspaceType, LedgerType, BlockType,
       IndexType, RunType, IndexInText, LastOrd
  <2>2. ReviewType'
    BY SourceLedgerAssumption, <1>12 DEF ReviewType, PlaceConflict, Placing,
       ReviewRow, Row
  <2>3. BatchType'
    BY <1>12 DEF BatchType, PlaceConflict, Placing
  <2> QED
    BY <2>1, <2>2, <2>3
<1> QED
  BY <1>1, <1>2, <1>3, <1>4, <1>5, <1>6, <1>7, <1>8, <1>9, <1>10, <1>11, <1>12 DEF
     Batching

(* So does a run. *)
LEMMA TypeRunning == TypeOK /\ Running => TypeOK'
<1> SUFFICES ASSUME TypeOK, Running PROVE TypeOK'
  OBVIOUS
<1> USE DEF TypeOK, wsVars, docVars, ledgerVars, blockVars, ixVars, batchVars, groupVars, rnVars, apVars
<1>1. CASE FinishScan
  <2>1. (WorkspaceType /\ LedgerType /\ BlockType /\ ReviewType /\ BatchType /\ IndexInText)'
    BY <1>1 DEF FinishScan, WorkspaceType, LedgerType, BlockType, ReviewType,
       BatchType, IndexInText, LastOrd
  <2>2. IndexType'
    BY FirstOrd, <1>1 DEF IndexType, FinishScan
  <2>3. RunType'
    BY <1>1 DEF RunType, FinishScan
  <2> QED
    BY <2>1, <2>2, <2>3
<1>2. CASE StartRun
  <2>1. (WorkspaceType /\ ReviewType /\ IndexType /\ BatchType /\ IndexInText)'
    BY <1>2 DEF StartRun, WorkspaceType, ReviewType, IndexType, BatchType,
       IndexInText, LastOrd
  <2>2. LedgerType'
    BY <1>2 DEF LedgerType, StartRun, Transition, Disposition, _worklist, RowState
  <2>3. BlockType'
    BY <1>2 DEF BlockType, StartRun, Transition, _worklist, BlockStatus
  <2>4. RunType'
    BY <1>2 DEF RunType, StartRun, Transition, _worklist, LedgerType
  <2> QED
    BY <2>1, <2>2, <2>3, <2>4
<1>3. CASE FinalizeGroup
  <2>1. (WorkspaceType /\ LedgerType /\ BlockType /\ ReviewType /\ IndexType /\ BatchType /\ IndexInText)'
    BY <1>3 DEF FinalizeGroup, WorkspaceType, LedgerType, BlockType, ReviewType,
       IndexType, BatchType, IndexInText, LastOrd
  <2>2. RunType'
    BY <1>3 DEF RunType, FinalizeGroup
  <2> QED
    BY <2>1, <2>2
<1>4. CASE EndGroup
  <2>1. (WorkspaceType /\ LedgerType /\ BlockType /\ IndexType /\ BatchType /\ IndexInText)'
    BY <1>4 DEF EndGroup, WorkspaceType, LedgerType, BlockType, IndexType,
       BatchType, IndexInText, LastOrd
  <2>2. ReviewType'
    BY <1>4 DEF ReviewType, EndGroup, ReviewRow, RunType
  <2>3. RunType'
    BY <1>4 DEF RunType, EndGroup
  <2> QED
    BY <2>1, <2>2, <2>3
<1>5. CASE DeferredRaises
  <2>1. (WorkspaceType /\ LedgerType /\ BlockType /\ IndexType /\ BatchType /\ IndexInText)'
    BY <1>5 DEF DeferredRaises, AbortRun, WorkspaceType, LedgerType, BlockType,
       IndexType, BatchType, IndexInText, LastOrd
  <2>2. ReviewType'
    BY InStateRows, <1>5 DEF ReviewType, DeferredRaises, AbortRun
  <2>3. RunType'
    BY <1>5 DEF RunType, DeferredRaises, AbortRun
  <2> QED
    BY <2>1, <2>2, <2>3
<1>6. CASE RunRaises
  <2>1. (LedgerType /\ BlockType /\ IndexType /\ BatchType /\ IndexInText)'
    BY <1>6 DEF RunRaises, AbortRun, LedgerType, BlockType, IndexType, BatchType,
       IndexInText, LastOrd
  <2>2. WorkspaceType'
    BY SourceLedgerAssumption, <1>6 DEF WorkspaceType, RunRaises, AbortRun
  <2>3. ReviewType'
    BY InStateRows, <1>6 DEF ReviewType, RunRaises, AbortRun
  <2>4. RunType'
    BY <1>6 DEF RunType, RunRaises, AbortRun
  <2> QED
    BY <2>1, <2>2, <2>3, <2>4
<1>7. ASSUME NEW r \in Row, MarkDeferred(r) PROVE TypeOK'
  <2>1. (WorkspaceType /\ BlockType /\ ReviewType /\ IndexType /\ BatchType /\ IndexInText)'
    BY <1>7 DEF MarkDeferred, WorkspaceType, BlockType, ReviewType, IndexType,
       BatchType, IndexInText, LastOrd
  <2>2. LedgerType'
    BY <1>7 DEF LedgerType, MarkDeferred, Transition, DeferredAs, Disposition, RowState
  <2>3. RunType'
    BY <1>7 DEF RunType, MarkDeferred, Transition
  <2> QED
    BY <2>1, <2>2, <2>3
<1>8. CASE create_stale_block_reviews
  <2>1. (WorkspaceType /\ LedgerType /\ BlockType /\ IndexType /\ BatchType /\ IndexInText)'
    BY <1>8 DEF create_stale_block_reviews, WorkspaceType, LedgerType, BlockType,
       IndexType, BatchType, IndexInText, LastOrd
  <2>2. ReviewType'
    BY SourceLedgerAssumption, <1>8 DEF ReviewType, create_stale_block_reviews,
       ReviewRow
  <2>3. RunType'
    BY <1>8 DEF RunType, create_stale_block_reviews
  <2> QED
    BY <2>1, <2>2, <2>3
<1>9. CASE emit_review_file
  <2>1. (WorkspaceType /\ LedgerType /\ BlockType /\ IndexType /\ BatchType /\ IndexInText)'
    BY <1>9 DEF emit_review_file, WorkspaceType, LedgerType, BlockType, IndexType,
       BatchType, IndexInText, LastOrd
  <2>2. ReviewType'
    BY InStateRows, <1>9 DEF ReviewType, emit_review_file
  <2>3. RunType'
    BY <1>9 DEF RunType, emit_review_file
  <2> QED
    BY <2>1, <2>2, <2>3
<1>10. CASE finish_run
  <2>1. (WorkspaceType /\ LedgerType /\ BlockType /\ ReviewType /\ IndexType /\ BatchType /\ IndexInText)'
    BY <1>10 DEF finish_run, WorkspaceType, LedgerType, BlockType, ReviewType,
       IndexType, BatchType, IndexInText, LastOrd
  <2>2. RunType'
    BY <1>10 DEF RunType, finish_run
  <2> QED
    BY <2>1, <2>2
<1>11. CASE ReleaseLock
  <2>1. (WorkspaceType /\ LedgerType /\ BlockType /\ ReviewType /\ BatchType /\ IndexInText)'
    BY <1>11 DEF ReleaseLock, WorkspaceType, LedgerType, BlockType, ReviewType,
       BatchType, IndexInText, LastOrd
  <2>2. IndexType'
    BY FirstOrd, <1>11 DEF IndexType, ReleaseLock
  <2>3. RunType'
    BY <1>11 DEF RunType, ReleaseLock
  <2> QED
    BY <2>1, <2>2, <2>3
<1> QED
  BY TypeBatching, <1>1, <1>2, <1>3, <1>4, <1>5, <1>6, <1>7, <1>8, <1>9, <1>10,
     <1>11 DEF Running

(* So does applying decisions. *)
LEMMA TypeApplying == TypeOK /\ Applying => TypeOK'
<1> SUFFICES ASSUME TypeOK, Applying PROVE TypeOK'
  OBVIOUS
<1> USE DEF TypeOK, wsVars, docVars, ledgerVars, blockVars, ixVars, batchVars, groupVars, rnVars, apVars
<1>1. ASSUME NEW w \in openRows, NEW status \in {"current", "deprecated"}, ApplyStale(w, status)
      PROVE  TypeOK'
  <2>1. (WorkspaceType /\ LedgerType /\ IndexType /\ RunType /\ BatchType /\ IndexInText)'
    BY <1>1 DEF ApplyStale, WorkspaceType, LedgerType, IndexType, RunType,
       BatchType, IndexInText, LastOrd
  <2>2. BlockType'
    BY <1>1 DEF BlockType, ApplyStale, Decide, BlockStatus
  <2>3. ReviewType'
    BY <1>1 DEF ReviewType, ApplyStale, MayApply, ReviewRow
  <2> QED
    BY <2>1, <2>2, <2>3
<1>2. ASSUME NEW w \in openRows, NEW n \in Blocks, NEW d \in Decisions, AcceptCandidate(w, n, d)
      PROVE  TypeOK'
  <2>1. (WorkspaceType /\ IndexType /\ RunType /\ BatchType /\ IndexInText)'
    BY <1>2 DEF AcceptCandidate, WorkspaceType, IndexType, RunType, BatchType,
       IndexInText, LastOrd
  <2>2. LedgerType'
    BY <1>2 DEF LedgerType, AcceptCandidate, _finalize_candidate_dispositions,
       Disposition, Kept, RowState
  <2>3. BlockType'
    <3>1. w.kind = "conflict"
      BY <1>2 DEF AcceptCandidate, MayApply
    <3>2. Kept(w, d) \subseteq Row /\ w.src \in Sources
      BY <3>1, KeptRows
    <3>3. links' \subseteq Blocks \X Row /\ cited' \in [Blocks -> SUBSET Row]
      BY <1>2, <3>2 DEF BlockType, AcceptCandidate
    <3> QED
      BY <1>2, <3>2, <3>3 DEF BlockType, AcceptCandidate, BlockStatus
  <2>4. ReviewType'
    BY <1>2 DEF ReviewType, AcceptCandidate, MayApply, ReviewRow,
       _finalize_candidate_dispositions, Kept
  <2> QED
    BY <2>1, <2>2, <2>3, <2>4
<1>3. ASSUME NEW w \in openRows, RejectCandidate(w) PROVE TypeOK'
  <2>1. (WorkspaceType /\ BlockType /\ IndexType /\ RunType /\ BatchType /\ IndexInText)'
    BY <1>3 DEF RejectCandidate, WorkspaceType, BlockType, IndexType, RunType,
       BatchType, IndexInText, LastOrd
  <2>2. LedgerType'
    BY <1>3 DEF LedgerType, RejectCandidate, _finalize_candidate_dispositions,
       Disposition, RowState
  <2>3. ReviewType'
    BY <1>3 DEF ReviewType, RejectCandidate
  <2> QED
    BY <2>1, <2>2, <2>3
<1>4. ASSUME NEW w \in openRows, MergeCandidate(w) PROVE TypeOK'
  <2>1. (WorkspaceType /\ LedgerType /\ IndexType /\ RunType /\ BatchType /\ IndexInText)'
    BY <1>4 DEF MergeCandidate, WorkspaceType, LedgerType, IndexType, RunType,
       BatchType, IndexInText, LastOrd
  <2>2. BlockType'
    BY <1>4 DEF BlockType, MergeCandidate, Decide, BlockStatus
  <2>3. ReviewType'
    <3>1. w.kind = "conflict" /\ w \in ReviewRow
      BY <1>4 DEF MergeCandidate, MayApply, ReviewType
    <3>2. Merged(w) \subseteq Row
      BY <3>1, KeptRows
    <3>3. [w EXCEPT !.chunks = Merged(w)] \in ReviewRow
      BY <3>1, <3>2 DEF ReviewRow
    <3> QED
      BY <1>4, <3>3 DEF ReviewType, MergeCandidate
  <2> QED
    BY <2>1, <2>2, <2>3
<1>5. ASSUME NEW w \in openRows, DeleteDuplicate(w) PROVE TypeOK'
  <2>1. (WorkspaceType /\ IndexType /\ RunType /\ BatchType /\ IndexInText)'
    BY <1>5 DEF DeleteDuplicate, WorkspaceType, IndexType, RunType, BatchType,
       IndexInText, LastOrd
  <2>2. LedgerType'
    BY <1>5 DEF LedgerType, DeleteDuplicate, Disposition, RowState
  <2>3. BlockType'
    BY <1>5 DEF BlockType, DeleteDuplicate, Decide, BlockStatus
  <2>4. ReviewType'
    BY <1>5 DEF ReviewType, DeleteDuplicate
  <2> QED
    BY <2>1, <2>2, <2>3, <2>4
<1>6. ASSUME NEW w \in openRows, NEW to \in {"irrelevant", "pending"}, StartExclusion(w, to)
      PROVE  TypeOK'
  <2>1. (WorkspaceType /\ LedgerType /\ BlockType /\ RunType /\ BatchType /\ IndexInText)'
    BY <1>6 DEF StartExclusion, WorkspaceType, LedgerType, BlockType, RunType,
       BatchType, IndexInText, LastOrd
  <2>2. ReviewType'
    BY <1>6 DEF ReviewType, StartExclusion, MayApply, ReviewRow
  <2>3. IndexType'
    BY FirstOrd, <1>6 DEF IndexType, StartExclusion, MayApply
  <2> QED
    BY <2>1, <2>2, <2>3
<1>7. ASSUME NEW r \in Row, ExcludeChunk(r) PROVE TypeOK'
  <2>1. (WorkspaceType /\ BlockType /\ IndexType /\ RunType /\ BatchType /\ IndexInText)'
    BY <1>7 DEF ExcludeChunk, WorkspaceType, BlockType, IndexType, RunType,
       BatchType, IndexInText, LastOrd
  <2>2. LedgerType'
    BY <1>7 DEF LedgerType, ExcludeChunk, Transition, Disposition, ReviewType, RowState
  <2>3. ReviewType'
    BY <1>7 DEF ReviewType, ExcludeChunk, Transition
  <2> QED
    BY <2>1, <2>2, <2>3
<1>8. CASE FinishExclusion
  <2>1. (WorkspaceType /\ LedgerType /\ BlockType /\ RunType /\ BatchType /\ IndexInText)'
    BY <1>8 DEF FinishExclusion, WorkspaceType, LedgerType, BlockType, RunType,
       BatchType, IndexInText, LastOrd
  <2>2. ReviewType'
    BY <1>8 DEF ReviewType, FinishExclusion, ApplyEnds
  <2>3. IndexType'
    BY FirstOrd, <1>8 DEF IndexType, FinishExclusion, ApplyEnds
  <2> QED
    BY <2>1, <2>2, <2>3
<1>9. CASE ExclusionRaises
  <2>1. (WorkspaceType /\ LedgerType /\ BlockType /\ RunType /\ BatchType /\ IndexInText)'
    BY <1>9 DEF ExclusionRaises, WorkspaceType, LedgerType, BlockType, RunType,
       BatchType, IndexInText, LastOrd
  <2>2. ReviewType'
    BY <1>9 DEF ReviewType, ExclusionRaises, ApplyEnds
  <2>3. IndexType'
    BY FirstOrd, <1>9 DEF IndexType, ExclusionRaises, ApplyEnds
  <2> QED
    BY <2>1, <2>2, <2>3
<1> QED
  BY <1>1, <1>2, <1>3, <1>4, <1>5, <1>6, <1>7, <1>8, <1>9 DEF Applying

(* So does every step. *)
LEMMA TypeStep == TypeOK /\ [Next]_vars => TypeOK'
<1> SUFFICES ASSUME TypeOK, [Next]_vars PROVE TypeOK'
  OBVIOUS
<1> USE DEF TypeOK, wsVars, docVars, ledgerVars, blockVars, ixVars, batchVars, groupVars, rnVars, apVars
<1>1. ASSUME NEW s \in Sources, NEW v \in Versions \cup {NoFile}, EditFile(s, v)
      PROVE  TypeOK'
  <2>1. (LedgerType /\ BlockType /\ ReviewType /\ IndexType /\ RunType /\ BatchType /\ IndexInText)'
    BY <1>1 DEF EditFile, LedgerType, BlockType, ReviewType, IndexType, RunType,
       BatchType, IndexInText, LastOrd
  <2>2. WorkspaceType'
    BY SourceLedgerAssumption, <1>1 DEF WorkspaceType, EditFile
  <2> QED
    BY <2>1, <2>2
<1>2. CASE BeginProcess
  <2>1. (WorkspaceType /\ LedgerType /\ BlockType /\ ReviewType /\ BatchType /\ IndexInText)'
    BY <1>2 DEF BeginProcess, WorkspaceType, LedgerType, BlockType, ReviewType,
       BatchType, IndexInText, LastOrd
  <2>2. IndexType'
    BY FirstOrd, <1>2 DEF IndexType, BeginProcess
  <2>3. RunType'
    BY <1>2 DEF RunType, BeginProcess
  <2> QED
    BY <2>1, <2>2, <2>3
<1>3. CASE BeginAuto
  <2>1. (WorkspaceType /\ LedgerType /\ BlockType /\ ReviewType /\ BatchType /\ IndexInText)'
    BY <1>3 DEF BeginAuto, WorkspaceType, LedgerType, BlockType, ReviewType,
       BatchType, IndexInText, LastOrd
  <2>2. IndexType'
    BY FirstOrd, <1>3 DEF IndexType, BeginAuto
  <2>3. RunType'
    BY <1>3 DEF RunType, BeginAuto
  <2> QED
    BY <2>1, <2>2, <2>3
<1>4. CASE BeginReindex
  <2>1. (WorkspaceType /\ BlockType /\ ReviewType /\ BatchType /\ IndexInText)'
    BY <1>4 DEF BeginReindex, WorkspaceType, BlockType, ReviewType, BatchType,
       IndexInText, LastOrd
  <2>2. LedgerType'
    BY <1>4 DEF LedgerType, BeginReindex, RowState
  <2>3. IndexType'
    BY FirstOrd, <1>4 DEF IndexType, BeginReindex
  <2>4. RunType'
    BY <1>4 DEF RunType, BeginReindex
  <2> QED
    BY <2>1, <2>2, <2>3, <2>4
<1>5. ASSUME NEW s \in Sources, NEW d \in ResetFrom, reset_dispositions(s, d)
      PROVE  TypeOK'
  <2>1. (WorkspaceType /\ BlockType /\ ReviewType /\ IndexType /\ RunType /\ BatchType /\ IndexInText)'
    BY <1>5 DEF reset_dispositions, WorkspaceType, BlockType, ReviewType, IndexType,
       RunType, BatchType, IndexInText, LastOrd
  <2>2. LedgerType'
    BY <1>5 DEF LedgerType, reset_dispositions, Disposition, RowState
  <2> QED
    BY <2>1, <2>2
<1>6. CASE KillIndexing
  <2>1. (LedgerType /\ BlockType /\ ReviewType /\ RunType /\ BatchType)'
    BY <1>6 DEF KillIndexing, LedgerType, BlockType, ReviewType, RunType, BatchType
  <2>2. WorkspaceType'
    BY SourceLedgerAssumption, <1>6 DEF WorkspaceType, KillIndexing, Kill, IndexEnds
  <2>3. IndexType'
    BY FirstOrd, <1>6 DEF IndexType, KillIndexing, Kill, IndexEnds
  <2>4. IndexInText'
    BY <1>6 DEF IndexInText, KillIndexing, Kill, IndexEnds
  <2> QED
    BY <2>1, <2>2, <2>3, <2>4
<1>7. CASE KillRun
  <2>1. (LedgerType /\ BlockType)'
    BY <1>7 DEF KillRun, LedgerType, BlockType
  <2>2. WorkspaceType'
    BY SourceLedgerAssumption, <1>7 DEF WorkspaceType, KillRun, Kill, IndexEnds
  <2>3. ReviewType'
    BY InStateRows, <1>7 DEF ReviewType, KillRun
  <2>4. IndexType'
    BY FirstOrd, <1>7 DEF IndexType, KillRun, Kill, IndexEnds
  <2>5. RunType'
    BY <1>7 DEF RunType, KillRun, Kill, IndexEnds
  <2>6. BatchType'
    BY <1>7 DEF BatchType, KillRun, Kill, IndexEnds
  <2>7. IndexInText'
    <3>1. CASE ixBy = "process"
      BY <1>7, <3>1 DEF IndexInText, KillRun, IndexEnds
    <3>2. CASE ixBy # "process"
      BY <1>7, <3>2 DEF IndexInText, KillRun, LastOrd
    <3> QED
      BY <3>1, <3>2
  <2> QED
    BY <2>1, <2>2, <2>3, <2>4, <2>5, <2>6, <2>7
<1>8. CASE KillApply
  <2>1. (LedgerType /\ BlockType /\ RunType /\ BatchType /\ IndexInText)'
    BY <1>8 DEF KillApply, LedgerType, BlockType, RunType, BatchType, IndexInText,
       LastOrd
  <2>2. WorkspaceType'
    BY SourceLedgerAssumption, <1>8 DEF WorkspaceType, KillApply, Kill, ApplyEnds
  <2>3. ReviewType'
    BY <1>8 DEF ReviewType, KillApply, ApplyEnds
  <2>4. IndexType'
    BY FirstOrd, <1>8 DEF IndexType, KillApply, Kill, ApplyEnds
  <2> QED
    BY <2>1, <2>2, <2>3, <2>4
<1>9. CASE UNCHANGED vars
  BY <1>9 DEF vars, WorkspaceType, LedgerType, BlockType, ReviewType, IndexType,
     RunType, BatchType, IndexInText, LastOrd
<1> QED
  BY TypeIndexing, TypeRunning, TypeApplying, <1>9, <1>1, <1>2, <1>3, <1>4, <1>5,
     <1>6, <1>7, <1>8 DEF Next

(* Every variable holds what its column can hold, and an index job stays   *)
(* within the text it indexes.                                             *)
THEOREM TypeCorrect == Spec => []TypeOK
<1> QED
  BY TypeInit, TypeStep, PTL DEF Spec

------------------------------------------------------------------------------
(***************************************************************************)
(* The attempts of a chunk say whether it may be tried again, as long as   *)
(* no operator resets failed_final or superseded rows and no reviewer      *)
(* decides delete_duplicate: these return chunks to the worklist with      *)
(* their attempts used up.  The invariant adds that every row that may     *)
(* come back to the worklist has an attempt left.                          *)
(***************************************************************************)
Budget(d, n) ==
    /\ n \in 0..MaxAttempts
    /\ d = "failed" => n >= 1
    /\ d = "failed_final" => n = MaxAttempts
    /\ d \notin {"failed_final", "superseded"} => n < MaxAttempts

AttemptInv == \A r \in Row : Budget(disp[r], attempts[r])

(* What Transition is used for: everything but recording a failure.        *)
Marked == {"pending", "placed", "duplicate", "irrelevant", "exclusion_pending",
           "conflicted_pending", "superseded"}

(* A count within the budget of a row that may still move is within that of its next state. *)
LEMMA MarkKeepsBudget ==
  ASSUME NEW d, NEW n, Budget(d, n), NEW e \in Marked,
         e \in allowed_transitions(d) \/ d \notin {"failed_final", "superseded"}
  PROVE  Budget(e, n)
  BY AttemptsAssumption DEF Budget, Marked, allowed_transitions

(* Transition counts no attempt. *)
LEMMA TransitionBudget ==
  ASSUME AttemptInv, NEW S, NEW e \in Marked, Transition(S, e) PROVE AttemptInv'
<1> SUFFICES ASSUME NEW r \in Row PROVE Budget(disp'[r], attempts'[r])
  BY DEF AttemptInv
<1>1. Budget(disp[r], attempts[r]) /\ attempts' = attempts
  BY DEF AttemptInv, Transition
<1>2. CASE r \in S
  <2>1. disp'[r] = e /\ e \in allowed_transitions(disp[r])
    BY <1>2 DEF Transition
  <2> QED
    BY <1>1, <2>1, MarkKeepsBudget
<1>3. CASE r \notin S
  BY <1>1, <1>3 DEF Transition
<1> QED
  BY <1>2, <1>3

(* A failure is counted, and the last one the budget has room for is final. *)
LEMMA FailedBudget ==
  ASSUME AttemptInv, NEW S, mark_failed(S), \A r \in S : disp[r] = "pending"
  PROVE  AttemptInv'
<1> SUFFICES ASSUME NEW r \in Row PROVE Budget(disp'[r], attempts'[r])
  BY DEF AttemptInv
<1>1. Budget(disp[r], attempts[r])
  BY DEF AttemptInv
<1>2. CASE r \in S
  BY <1>1, <1>2, AttemptsAssumption DEF mark_failed, FailedAs, Budget
<1>3. CASE r \notin S
  BY <1>1, <1>3 DEF mark_failed
<1> QED
  BY <1>2, <1>3

(* A copied disposition brings its attempts with it.                       *)
LEMMA SeedChunkBudget == ASSUME AttemptInv, SeedChunk PROVE AttemptInv'
<1>1. PICK from \in [CopiedNow -> Row] :
        /\ disp' = [r \in Row |->
               IF r \in CopiedNow THEN disp[from[r]]
               ELSE IF r \in Inserted /\ disp[r] = "absent" THEN "pending"
               ELSE disp[r]]
        /\ attempts' = [r \in Row |-> IF r \in CopiedNow THEN attempts[from[r]]
                                                        ELSE attempts[r]]
  BY DEF SeedChunk
<1> SUFFICES ASSUME NEW r \in Row PROVE Budget(disp'[r], attempts'[r])
  BY DEF AttemptInv
<1>2. CASE r \in CopiedNow
  <2>1. disp'[r] = disp[from[r]] /\ attempts'[r] = attempts[from[r]] /\ from[r] \in Row
    BY <1>1, <1>2
  <2> QED
    BY <2>1 DEF AttemptInv
<1>3. CASE r \notin CopiedNow
  <2>1. attempts'[r] = attempts[r] /\ (disp'[r] = disp[r]
           \/ (disp[r] = "absent" /\ disp'[r] = "pending"))
    BY <1>1, <1>3
  <2> QED
    BY <2>1, MarkKeepsBudget DEF AttemptInv, Marked
<1> QED
  BY <1>2, <1>3

(* A decision counts no attempt. *)
LEMMA FinalizeBudget ==
  ASSUME AttemptInv, NEW w, NEW S, _finalize_candidate_dispositions(w, S)
      PROVE  AttemptInv'
<1> SUFFICES ASSUME NEW r \in Row PROVE Budget(disp'[r], attempts'[r])
  BY DEF AttemptInv
<1>1. Budget(disp[r], attempts[r]) /\ attempts' = attempts
  BY DEF AttemptInv, _finalize_candidate_dispositions
<1>2. \/ disp'[r] = disp[r]
      \/ disp[r] = "conflicted_pending" /\ disp'[r] \in {"placed", "duplicate"}
  BY DEF _finalize_candidate_dispositions
<1> QED
  BY <1>1, <1>2, MarkKeepsBudget DEF Marked

(* A reset of rows that may still be retried keeps their count. *)
LEMMA ResetBudget ==
  ASSUME AttemptInv, NEW s, NEW d \in ResetFrom, reset_dispositions(s, d),
         d \notin {"failed_final", "superseded"}
  PROVE  AttemptInv'
<1> SUFFICES ASSUME NEW r \in Row PROVE Budget(disp'[r], attempts'[r])
  BY DEF AttemptInv
<1>1. Budget(disp[r], attempts[r]) /\ attempts' = attempts
  BY DEF AttemptInv, reset_dispositions
<1>2. disp'[r] = disp[r] \/ (disp[r] = d /\ disp'[r] = "pending")
  BY DEF reset_dispositions
<1> QED
  BY <1>1, <1>2, MarkKeepsBudget DEF Marked

(* Every step of the ledger keeps the attempts within the budget. *)
LEMMA BudgetStep ==
  ASSUME TypeOK, AttemptInv, [Next]_vars, "delete_duplicate" \notin Decisions,
         "failed_final" \notin ResetFrom, "superseded" \notin ResetFrom
  PROVE  AttemptInv'
<1>1. ASSUME NEW s \in Sources, NEW v \in Versions \cup {NoFile}, EditFile(s, v)
      PROVE  AttemptInv'
  BY <1>1 DEF EditFile, ledgerVars, AttemptInv
<1>2. ASSUME NEW s \in Sources, NEW by \in {"watcher", "process", "startup"}, BeginIndex(s, by)
      PROVE  AttemptInv'
  BY <1>2 DEF BeginIndex, ledgerVars, AttemptInv
<1>3. CASE ReplaceChunks
  BY <1>3 DEF ReplaceChunks, ledgerVars, AttemptInv
<1>4. CASE SeedChunk
  BY <1>4, SeedChunkBudget
<1>5. ASSUME NEW s \in Sources, NEW by \in {"watcher", "process", "startup"}, BeginDelete(s, by)
      PROVE  AttemptInv'
  BY <1>5 DEF BeginDelete, ledgerVars, AttemptInv
<1>6. ASSUME NEW r \in Row, mark_superseded(r) PROVE AttemptInv'
  BY <1>6, TransitionBudget DEF mark_superseded, Marked
<1>7. CASE MarkRemoved
  BY <1>7 DEF MarkRemoved, ledgerVars, AttemptInv
<1>8. CASE FlagBlocks
  BY <1>8 DEF FlagBlocks, ledgerVars, AttemptInv
<1>9. CASE BeginProcess
  BY <1>9 DEF BeginProcess, ledgerVars, AttemptInv
<1>10. CASE BeginAuto
  BY <1>10 DEF BeginAuto, ledgerVars, AttemptInv
<1>11. CASE BeginReindex
  BY <1>11 DEF BeginReindex, ledgerVars, AttemptInv
<1>12. CASE FinishScan
  BY <1>12 DEF FinishScan, ledgerVars, AttemptInv
<1>13. CASE StartRun
  BY <1>13, TransitionBudget DEF StartRun, Marked
<1>14. ASSUME NEW s \in Sources, StartGroup(s) PROVE AttemptInv'
  BY <1>14 DEF StartGroup, ledgerVars, AttemptInv
<1>15. CASE StartBatch
  BY <1>15 DEF StartBatch, ledgerVars, AttemptInv
<1>16. CASE EndBatch
  BY <1>16 DEF EndBatch, BatchEnds, ledgerVars, AttemptInv
<1>17. CASE BatchFails
  BY <1>17, FailedBudget DEF BatchFails
<1>18. CASE PageConflict
  BY <1>18 DEF PageConflict, BatchEnds, ledgerVars, AttemptInv
<1>19. ASSUME NEW r \in Row, DeferIrrelevant(r) PROVE AttemptInv'
  BY <1>19 DEF DeferIrrelevant, ledgerVars, AttemptInv
<1>20. ASSUME NEW r \in Row, _record_placement_outcomes(r) PROVE AttemptInv'
  <2>1. PICK e \in {"conflicted_pending", "placed", "duplicate"} : Transition({r}, e)
    BY <1>20 DEF _record_placement_outcomes
  <2> QED
    BY <2>1, TransitionBudget DEF Marked
<1>21. ASSUME NEW r \in Row, ChunkFails(r) PROVE AttemptInv'
  BY <1>21, FailedBudget DEF ChunkFails
<1>22. ASSUME NEW r \in Row, NEW b \in Blocks, CreateBlock(r, b) PROVE AttemptInv'
  BY <1>22 DEF CreateBlock, MayPlace, ledgerVars, AttemptInv
<1>23. CASE link_block_chunk
  BY <1>23 DEF link_block_chunk, ledgerVars, AttemptInv
<1>24. ASSUME NEW r \in Row, NEW b \in Blocks, PlaceDuplicate(r, b) PROVE AttemptInv'
  BY <1>24 DEF PlaceDuplicate, Placing, ledgerVars, AttemptInv
<1>25. ASSUME NEW r \in Row, NEW b \in Blocks, PlaceConflict(r, b) PROVE AttemptInv'
  BY <1>25 DEF PlaceConflict, Placing, ledgerVars, AttemptInv
<1>26. CASE FinalizeGroup
  BY <1>26 DEF FinalizeGroup, ledgerVars, AttemptInv
<1>27. ASSUME NEW r \in Row, MarkDeferred(r) PROVE AttemptInv'
  BY <1>27, TransitionBudget DEF MarkDeferred, Marked, DeferredAs
<1>28. CASE EndGroup
  BY <1>28 DEF EndGroup, ledgerVars, AttemptInv
<1>29. CASE DeferredRaises
  BY <1>29 DEF DeferredRaises, AbortRun, ledgerVars, AttemptInv
<1>30. CASE RunRaises
  BY <1>30 DEF RunRaises, AbortRun, ledgerVars, AttemptInv
<1>31. CASE create_stale_block_reviews
  BY <1>31 DEF create_stale_block_reviews, ledgerVars, AttemptInv
<1>32. CASE emit_review_file
  BY <1>32 DEF emit_review_file, ledgerVars, AttemptInv
<1>33. CASE finish_run
  BY <1>33 DEF finish_run, ledgerVars, AttemptInv
<1>34. CASE ReleaseLock
  BY <1>34 DEF ReleaseLock, ledgerVars, AttemptInv
<1>35. ASSUME NEW w \in openRows, NEW status \in {"current", "deprecated"}, ApplyStale(w, status)
      PROVE  AttemptInv'
  BY <1>35 DEF ApplyStale, ledgerVars, AttemptInv
<1>36. ASSUME NEW w \in openRows, NEW n \in Blocks, NEW d \in Decisions, AcceptCandidate(w, n, d)
      PROVE  AttemptInv'
  BY <1>36, FinalizeBudget DEF AcceptCandidate
<1>37. ASSUME NEW w \in openRows, RejectCandidate(w) PROVE AttemptInv'
  BY <1>37, FinalizeBudget DEF RejectCandidate
<1>38. ASSUME NEW w \in openRows, MergeCandidate(w) PROVE AttemptInv'
  BY <1>38 DEF MergeCandidate, ledgerVars, AttemptInv
<1>39. ASSUME NEW w \in openRows, DeleteDuplicate(w) PROVE AttemptInv'
  BY <1>39 DEF DeleteDuplicate
<1>40. ASSUME NEW w \in openRows, NEW to \in {"irrelevant", "pending"}, StartExclusion(w, to)
      PROVE  AttemptInv'
  BY <1>40 DEF StartExclusion, ledgerVars, AttemptInv
<1>41. ASSUME NEW r \in Row, ExcludeChunk(r) PROVE AttemptInv'
  BY <1>41, TransitionBudget DEF ExcludeChunk, Marked, TypeOK, ReviewType
<1>42. CASE FinishExclusion
  BY <1>42 DEF FinishExclusion, ledgerVars, AttemptInv
<1>43. CASE ExclusionRaises
  BY <1>43 DEF ExclusionRaises, ledgerVars, AttemptInv
<1>44. ASSUME NEW s \in Sources, NEW d \in ResetFrom, reset_dispositions(s, d)
      PROVE  AttemptInv'
  BY <1>44, ResetBudget
<1>45. CASE KillIndexing
  BY <1>45 DEF KillIndexing, ledgerVars, AttemptInv
<1>46. CASE KillRun
  BY <1>46 DEF KillRun, ledgerVars, AttemptInv
<1>47. CASE KillApply
  BY <1>47 DEF KillApply, ledgerVars, AttemptInv
<1>48. CASE UNCHANGED vars
  BY <1>48 DEF vars, ledgerVars, AttemptInv
<1> QED
  BY <1>1, <1>2, <1>3, <1>4, <1>5, <1>6, <1>7, <1>8, <1>9, <1>10, <1>11, <1>12,
     <1>13, <1>14, <1>15, <1>16, <1>17, <1>18, <1>19, <1>20, <1>21, <1>22, <1>23,
     <1>24, <1>25, <1>26, <1>27, <1>28, <1>29, <1>30, <1>31, <1>32, <1>33, <1>34,
     <1>35, <1>36, <1>37, <1>38, <1>39, <1>40, <1>41, <1>42, <1>43, <1>44, <1>45,
     <1>46, <1>47, <1>48 DEF Next, Indexing, Running, Batching, Applying

(* A failed chunk has an attempt left and a failed_final one has none,     *)
(* across retries, copies to a new version of the text and crashes.        *)
THEOREM AttemptsStayInBudget ==
  ASSUME "delete_duplicate" \notin Decisions,
         "failed_final" \notin ResetFrom, "superseded" \notin ResetFrom
  PROVE  Spec => []AttemptBudget
<1>1. Init => AttemptInv
  BY AttemptsAssumption DEF Init, AttemptInv, Budget
<1>2. TypeOK /\ AttemptInv /\ [Next]_vars => AttemptInv'
  BY BudgetStep
<1>3. AttemptInv => AttemptBudget
  BY AttemptsAssumption DEF AttemptInv, Budget, AttemptBudget
<1> QED
  BY <1>1, <1>2, <1>3, TypeCorrect, PTL DEF Spec

------------------------------------------------------------------------------
(***************************************************************************)
(* A placed chunk is evidence of a block.  The disposition and the link    *)
(* are written by different commits, so the invariant must also say what   *)
(* is already true between the two: a placement that has written a block   *)
(* for the chunk at hand has linked it.                                    *)
(***************************************************************************)
PlacingLinked ==
    /\ "placed" \in rnOut => \E b \in Blocks : <<b, rnCur>> \in links
    /\ \A l \in rnLink : \E b \in Blocks : l = <<b, rnCur>>

PlacedInv == PlacedHasBlock /\ PlacingLinked

(* What most steps do: place no chunk, keep every link, and start or drop  *)
(* a placement but not add to it.                                          *)
Keeps ==
    /\ \A r \in Row : disp'[r] = "placed" => disp[r] = "placed"
    /\ links \subseteq links'
    /\ "placed" \in rnOut' => "placed" \in rnOut /\ rnCur' = rnCur
    /\ rnLink' # {} => rnLink' = rnLink /\ rnCur' = rnCur

(* A step that keeps placed rows and their links keeps the invariant. *)
LEMMA KeepsPlaced == PlacedInv /\ Keeps => PlacedInv'
  BY DEF PlacedInv, PlacedHasBlock, PlacingLinked, Keeps

(* All steps but the three below keep placed rows and their links. *)
LEMMA OtherStepsKeep ==
  ASSUME TypeOK, [Next]_vars
  PROVE  \/ Keeps
         \/ SeedChunk \/ link_block_chunk
         \/ \E r \in Row : _record_placement_outcomes(r)
         \/ \E r \in Row, b \in Blocks :
               CreateBlock(r, b) \/ PlaceDuplicate(r, b) \/ PlaceConflict(r, b)
         \/ \E w \in openRows : \/ \E n \in Blocks, d \in Decisions : AcceptCandidate(w, n, d)
                                \/ RejectCandidate(w)
<1> USE DEF wsVars, docVars, ledgerVars, blockVars, ixVars, batchVars, groupVars, rnVars, apVars, Keeps, TypeOK, LedgerType
<1>1. ASSUME NEW s \in Sources, NEW v \in Versions \cup {NoFile}, EditFile(s, v)
      PROVE  Keeps
  BY <1>1 DEF EditFile
<1>2. ASSUME NEW s \in Sources, NEW by \in {"watcher", "process", "startup"}, BeginIndex(s, by)
      PROVE  Keeps
  BY <1>2 DEF BeginIndex
<1>3. ASSUME NEW s \in Sources, NEW by \in {"watcher", "process", "startup"}, BeginDelete(s, by)
      PROVE  Keeps
  BY <1>3 DEF BeginDelete
<1>4. CASE ReplaceChunks
  BY <1>4 DEF ReplaceChunks
<1>5. CASE MarkRemoved
  BY <1>5 DEF MarkRemoved
<1>6. CASE FlagBlocks
  BY <1>6 DEF FlagBlocks
<1>7. ASSUME NEW r \in Row, mark_superseded(r) PROVE Keeps
  BY <1>7 DEF mark_superseded, Transition
<1>8. ASSUME NEW s \in Sources, StartGroup(s) PROVE Keeps
  BY <1>8 DEF StartGroup
<1>9. CASE StartBatch
  BY <1>9 DEF StartBatch
<1>10. CASE EndBatch
  BY <1>10 DEF EndBatch, BatchEnds
<1>11. CASE BatchFails
  BY <1>11 DEF BatchFails, mark_failed, FailedAs, BatchEnds
<1>12. CASE PageConflict
  BY <1>12 DEF PageConflict, BatchEnds
<1>13. ASSUME NEW r \in Row, DeferIrrelevant(r) PROVE Keeps
  BY <1>13 DEF DeferIrrelevant
<1>14. ASSUME NEW r \in Row, ChunkFails(r) PROVE Keeps
  BY <1>14 DEF ChunkFails, mark_failed, FailedAs, LeavesBatch, MayPlace
<1>15. CASE FinishScan
  BY <1>15 DEF FinishScan
<1>16. CASE StartRun
  BY <1>16 DEF StartRun, Transition
<1>17. CASE FinalizeGroup
  BY <1>17 DEF FinalizeGroup
<1>18. CASE EndGroup
  BY <1>18 DEF EndGroup
<1>19. CASE DeferredRaises
  BY <1>19 DEF DeferredRaises, AbortRun
<1>20. CASE RunRaises
  BY <1>20 DEF RunRaises, AbortRun
<1>21. ASSUME NEW r \in Row, MarkDeferred(r) PROVE Keeps
  BY <1>21 DEF MarkDeferred, Transition, DeferredAs
<1>22. CASE create_stale_block_reviews
  BY <1>22 DEF create_stale_block_reviews
<1>23. CASE emit_review_file
  BY <1>23 DEF emit_review_file
<1>24. CASE finish_run
  BY <1>24 DEF finish_run
<1>25. CASE ReleaseLock
  BY <1>25 DEF ReleaseLock
<1>26. ASSUME NEW w \in openRows, NEW status \in {"current", "deprecated"}, ApplyStale(w, status)
      PROVE  Keeps
  BY <1>26 DEF ApplyStale, Decide
<1>27. ASSUME NEW w \in openRows, MergeCandidate(w) PROVE Keeps
  BY <1>27 DEF MergeCandidate, Decide
<1>28. ASSUME NEW w \in openRows, DeleteDuplicate(w) PROVE Keeps
  BY <1>28 DEF DeleteDuplicate, Decide
<1>29. ASSUME NEW w \in openRows, NEW to \in {"irrelevant", "pending"}, StartExclusion(w, to)
      PROVE  Keeps
  BY <1>29 DEF StartExclusion
<1>30. ASSUME NEW r \in Row, ExcludeChunk(r) PROVE Keeps
  BY <1>30 DEF ExcludeChunk, Transition, TypeOK, ReviewType
<1>31. CASE FinishExclusion
  BY <1>31 DEF FinishExclusion
<1>32. CASE ExclusionRaises
  BY <1>32 DEF ExclusionRaises
<1>33. CASE BeginProcess
  BY <1>33 DEF BeginProcess
<1>34. CASE BeginAuto
  BY <1>34 DEF BeginAuto
<1>35. CASE BeginReindex
  BY <1>35 DEF BeginReindex
<1>36. ASSUME NEW s \in Sources, NEW d \in ResetFrom, reset_dispositions(s, d)
      PROVE  Keeps
  BY <1>36 DEF reset_dispositions
<1>37. CASE KillIndexing
  BY <1>37 DEF KillIndexing
<1>38. CASE KillRun
  BY <1>38 DEF KillRun
<1>39. CASE KillApply
  BY <1>39 DEF KillApply
<1>40. CASE UNCHANGED vars
  BY <1>40 DEF vars
<1> HIDE DEF Keeps, TypeOK
<1> QED
  BY <1>1, <1>2, <1>3, <1>4, <1>5, <1>6, <1>7, <1>8, <1>9, <1>10, <1>11, <1>12,
     <1>13, <1>14, <1>15, <1>16, <1>17, <1>18, <1>19, <1>20, <1>21, <1>22, <1>23,
     <1>24, <1>25, <1>26, <1>27, <1>28, <1>29, <1>30, <1>31, <1>32, <1>33, <1>34,
     <1>35, <1>36, <1>37, <1>38, <1>39, <1>40 DEF Next, Indexing, Running, Batching,
     Applying

(* Seeding copies a disposition together with the links that justify it.   *)
LEMMA SeedChunkPlaces == ASSUME TypeOK, PlacedInv, SeedChunk PROVE PlacedInv'
<1>1. PICK from \in [CopiedNow -> Row] :
        /\ disp' = [r \in Row |->
               IF r \in CopiedNow THEN disp[from[r]]
               ELSE IF r \in Inserted /\ disp[r] = "absent" THEN "pending"
               ELSE disp[r]]
        /\ links' = links \cup {l \in Blocks \X CopiedNow : <<l[1], from[l[2]]>> \in links}
  BY DEF SeedChunk, CopiedLinks
<1>2. PlacedHasBlock'
  <2> SUFFICES ASSUME NEW r \in Row, disp'[r] = "placed"
               PROVE  \E b \in Blocks : <<b, r>> \in links'
    BY DEF PlacedHasBlock
  <2>1. CASE r \in CopiedNow
    <3>1. PICK b \in Blocks : <<b, from[r]>> \in links
      BY <1>1, <2>1 DEF PlacedInv, PlacedHasBlock
    <3>2. <<b, r>> \in links'
      BY <1>1, <2>1, <3>1
    <3> QED
      BY <3>2
  <2>2. CASE r \notin CopiedNow
    <3>1. disp[r] = "placed"
      BY <1>1, <2>2
    <3> QED
      BY <1>1, <3>1 DEF PlacedInv, PlacedHasBlock
  <2> QED
    BY <2>1, <2>2
<1>3. PlacingLinked'
  BY <1>1 DEF SeedChunk, PlacedInv, PlacingLinked, rnVars, batchVars
<1> QED
  BY <1>2, <1>3 DEF PlacedInv

(* write_candidate links what it writes before the outcome is recorded.    *)
LEMMA PlacingPlaces ==
  ASSUME TypeOK, PlacedInv, NEW r \in Row, NEW b \in Blocks,
         CreateBlock(r, b) \/ PlaceDuplicate(r, b) \/ PlaceConflict(r, b)
  PROVE  PlacedInv'
<1>1. disp' = disp /\ links \subseteq links' /\ rnCur' = r
  BY DEF CreateBlock, PlaceDuplicate, PlaceConflict, Placing, ledgerVars, blockVars
<1>2. PlacedHasBlock'
  BY <1>1 DEF PlacedInv, PlacedHasBlock
<1>3. "placed" \in rnOut => rnCur = r
  BY SourceLedgerAssumption
     DEF CreateBlock, PlaceDuplicate, PlaceConflict, Placing, MayPlace, PlacedInv, PlacingLinked,
         TypeOK, BlockType
<1>4. "placed" \in rnOut' => "placed" \in rnOut
  BY DEF CreateBlock, PlaceDuplicate, PlaceConflict, Placing
<1>5. \A l \in rnLink' : l = <<b, r>>
  BY DEF CreateBlock, PlaceDuplicate, PlaceConflict, Placing, MayPlace
<1>6. PlacingLinked'
  BY <1>1, <1>3, <1>4, <1>5 DEF PlacedInv, PlacingLinked
<1> QED
  BY <1>2, <1>6 DEF PlacedInv

(* Linking leaves the chunk in hand with a block. *)
LEMMA LinkPlaces == ASSUME PlacedInv, link_block_chunk PROVE PlacedInv'
<1>1. disp' = disp /\ rnCur' = rnCur /\ rnLink' = {} /\ links' = links \cup rnLink
  BY DEF link_block_chunk, ledgerVars
<1>2. PICK b \in Blocks : <<b, rnCur>> \in rnLink
  BY DEF link_block_chunk, PlacedInv, PlacingLinked
<1> QED
  BY <1>1, <1>2 DEF PlacedInv, PlacedHasBlock, PlacingLinked

(* A chunk is recorded as placed only once a block is linked to it. *)
LEMMA RecordPlaces ==
  ASSUME TypeOK, PlacedInv, NEW r \in Row, _record_placement_outcomes(r)
  PROVE  PlacedInv'
<1>1. links' = links /\ rnOut' = {} /\ rnLink' = {}
  BY DEF _record_placement_outcomes, LeavesBatch, blockVars
<1>2. ASSUME NEW q \in Row, disp'[q] = "placed"
      PROVE  \E b \in Blocks : <<b, q>> \in links
  <2>1. CASE q = r
    BY <1>2, <2>1 DEF _record_placement_outcomes, Transition, PlacedInv, PlacingLinked
  <2>2. CASE q # r
    BY <1>2, <2>2 DEF _record_placement_outcomes, Transition, PlacedInv, PlacedHasBlock
  <2> QED
    BY <2>1, <2>2
<1> QED
  BY <1>1, <1>2 DEF PlacedInv, PlacedHasBlock, PlacingLinked

(* A decision places the chunk only if some block already rests on it.     *)
LEMMA FinalizePlaces ==
  ASSUME PlacedInv, NEW w, NEW S, _finalize_candidate_dispositions(w, S),
         links \subseteq links', UNCHANGED <<rnCur, rnOut, rnLink>>
  PROVE  PlacedInv'
  BY DEF _finalize_candidate_dispositions, PlacedInv, PlacedHasBlock, PlacingLinked

(* A decision that places a chunk links it to the block it makes or extends. *)
LEMMA DecisionPlaces ==
  ASSUME TypeOK, PlacedInv, NEW w \in openRows,
         (\E n \in Blocks, d \in Decisions : AcceptCandidate(w, n, d)) \/ RejectCandidate(w)
  PROVE  PlacedInv'
<1>1. links \subseteq links'
  BY DEF AcceptCandidate, RejectCandidate, blockVars
<1>2. UNCHANGED <<rnCur, rnOut, rnLink>>
  BY DEF AcceptCandidate, RejectCandidate, rnVars, batchVars
<1>3. CASE RejectCandidate(w)
  BY <1>1, <1>2, <1>3, FinalizePlaces DEF RejectCandidate
<1>4. CASE \E n \in Blocks, d \in Decisions : AcceptCandidate(w, n, d)
  BY <1>1, <1>2, <1>4, FinalizePlaces DEF AcceptCandidate
<1> QED
  BY <1>3, <1>4

(* No interleaving, decision or crash leaves a placed chunk without a      *)
(* block that rests on it.                                                 *)
THEOREM PlacedAlwaysHasBlock == Spec => []PlacedHasBlock
<1>1. Init => PlacedInv
  BY DEF Init, PlacedInv, PlacedHasBlock, PlacingLinked
<1>2. TypeOK /\ PlacedInv /\ [Next]_vars => PlacedInv'
  BY OtherStepsKeep, KeepsPlaced, SeedChunkPlaces, PlacingPlaces, LinkPlaces,
     RecordPlaces, DecisionPlaces
<1>3. PlacedInv => PlacedHasBlock
  BY DEF PlacedInv
<1> QED
  BY <1>1, <1>2, <1>3, TypeCorrect, PTL DEF Spec

------------------------------------------------------------------------------
(***************************************************************************)
(* SourceLedger implements ChunkLifecycle, if no reviewer decides          *)
(* delete_duplicate, which may settle a superseded chunk again, and no     *)
(* operator resets superseded rows.  Besides the types the proof needs     *)
(* that what a job has still to supersede is in the ledger, and that       *)
(* evidence is for a written block.                                        *)
(***************************************************************************)
LifecycleInv ==
    /\ \A r \in ixTodo : disp[r] # "absent"
    /\ \A b \in Blocks, r \in Row : <<b, r>> \in links \cup rnLink => blockStatus[b] # "none"

(* What every step does to the ledger, to the blocks and their evidence,   *)
(* and to what the index job has still to supersede.                       *)
LedgerAdvances ==
    \A r \in Row : \/ disp'[r] = disp[r]
                   \/ /\ disp'[r] # "absent"
                      /\ \/ LifeOf(disp'[r]) = LifeOf(disp[r])
                         \/ Lifecycle!Follows(LifeOf(disp[r]), LifeOf(disp'[r]))

EvidenceAdvances ==
    /\ \A b \in Blocks : blockStatus[b] # "none" => blockStatus'[b] # "none"
    /\ links \subseteq links'
    /\ \A b \in Blocks, r \in Row :
          <<b, r>> \in links' \cup rnLink' =>
              <<b, r>> \in links \cup rnLink \/ blockStatus'[b] # "none"
    /\ \A r \in ixTodo' : r \in ixTodo \/ disp[r] # "absent"

Advances == LedgerAdvances /\ EvidenceAdvances

(* Both specifications speak of the same rows. *)
LEMMA SameRows == Lifecycle!Row = Row
  BY DEF Row, Lifecycle!Row

(* The transitions core/ledger.py allows are steps of the lifecycle.       *)
LEMMA AllowedFollows ==
  ASSUME NEW d \in RowState, NEW e \in allowed_transitions(d), d # "absent" \/ e # "superseded"
  PROVE  /\ e # "absent"
         /\ LifeOf(e) = LifeOf(d) \/ Lifecycle!Follows(LifeOf(d), LifeOf(e))
  BY DEF RowState, Disposition, allowed_transitions, LifeOf, Lifecycle!Follows,
         Lifecycle!Life

(* A transition the ledger allows is a step of the lifecycle. *)
LEMMA TransitionAdvances ==
  ASSUME TypeOK, NEW S, NEW e, Transition(S, e),
         \A r \in S : disp[r] # "absent" \/ e # "superseded"
  PROVE  LedgerAdvances
<1>1. ASSUME NEW r \in Row, r \in S
      PROVE  /\ disp'[r] = e /\ e # "absent"
             /\ LifeOf(e) = LifeOf(disp[r]) \/ Lifecycle!Follows(LifeOf(disp[r]), LifeOf(e))
  <2>1. disp[r] \in RowState /\ e \in allowed_transitions(disp[r]) /\ disp'[r] = e
    BY <1>1 DEF Transition, TypeOK, LedgerType
  <2> QED
    BY <1>1, <2>1, AllowedFollows
<1>2. ASSUME NEW r \in Row, r \notin S PROVE disp'[r] = disp[r]
  BY <1>2 DEF Transition
<1> QED
  BY <1>1, <1>2 DEF LedgerAdvances

(* So is a failed attempt. *)
LEMMA FailedAdvances ==
  ASSUME NEW S, mark_failed(S), \A r \in S : disp[r] = "pending"
  PROVE  LedgerAdvances
  BY DEF mark_failed, FailedAs, LedgerAdvances, LifeOf, Lifecycle!Follows,
     Lifecycle!Life

(* A chunk takes over the disposition of one with the same text, but never *)
(* superseded.                                                             *)
LEMMA SeedChunkAdvances == ASSUME TypeOK, LifecycleInv, SeedChunk PROVE Advances
<1>1. PICK from \in [CopiedNow -> Row] :
        /\ \A r \in CopiedNow : from[r] \in CopySources(r)
        /\ disp' = [r \in Row |->
               IF r \in CopiedNow THEN disp[from[r]]
               ELSE IF r \in Inserted /\ disp[r] = "absent" THEN "pending"
               ELSE disp[r]]
        /\ links' = links \cup {l \in Blocks \X CopiedNow : <<l[1], from[l[2]]>> \in links}
  BY DEF SeedChunk, CopiedLinks
<1>2. blockStatus' = blockStatus /\ rnLink' = rnLink
  BY DEF SeedChunk, rnVars, batchVars
<1>3. LedgerAdvances
  <2> SUFFICES ASSUME NEW r \in Row, disp'[r] # disp[r]
               PROVE  /\ disp'[r] # "absent"
                      /\ Lifecycle!Follows(LifeOf(disp[r]), LifeOf(disp'[r]))
    BY DEF LedgerAdvances
  <2>1. CASE r \in CopiedNow
    <3>0. disp'[r] = disp[from[r]]
      BY <1>1, <2>1
    <3>1. from[r] \in CopySources(r) /\ from[r] # r
      BY <1>1, <2>1, <3>0
    <3>2. disp[r] = "pending" /\ from[r] \in Priors(r)
      BY <3>1 DEF CopySources, BestPriors
    <3>3. disp[from[r]] \in Disposition \ {"superseded"}
      BY <3>2 DEF Priors, TypeOK, LedgerType, RowState
    <3> QED
      BY <3>0, <3>2, <3>3 DEF Disposition, LifeOf, Lifecycle!Follows, Lifecycle!Life
  <2>2. CASE r \notin CopiedNow
    <3>1. disp[r] = "absent" /\ disp'[r] = "pending"
      BY <1>1, <2>2
    <3> QED
      BY <3>1 DEF LifeOf, Lifecycle!Follows
  <2> QED
    BY <2>1, <2>2
<1>4. links \subseteq links'
  BY <1>1
<1>5. ASSUME NEW b \in Blocks, NEW r \in Row, <<b, r>> \in links', <<b, r>> \notin links
      PROVE  blockStatus'[b] # "none"
  <2>1. r \in CopiedNow /\ <<b, from[r]>> \in links
    BY <1>1, <1>5
  <2>2. from[r] \in Row
    BY <1>1, <2>1
  <2> QED
    BY <1>2, <2>1, <2>2 DEF LifecycleInv
<1>6. \A r \in ixTodo' : r \in ixTodo \/ disp[r] # "absent"
  BY DEF SeedChunk, StaleRows
<1> QED
  BY <1>2, <1>3, <1>4, <1>5, <1>6 DEF Advances, EvidenceAdvances

(* Finalizing moves rows only along the lifecycle. *)
LEMMA FinalizeAdvances ==
  ASSUME NEW w, NEW S, _finalize_candidate_dispositions(w, S) PROVE LedgerAdvances
  BY DEF _finalize_candidate_dispositions, LedgerAdvances, LifeOf, Lifecycle!Follows,
         Lifecycle!Life

(* Accepting a candidate moves its row along the lifecycle. *)
LEMMA AcceptAdvances ==
  ASSUME TypeOK, NEW w \in openRows, NEW n \in Blocks, NEW d \in Decisions,
         AcceptCandidate(w, n, d)
  PROVE  Advances
<1>1. LedgerAdvances
  BY FinalizeAdvances DEF AcceptCandidate
<1>2. PICK decided \in {{}, {w.block}} :
        /\ blockStatus' = [b \in Blocks |->
                CASE b = n -> IF d = "mark_conflicted" THEN "conflicted" ELSE "current"
                  [] b \in decided -> IF d = "mark_conflicted" THEN "conflicted"
                                                              ELSE "deprecated"
                  [] OTHER -> blockStatus[b]]
        /\ links' = links \cup ({n} \X Kept(w, d))
  BY DEF AcceptCandidate
<1>3. ixTodo' = ixTodo /\ rnLink' = rnLink
  BY DEF AcceptCandidate, ixVars, rnVars, batchVars
<1> QED
  BY <1>1, <1>2, <1>3 DEF Advances, EvidenceAdvances

(* So does rejecting one. *)
LEMMA RejectAdvances == ASSUME NEW w \in openRows, RejectCandidate(w) PROVE Advances
<1>1. LedgerAdvances
  BY FinalizeAdvances DEF RejectCandidate
<1>2. EvidenceAdvances
  BY DEF RejectCandidate, EvidenceAdvances, blockVars, ixVars, rnVars, batchVars
<1> QED
  BY <1>1, <1>2 DEF Advances

(* Every step that keeps the texts advances rows along the lifecycle. *)
LEMMA StepAdvances ==
  ASSUME TypeOK, LifecycleInv, [Next]_vars,
         "delete_duplicate" \notin Decisions, "superseded" \notin ResetFrom
  PROVE  Advances
<1> USE DEF wsVars, docVars, ledgerVars, blockVars, ixVars, batchVars, groupVars, rnVars, apVars, Advances, TypeOK
<1>1. ASSUME NEW s \in Sources, NEW v \in Versions \cup {NoFile}, EditFile(s, v)
      PROVE  Advances
  BY <1>1 DEF EditFile, LedgerAdvances, EvidenceAdvances
<1>2. ASSUME NEW s \in Sources, NEW by \in {"watcher", "process", "startup"}, BeginIndex(s, by)
      PROVE  Advances
  BY <1>2 DEF BeginIndex, LedgerAdvances, EvidenceAdvances
<1>3. CASE ReplaceChunks
  BY <1>3 DEF ReplaceChunks, LedgerAdvances, EvidenceAdvances
<1>4. CASE SeedChunk
  BY <1>4, SeedChunkAdvances
<1>5. ASSUME NEW s \in Sources, NEW by \in {"watcher", "process", "startup"}, BeginDelete(s, by)
      PROVE  Advances
  BY <1>5 DEF BeginDelete, LedgerAdvances, EvidenceAdvances
<1>6. ASSUME NEW r \in Row, mark_superseded(r) PROVE Advances
  <2>1. LedgerAdvances
    BY <1>6, TransitionAdvances DEF mark_superseded, LifecycleInv
  <2>2. EvidenceAdvances
    BY <1>6 DEF mark_superseded, EvidenceAdvances
  <2> QED
    BY <2>1, <2>2
<1>7. CASE MarkRemoved
  BY <1>7 DEF MarkRemoved, LedgerAdvances, EvidenceAdvances
<1>8. CASE FlagBlocks
  BY <1>8 DEF FlagBlocks, IndexEnds, LedgerAdvances, EvidenceAdvances
<1>9. CASE BeginProcess
  BY <1>9 DEF BeginProcess, LedgerAdvances, EvidenceAdvances
<1>10. CASE BeginAuto
  BY <1>10 DEF BeginAuto, LedgerAdvances, EvidenceAdvances
<1>11. CASE BeginReindex
  BY <1>11 DEF BeginReindex, LedgerAdvances, EvidenceAdvances
<1>12. CASE FinishScan
  BY <1>12 DEF FinishScan, LedgerAdvances, EvidenceAdvances
<1>13. CASE StartRun
  <2>1. LedgerAdvances
    BY <1>13, TransitionAdvances DEF StartRun, LifecycleInv, _worklist, LedgerType
  <2>2. EvidenceAdvances
    BY <1>13 DEF StartRun, EvidenceAdvances
  <2> QED
    BY <2>1, <2>2
<1>14. ASSUME NEW s \in Sources, StartGroup(s) PROVE Advances
  BY <1>14 DEF StartGroup, LedgerAdvances, EvidenceAdvances
<1>15. CASE StartBatch
  BY <1>15 DEF StartBatch, LedgerAdvances, EvidenceAdvances
<1>16. CASE EndBatch
  BY <1>16 DEF EndBatch, BatchEnds, LedgerAdvances, EvidenceAdvances
<1>17. CASE BatchFails
  <2>1. LedgerAdvances
    BY <1>17, FailedAdvances DEF BatchFails, BatchType
  <2>2. EvidenceAdvances
    BY <1>17 DEF BatchFails, BatchEnds, EvidenceAdvances
  <2> QED
    BY <2>1, <2>2
<1>18. CASE PageConflict
  BY <1>18 DEF PageConflict, BatchEnds, LedgerAdvances, EvidenceAdvances
<1>19. ASSUME NEW r \in Row, DeferIrrelevant(r) PROVE Advances
  BY <1>19 DEF DeferIrrelevant, LedgerAdvances, EvidenceAdvances
<1>20. ASSUME NEW r \in Row, _record_placement_outcomes(r) PROVE Advances
  <2>1. LedgerAdvances
    <3>1. PICK e \in {"conflicted_pending", "placed", "duplicate"} : Transition({r}, e)
      BY <1>20 DEF _record_placement_outcomes
    <3> QED
      BY <3>1, TransitionAdvances
  <2>2. EvidenceAdvances
    BY <1>20 DEF _record_placement_outcomes, LeavesBatch, EvidenceAdvances
  <2> QED
    BY <2>1, <2>2
<1>21. ASSUME NEW r \in Row, ChunkFails(r) PROVE Advances
  <2>1. LedgerAdvances
    BY <1>21, FailedAdvances DEF ChunkFails
  <2>2. EvidenceAdvances
    BY <1>21 DEF ChunkFails, MayPlace, LeavesBatch, EvidenceAdvances
  <2> QED
    BY <2>1, <2>2
<1>22. ASSUME NEW r \in Row, NEW b \in Blocks, CreateBlock(r, b) PROVE Advances
  BY <1>22 DEF CreateBlock, MayPlace, BlockType, LedgerAdvances, EvidenceAdvances
<1>23. CASE link_block_chunk
  BY <1>23 DEF link_block_chunk, LedgerAdvances, EvidenceAdvances
<1>24. ASSUME NEW r \in Row, NEW b \in Blocks, PlaceDuplicate(r, b) PROVE Advances
  BY <1>24 DEF PlaceDuplicate, Placing, BlockType, LedgerAdvances, EvidenceAdvances
<1>25. ASSUME NEW r \in Row, NEW b \in Blocks, PlaceConflict(r, b) PROVE Advances
  BY <1>25 DEF PlaceConflict, Placing, LedgerAdvances, EvidenceAdvances
<1>26. CASE FinalizeGroup
  BY <1>26 DEF FinalizeGroup, LedgerAdvances, EvidenceAdvances
<1>27. ASSUME NEW r \in Row, MarkDeferred(r) PROVE Advances
  <2>1. LedgerAdvances
    BY <1>27, TransitionAdvances DEF MarkDeferred, LifecycleInv, DeferredAs
  <2>2. EvidenceAdvances
    BY <1>27 DEF MarkDeferred, EvidenceAdvances
  <2> QED
    BY <2>1, <2>2
<1>28. CASE EndGroup
  BY <1>28 DEF EndGroup, LedgerAdvances, EvidenceAdvances
<1>29. CASE DeferredRaises
  BY <1>29 DEF DeferredRaises, AbortRun, LedgerAdvances, EvidenceAdvances
<1>30. CASE RunRaises
  BY <1>30 DEF RunRaises, AbortRun, LedgerAdvances, EvidenceAdvances
<1>31. CASE create_stale_block_reviews
  BY <1>31 DEF create_stale_block_reviews, LedgerAdvances, EvidenceAdvances
<1>32. CASE emit_review_file
  BY <1>32 DEF emit_review_file, LedgerAdvances, EvidenceAdvances
<1>33. CASE finish_run
  BY <1>33 DEF finish_run, LedgerAdvances, EvidenceAdvances
<1>34. CASE ReleaseLock
  BY <1>34 DEF ReleaseLock, LedgerAdvances, EvidenceAdvances
<1>35. ASSUME NEW w \in openRows, NEW status \in {"current", "deprecated"}, ApplyStale(w, status)
      PROVE  Advances
  BY <1>35 DEF ApplyStale, Decide, LedgerAdvances, EvidenceAdvances
<1>36. ASSUME NEW w \in openRows, NEW n \in Blocks, NEW d \in Decisions, AcceptCandidate(w, n, d)
      PROVE  Advances
  BY <1>36, AcceptAdvances
<1>37. ASSUME NEW w \in openRows, RejectCandidate(w) PROVE Advances
  BY <1>37, RejectAdvances
<1>38. ASSUME NEW w \in openRows, MergeCandidate(w) PROVE Advances
  BY <1>38 DEF MergeCandidate, Decide, LedgerAdvances, EvidenceAdvances
<1>39. ASSUME NEW w \in openRows, DeleteDuplicate(w) PROVE Advances
  BY <1>39, SourceLedgerAssumption DEF DeleteDuplicate
<1>40. ASSUME NEW w \in openRows, NEW to \in {"irrelevant", "pending"}, StartExclusion(w, to)
      PROVE  Advances
  BY <1>40 DEF StartExclusion, LedgerAdvances, EvidenceAdvances
<1>41. ASSUME NEW r \in Row, ExcludeChunk(r) PROVE Advances
  <2>1. LedgerAdvances
    BY <1>41, TransitionAdvances DEF ExcludeChunk, LifecycleInv, ReviewType
  <2>2. EvidenceAdvances
    BY <1>41 DEF ExcludeChunk, EvidenceAdvances
  <2> QED
    BY <2>1, <2>2
<1>42. CASE FinishExclusion
  BY <1>42 DEF FinishExclusion, LedgerAdvances, EvidenceAdvances
<1>43. CASE ExclusionRaises
  BY <1>43 DEF ExclusionRaises, LedgerAdvances, EvidenceAdvances
<1>44. ASSUME NEW s \in Sources, NEW d \in ResetFrom, reset_dispositions(s, d)
      PROVE  Advances
  <2>1. LedgerAdvances
    <3>1. d \in Disposition \ {"superseded"} /\ ResetFrom # {}
      BY SourceLedgerAssumption
    <3>2. Lifecycle!Follows(LifeOf(d), "open") \/ LifeOf(d) = "open"
      BY <3>1 DEF Disposition, LifeOf, Lifecycle!Follows, Lifecycle!Life
    <3>3. \A q \in Row : disp'[q] = disp[q] \/ (disp[q] = d /\ disp'[q] = "pending")
      BY <1>44 DEF reset_dispositions
    <3> QED
      BY <3>2, <3>3 DEF LedgerAdvances, LifeOf
  <2>2. EvidenceAdvances
    BY <1>44 DEF reset_dispositions, EvidenceAdvances
  <2> QED
    BY <2>1, <2>2
<1>45. CASE KillIndexing
  BY <1>45 DEF KillIndexing, IndexEnds, LedgerAdvances, EvidenceAdvances
<1>46. CASE KillRun
  BY <1>46 DEF KillRun, IndexEnds, LedgerAdvances, EvidenceAdvances
<1>47. CASE KillApply
  BY <1>47 DEF KillApply, LedgerAdvances, EvidenceAdvances
<1>48. CASE UNCHANGED vars
  BY <1>48 DEF vars, LedgerAdvances, EvidenceAdvances
<1> HIDE DEF Advances, TypeOK
<1> QED
  BY <1>1, <1>2, <1>3, <1>4, <1>5, <1>6, <1>7, <1>8, <1>9, <1>10, <1>11, <1>12,
     <1>13, <1>14, <1>15, <1>16, <1>17, <1>18, <1>19, <1>20, <1>21, <1>22, <1>23,
     <1>24, <1>25, <1>26, <1>27, <1>28, <1>29, <1>30, <1>31, <1>32, <1>33, <1>34,
     <1>35, <1>36, <1>37, <1>38, <1>39, <1>40, <1>41, <1>42, <1>43, <1>44, <1>45,
     <1>46, <1>47, <1>48 DEF Next, Indexing, Running, Batching, Applying

(* Every step of the ledger is a step of the lifecycle or leaves its rows alone. *)
LEMMA LifecycleStep ==
  ASSUME TypeOK, TypeOK', LifecycleInv, Advances
  PROVE  LifecycleInv' /\ Lifecycle!LifeNext
<1>1. LifecycleInv'
  <2>1. \A r \in ixTodo' : disp'[r] # "absent"
    BY DEF Advances, LedgerAdvances, EvidenceAdvances, LifecycleInv, TypeOK, IndexType
  <2>2. \A b \in Blocks, r \in Row : <<b, r>> \in links' \cup rnLink' => blockStatus'[b] # "none"
    BY DEF Advances, EvidenceAdvances, LifecycleInv
  <2> QED
    BY <2>1, <2>2 DEF LifecycleInv
<1>2. [r \in Row |-> LifeOf(disp'[r])] \in [Row -> Lifecycle!Life]
  <2>1. \A d \in RowState : LifeOf(d) \in Lifecycle!Life
    BY DEF RowState, Disposition, LifeOf, Lifecycle!Life
  <2> QED
    BY <2>1 DEF TypeOK, LedgerType
<1>3. \A r \in Row : \/ LifeOf(disp'[r]) = LifeOf(disp[r])
                     \/ Lifecycle!Follows(LifeOf(disp[r]), LifeOf(disp'[r]))
  BY DEF Advances, LedgerAdvances
<1>4. {b \in Blocks : blockStatus[b] # "none"} \subseteq {b \in Blocks : blockStatus'[b] # "none"}
  BY DEF Advances, EvidenceAdvances
<1>5. links \subseteq links' /\ links' \subseteq {b \in Blocks : blockStatus'[b] # "none"} \X Row
  BY <1>1 DEF Advances, EvidenceAdvances, LifecycleInv, TypeOK, BlockType
<1> QED
  BY SameRows, <1>1, <1>2, <1>3, <1>4, <1>5 DEF Lifecycle!LifeNext

(* Whatever the order of indexing, runs, decisions and crashes: a chunk    *)
(* once superseded stays so, a settled one is not worked on again unless   *)
(* an operator resets it, and no block and no evidence disappears.         *)
THEOREM LedgerImplementsLifecycle ==
  ASSUME "delete_duplicate" \notin Decisions, "superseded" \notin ResetFrom
  PROVE  Spec => ImplementsLifecycle
<1>1. Init => LifecycleInv /\ Lifecycle!LifeInit
  BY SameRows DEF Init, LifecycleInv, Lifecycle!LifeInit, LifeOf
<1>2. TypeOK /\ TypeOK' /\ LifecycleInv /\ [Next]_vars => LifecycleInv' /\ Lifecycle!LifeNext
  BY StepAdvances, LifecycleStep
<1> QED
  BY <1>1, <1>2, TypeCorrect, PTL DEF Spec, ImplementsLifecycle, Lifecycle!LifeSpec

------------------------------------------------------------------------------
(* The lock.  It is held by the run, the watcher's index job or the        *)
(* decision that is in progress; only the startup scan works without it.   *)
LockInv ==
    /\ ixPhase = "idle" <=> ixBy = "none"
    /\ ixBy = "watcher" => lock = "watcher"
    /\ ixBy = "process" => rnPhase = "scan" /\ ixSrc \in rnTodo
    /\ ixBy = "startup" => "startup" \in Drivers
    /\ rnPhase = "scan" => lock \in {"process", "reindex"}
    /\ rnPhase \notin {"idle", "scan"} => lock = "process"
    /\ apRow # {} => lock = "apply"
    /\ apTodo # {} => apRow # {}

(* The sets of a run: what it has not begun, the group of one source, the  *)
(* batch, and what C1 called irrelevant.                                   *)
Working == rnPhase \in {"work", "batch", "irrelevant", "exclude"}
GroupInv ==
    /\ ~Working => rnWork = {} /\ rnGroup = {}
    /\ rnWork \cap rnGroup = {}
    /\ rnRest \subseteq rnGroup /\ rnDefer \subseteq rnGroup /\ rnAll \subseteq rnGroup
    /\ rnBatch \subseteq rnAll /\ rnRest \cap rnAll = {}
    /\ rnDefer \cap (rnRest \cup rnBatch) = {}
    /\ rnPhase \in {"irrelevant", "exclude"} => rnRest = {}
    /\ IF rnPhase = "batch" THEN rnCur \in rnBatch \cup {NoRow} ELSE rnAll = {} /\ rnCur = NoRow
OwnedInv == \A r \in rnWork \cup rnRest \cup rnBatch : r \in live /\ disp[r] = "pending"

(* An index job on its way to the end, and what it still has to supersede. *)
JobInv ==
    /\ ixPhase # "idle" => ixSrc \notin synced
    /\ ixPhase \in {"document", "create", "reconcile"} => ixSrc \notin removed
    /\ ixPhase = "removed" => ixSrc \in removed
    /\ ixPhase # "idle" => docVer[ixSrc] # NoFile
    /\ ixTodo \subseteq RowsOf(ixSrc) /\ (ixPhase = "idle" => ixTodo = {})
Stale(r) == disp[r] \notin {"absent", "superseded"}
IndexInv ==
    /\ ixPhase = "reconcile" =>
          \A r \in RowsOf(ixSrc) : HashOf(r) \notin HashesOf(docVer[ixSrc]) /\ Stale(r) => r \in ixTodo
    /\ ixPhase = "delete" => \A r \in RowsOf(ixSrc) : Stale(r) => r \in ixTodo
    /\ ixPhase = "removed" => \A r \in RowsOf(ixSrc) : ~Stale(r)
    /\ NoStaleEvidence

(* Blocks have links to rows of their source, and none before they are     *)
(* written; so do those that are about to be linked or decided about.      *)
OwnInv ==
    /\ \A l \in links \cup rnLink : blockSrc[l[1]] = l[2].src /\ blockStatus[l[1]] # "none"
    /\ \A w \in openRows : w.kind = "conflict" => \A r \in w.chunks : r.src = w.src

(* The rows that runs, blocks and decisions refer to are in the ledger,    *)
(* and the ledger is finite.                                               *)
Present(r) == disp[r] # "absent"
PresentInv ==
    /\ IsFiniteSet({r \in Row : Present(r)})
    /\ \A l \in links \cup rnLink : Present(l[2])
    /\ \A b \in Blocks : \A r \in cited[b] : Present(r)
    /\ \A w \in openRows : w.kind = "conflict" => \A r \in w.chunks : Present(r)
    /\ \A r \in rnWork \cup rnRest \cup rnBatch : Present(r)

(* The rows of the text of a source are in the ledger, up to an ordinal.   *)
SeededTo(s, n) ==
    \A i \in 1..Len(Content[docVer[s]]) :
        i < n => LET r == [src |-> s, ver |-> docVer[s], ord |-> i] IN r \in live /\ disp[r] # "absent"
Covered(s) == docVer[s] # NoFile /\ s \notin removed => SeededTo(s, MaxChunks + 1)
CoverInv ==
    /\ ixPhase = "create" => SeededTo(ixSrc, ixOrd)
    /\ ixPhase = "reconcile" => SeededTo(ixSrc, MaxChunks + 1)
    /\ rnPhase = "scan" => \A s \in Sources \ rnTodo : Covered(s)
    /\ rnPhase \notin {"idle", "scan"} /\ rnScan => \A s \in Sources : Covered(s)
    /\ rnPhase = "done" /\ lastRun = "completed" => \A r \in Row : disp[r] # "pending"

(* Blocks that have lost their last evidence have been flagged, once the   *)
(* index job of their source has ended.                                    *)
FlaggedBlocks(s) ==
    \A b \in orphaned : blockSrc[b] = s /\ OnlySuperseded(b) => blockStatus[b] \in {"needs_review", "deleted"}
SyncInv ==
    /\ \A r \in Row : Present(r) => docVer[r.src] # NoFile
    /\ \A s \in removed : s \in synced \/ (ixPhase = "removed" /\ ixSrc = s)
    /\ rnPhase = "scan" => Sources \ rnTodo \subseteq synced
    /\ rnPhase \notin {"idle", "scan"} /\ rnScan => \A s \in Sources : s \in synced \/ docVer[s] = NoFile
FlagInv ==
    /\ \A b \in orphaned : Links(b) # {}
    /\ \A s \in synced : FlaggedBlocks(s)

(* Once a run has listed the stale blocks, no other becomes stale.         *)
Listing == rnPhase \in {"emit", "finish"} \/ (rnPhase = "done" /\ lastRun = "completed")
ListInv ==
    Listing => \A b \in Blocks : blockStatus[b] = "needs_review" => \E w \in openRows : w.block = b

------------------------------------------------------------------------------
(* What each process leaves alone.                                         *)

(* Indexing touches no run but its scan, no decision, no review row.       *)
LEMMA IndexingFrame ==
  ASSUME Indexing
  PROVE  /\ UNCHANGED <<rnPhase, rnScan, lastRun, batchVars, groupVars, apVars, openRows, cited, blockSrc>>
         /\ file' = file /\ edits' = edits
<1> USE DEF wsVars, docVars, ledgerVars, blockVars, rnVars
<1>1. ASSUME NEW s \in Sources, NEW by, BeginIndex(s, by) \/ BeginDelete(s, by)
      PROVE  /\ UNCHANGED <<rnPhase, rnScan, lastRun, batchVars, groupVars, apVars, openRows, cited, blockSrc>>
             /\ file' = file /\ edits' = edits
  BY <1>1 DEF BeginIndex, BeginDelete
<1>2. ASSUME NEW r \in Row, mark_superseded(r)
      PROVE  /\ UNCHANGED <<rnPhase, rnScan, lastRun, batchVars, groupVars, apVars, openRows, cited, blockSrc>>
             /\ file' = file /\ edits' = edits
  BY <1>2 DEF mark_superseded
<1> QED
  BY <1>1, <1>2 DEF Indexing, ReplaceChunks, SeedChunk, MarkRemoved, FlagBlocks

(* A run touches no document, no index job, no decision.                   *)
LEMMA RunningFrame ==
  ASSUME Running PROVE UNCHANGED <<file, edits, docVars, live, ixVars, apVars, blockSrc, cited, orphaned>>
                       \/ \E r \in Row, b \in Blocks : CreateBlock(r, b)
<1> USE DEF wsVars, ledgerVars, blockVars
<1> DEFINE Same == UNCHANGED <<file, edits, docVars, live, ixVars, apVars, blockSrc, cited, orphaned>>
<1>1. ASSUME NEW r \in Row, NEW b \in Blocks, PlaceDuplicate(r, b) \/ PlaceConflict(r, b) PROVE Same
  BY <1>1 DEF PlaceDuplicate, PlaceConflict, Placing
<1>2. ASSUME NEW r \in Row, DeferIrrelevant(r) \/ _record_placement_outcomes(r) \/ ChunkFails(r) \/ MarkDeferred(r)
      PROVE  Same
  BY <1>2 DEF DeferIrrelevant, _record_placement_outcomes, ChunkFails, MarkDeferred
<1>3. ASSUME NEW s \in Sources, StartGroup(s) PROVE Same
  BY <1>3 DEF StartGroup
<1>4. CASE StartBatch \/ link_block_chunk \/ EndBatch \/ BatchFails \/ PageConflict
  BY <1>4 DEF StartBatch, link_block_chunk, EndBatch, BatchFails, PageConflict
<1>5. CASE FinishScan \/ StartRun \/ FinalizeGroup \/ EndGroup \/ DeferredRaises \/ RunRaises
  BY <1>5 DEF FinishScan, StartRun, FinalizeGroup, EndGroup, DeferredRaises, RunRaises, AbortRun
<1>6. CASE create_stale_block_reviews \/ emit_review_file \/ finish_run \/ ReleaseLock
  BY <1>6 DEF create_stale_block_reviews, emit_review_file, finish_run, ReleaseLock
<1> HIDE DEF Same
<1> QED
  BY <1>1, <1>2, <1>3, <1>4, <1>5, <1>6 DEF Running, Batching, Same

(* A decision is taken while nobody else holds the lock, or holds it.      *)
LEMMA ApplyingFrame ==
  ASSUME Applying
  PROVE  /\ UNCHANGED <<file, edits, docVars, live, ixVars, rnVars>>
         /\ lock = "free" \/ apRow # {} \/ apTodo # {}
         /\ \/ lock' = lock /\ apRow' = apRow /\ apTodo' \subseteq apTodo
            \/ lock = "free" /\ lock' = "apply" /\ apRow' # {}
            \/ lock' = "free" /\ apRow' = {} /\ apTodo' = {}
<1> USE DEF wsVars, ledgerVars, blockVars, apVars
<1> DEFINE Frame ==
      /\ UNCHANGED <<file, edits, docVars, live, ixVars, rnVars>>
      /\ lock = "free" \/ apRow # {} \/ apTodo # {}
      /\ \/ lock' = lock /\ apRow' = apRow /\ apTodo' \subseteq apTodo
         \/ lock = "free" /\ lock' = "apply" /\ apRow' # {}
         \/ lock' = "free" /\ apRow' = {} /\ apTodo' = {}
<1>1. ASSUME NEW w \in openRows, NEW status, ApplyStale(w, status) PROVE Frame
  BY <1>1 DEF ApplyStale, MayApply
<1>2. ASSUME NEW w \in openRows, NEW n \in Blocks, NEW d \in Decisions, AcceptCandidate(w, n, d) PROVE Frame
  BY <1>2 DEF AcceptCandidate, MayApply
<1>3. ASSUME NEW w \in openRows, RejectCandidate(w) \/ MergeCandidate(w) \/ DeleteDuplicate(w) PROVE Frame
  BY <1>3 DEF RejectCandidate, MergeCandidate, DeleteDuplicate, MayApply
<1>4. ASSUME NEW w \in openRows, NEW to, StartExclusion(w, to) PROVE Frame
  BY <1>4 DEF StartExclusion, MayApply
<1>5. ASSUME NEW r \in Row, ExcludeChunk(r) PROVE Frame
  BY <1>5 DEF ExcludeChunk
<1>6. CASE FinishExclusion \/ ExclusionRaises
  BY <1>6 DEF FinishExclusion, ExclusionRaises, ApplyEnds
<1> QED
  BY <1>1, <1>2, <1>3, <1>4, <1>5, <1>6 DEF Applying


(* Nobody takes the lock while another has it, and who dies gives it back. *)
LEMMA LockStep == ASSUME TypeOK, LockInv, [Next]_vars PROVE LockInv'
<1> USE DEF LockInv, wsVars, docVars, ledgerVars, blockVars, ixVars, batchVars, groupVars, rnVars, apVars
<1>t. /\ ixBy \in {"none", "watcher", "process", "startup"} /\ ixSrc \in Sources \cup {NoSource}
      /\ rnTodo \subseteq Sources
  BY DEF TypeOK, IndexType, RunType
<1>1. ASSUME NEW s \in Sources, NEW by \in {"watcher", "process", "startup"}, BeginIndex(s, by) \/ BeginDelete(s, by)
      PROVE  LockInv'
  BY <1>1 DEF BeginIndex, BeginDelete, MayIndex, LockFor
<1>2. CASE ReplaceChunks \/ SeedChunk \/ MarkRemoved \/ \E r \in Row : mark_superseded(r)
  <2>1. UNCHANGED <<lock, ixBy, ixSrc, rnPhase, rnTodo, apRow, apTodo>> /\ (ixPhase = "idle" <=> ixPhase' = "idle")
    BY <1>2 DEF ReplaceChunks, SeedChunk, MarkRemoved, mark_superseded
  <2> QED
    BY <2>1
<1>3. CASE FlagBlocks
  BY <1>3 DEF FlagBlocks, IndexEnds
<1>4. CASE BeginProcess \/ BeginAuto \/ BeginReindex
  BY <1>4, <1>t DEF BeginProcess, BeginAuto, BeginReindex
<1>5. CASE Running
  <2>1. UNCHANGED <<ixPhase, ixBy, ixSrc, apRow, apTodo>>
    BY <1>5, RunningFrame DEF CreateBlock
  <2>2. CASE FinishScan
    BY <2>1, <2>2 DEF FinishScan
  <2>3. CASE ReleaseLock
    BY <2>1, <2>3 DEF ReleaseLock
  <2>4. CASE /\ lock' = lock /\ rnPhase \notin {"idle", "scan"} /\ rnPhase' \notin {"idle", "scan"}
    BY <2>1, <2>4
  <2>5. ASSUME NEW r \in Row, NEW b \in Blocks, CreateBlock(r, b) \/ PlaceDuplicate(r, b) \/ PlaceConflict(r, b)
        PROVE  /\ lock' = lock /\ rnPhase \notin {"idle", "scan"} /\ rnPhase' \notin {"idle", "scan"}
    BY <2>5 DEF CreateBlock, PlaceDuplicate, PlaceConflict, Placing, MayPlace
  <2>6. ASSUME NEW r \in Row, DeferIrrelevant(r) \/ _record_placement_outcomes(r) \/ ChunkFails(r) \/ MarkDeferred(r)
        PROVE  /\ lock' = lock /\ rnPhase \notin {"idle", "scan"} /\ rnPhase' \notin {"idle", "scan"}
    BY <2>6 DEF DeferIrrelevant, _record_placement_outcomes, ChunkFails, MarkDeferred, MayPlace
  <2>7. ASSUME NEW s \in Sources, StartGroup(s)
        PROVE  /\ lock' = lock /\ rnPhase \notin {"idle", "scan"} /\ rnPhase' \notin {"idle", "scan"}
    BY <2>7 DEF StartGroup
  <2>8. CASE StartBatch \/ EndBatch \/ BatchFails \/ PageConflict
    BY <2>8 DEF StartBatch, EndBatch, BatchFails, PageConflict, BatchEnds
  <2>9. CASE link_block_chunk
    BY <2>1, <2>9 DEF link_block_chunk
  <2>10. CASE StartRun \/ FinalizeGroup \/ EndGroup \/ DeferredRaises \/ RunRaises
    BY <2>10 DEF StartRun, FinalizeGroup, EndGroup, DeferredRaises, RunRaises, AbortRun
  <2>11. CASE create_stale_block_reviews \/ emit_review_file \/ finish_run
    BY <2>11 DEF create_stale_block_reviews, emit_review_file, finish_run
  <2> QED
    BY <1>5, <2>2, <2>3, <2>4, <2>5, <2>6, <2>7, <2>8, <2>9, <2>10, <2>11 DEF Running, Batching
<1>6. CASE Applying
  <2>1. UNCHANGED <<ixPhase, ixBy, ixSrc, rnPhase, rnTodo>>
    BY <1>6, ApplyingFrame
  <2> QED
    BY <1>6, <2>1, ApplyingFrame
<1>7. CASE KillIndexing \/ KillRun \/ KillApply
  BY <1>7 DEF KillIndexing, KillRun, KillApply, IndexEnds, ApplyEnds
<1>8. CASE \/ \E s \in Sources, v \in Versions \cup {NoFile} : EditFile(s, v)
           \/ \E s \in Sources, d \in ResetFrom : reset_dispositions(s, d)
           \/ UNCHANGED vars
  BY <1>8 DEF EditFile, reset_dispositions, vars
<1> QED
  BY <1>1, <1>2, <1>3, <1>4, <1>5, <1>6, <1>7, <1>8 DEF Next, Indexing

------------------------------------------------------------------------------
(* Runs.                                                                   *)

(* The sets of a run stay apart. *)
LEMMA GroupStep == ASSUME TypeOK, LockInv, GroupInv, [Next]_vars PROVE GroupInv'
<1> USE DEF wsVars, docVars, ledgerVars, blockVars, ixVars, rnVars, apVars
<1> DEFINE All == <<rnPhase, batchVars, groupVars>>
<1>t. rnCur \in Row \cup {NoRow} /\ NoRow \notin Row /\ rnAll \subseteq Row
  BY SourceLedgerAssumption DEF TypeOK, BatchType
<1>0. CASE UNCHANGED All
  BY <1>0 DEF GroupInv, Working, batchVars, groupVars
<1> USE DEF batchVars, groupVars
<1>1. CASE Indexing \/ Applying
  BY <1>0, <1>1, IndexingFrame, ApplyingFrame
<1>2. CASE BeginProcess \/ BeginAuto \/ BeginReindex
  <2>1. rnPhase = "idle" /\ rnPhase' \in {"scan", "retry"} /\ UNCHANGED <<batchVars, groupVars>>
    BY <1>2 DEF LockInv, BeginProcess, BeginAuto, BeginReindex
  <2> QED
    BY <2>1 DEF GroupInv, Working
<1>3. CASE FinishScan \/ create_stale_block_reviews \/ emit_review_file \/ finish_run \/ ReleaseLock
  BY <1>3 DEF GroupInv, Working, FinishScan, create_stale_block_reviews, emit_review_file, finish_run, ReleaseLock
<1>4. CASE StartRun
  BY <1>4 DEF GroupInv, Working, StartRun
<1>5. ASSUME NEW s \in Sources, StartGroup(s) PROVE GroupInv'
  BY <1>5 DEF GroupInv, Working, StartGroup
<1>6. CASE StartBatch
  <2>1. PICK B \in SUBSET rnRest :
          /\ rnAll' = B /\ rnBatch' = B /\ rnRest' = rnRest \ B
    BY <1>6 DEF StartBatch
  <2>2. /\ rnPhase = "work" /\ rnPhase' = "batch" /\ rnCur' = NoRow
        /\ UNCHANGED <<rnWork, rnGroup, rnDefer>>
    BY <1>6 DEF StartBatch
  <2> QED
    BY <2>1, <2>2 DEF GroupInv, Working
<1>7. ASSUME NEW r \in Row, DeferIrrelevant(r) PROVE GroupInv'
  BY <1>7, <1>t DEF GroupInv, Working, DeferIrrelevant
<1>8. ASSUME NEW r \in Row, _record_placement_outcomes(r) \/ ChunkFails(r) PROVE GroupInv'
  BY <1>8 DEF GroupInv, Working, _record_placement_outcomes, ChunkFails, LeavesBatch, MayPlace
<1>9. ASSUME NEW r \in Row, NEW b \in Blocks, CreateBlock(r, b) \/ PlaceDuplicate(r, b) \/ PlaceConflict(r, b)
      PROVE  GroupInv'
  <2>1. /\ rnPhase = "batch" /\ rnCur' = r /\ r \in rnBatch
        /\ UNCHANGED <<rnPhase, rnAll, rnBatch, groupVars>>
    BY <1>9 DEF CreateBlock, PlaceDuplicate, PlaceConflict, Placing, MayPlace
  <2> QED
    BY <2>1 DEF GroupInv, Working
<1>10. CASE link_block_chunk
  BY <1>10 DEF GroupInv, Working, link_block_chunk
<1>11. CASE EndBatch \/ BatchFails \/ PageConflict
  BY <1>11 DEF GroupInv, Working, EndBatch, BatchFails, PageConflict, BatchEnds
<1>12. CASE FinalizeGroup \/ EndGroup
  <2>1. CASE FinalizeGroup
    <3>1. rnPhase = "work" /\ rnRest = {} /\ rnPhase' \in {"exclude", "irrelevant"} /\ UNCHANGED <<batchVars, groupVars>>
      BY <2>1 DEF FinalizeGroup
    <3> QED
      BY <3>1 DEF GroupInv, Working
  <2>2. CASE EndGroup
    BY <2>2 DEF GroupInv, Working, EndGroup
  <2> QED
    BY <1>12, <2>1, <2>2
<1>13. ASSUME NEW r \in Row, MarkDeferred(r) PROVE GroupInv'
  BY <1>13 DEF GroupInv, Working, MarkDeferred
<1>14. CASE DeferredRaises \/ RunRaises
  BY <1>14 DEF GroupInv, Working, DeferredRaises, RunRaises, AbortRun
<1>15. CASE KillIndexing \/ KillApply
  BY <1>0, <1>15 DEF KillIndexing, KillApply
<1>16. CASE KillRun
  BY <1>16 DEF GroupInv, Working, KillRun
<1>17. CASE \/ \E s \in Sources, v \in Versions \cup {NoFile} : EditFile(s, v)
            \/ \E s \in Sources, d \in ResetFrom : reset_dispositions(s, d)
            \/ UNCHANGED vars
  BY <1>0, <1>17 DEF EditFile, reset_dispositions, vars
<1> HIDE DEF All
<1> QED
  BY <1>1, <1>2, <1>3, <1>4, <1>5, <1>6, <1>7, <1>8, <1>9, <1>10, <1>11, <1>12, <1>13, <1>14, <1>15, <1>16, <1>17
     DEF Next, Running, Batching

(* While a run works, no index job and no decision is in progress, unless  *)
(* the startup scan indexes without the lock.                              *)
LEMMA RunsAlone ==
  ASSUME LockInv, "startup" \notin Drivers, rnPhase \notin {"idle", "scan"}, ixBy \in {"none", "watcher", "process", "startup"}
  PROVE  /\ lock = "process" /\ ixPhase = "idle" /\ ixBy = "none" /\ apRow = {} /\ apTodo = {}
         /\ ~Applying /\ ~Indexing
<1>1. lock = "process" /\ ixPhase = "idle" /\ ixBy = "none" /\ apRow = {} /\ apTodo = {}
  BY DEF LockInv
<1>2. ~Applying
  BY <1>1, ApplyingFrame
<1>3. ASSUME NEW s \in Sources, NEW by \in {"watcher", "process", "startup"}
      PROVE  ~MayIndex(s, by)
  BY <1>1 DEF MayIndex
<1>4. ~Indexing
  <2>1. ~ReplaceChunks /\ ~SeedChunk /\ ~MarkRemoved /\ ~FlagBlocks /\ \A r \in Row : ~mark_superseded(r)
    BY <1>1 DEF ReplaceChunks, SeedChunk, MarkRemoved, FlagBlocks, mark_superseded
  <2>2. \A s \in Sources, by \in {"watcher", "process", "startup"} : ~BeginIndex(s, by) /\ ~BeginDelete(s, by)
    BY <1>3 DEF BeginIndex, BeginDelete
  <2> QED
    BY <2>1, <2>2 DEF Indexing
<1> QED
  BY <1>1, <1>2, <1>4

(* A run that works alone finds its rows as its worklist had them.         *)
LEMMA OwnedStep ==
  ASSUME TypeOK, LockInv, GroupInv, OwnedInv, "startup" \notin Drivers, [Next]_vars
  PROVE  OwnedInv'
<1> USE DEF wsVars, docVars, ledgerVars, blockVars, ixVars, rnVars, apVars
<1> DEFINE Owned == rnWork \cup rnRest \cup rnBatch
<1>t. /\ ixBy \in {"none", "watcher", "process", "startup"} /\ Owned \subseteq Row
      /\ rnCur \in Row \cup {NoRow} /\ NoRow \notin Row /\ disp \in [Row -> RowState]
  BY SourceLedgerAssumption DEF TypeOK, IndexType, RunType, BatchType, LedgerType
<1>0. ~Working => Owned = {}
  BY DEF GroupInv, Working
<1>a. ASSUME NEW S, Owned' \subseteq Owned \ S, live' = live, \A r \in Row \ S : disp'[r] = disp[r]
      PROVE  OwnedInv'
  BY <1>a, <1>t DEF OwnedInv
<1> USE DEF batchVars, groupVars
<1>1. CASE Indexing \/ Applying
  <2>1. ~Working
    BY <1>1, <1>t, RunsAlone DEF Working
  <2>2. Owned' = {}
    BY <1>0, <1>1, <2>1, IndexingFrame, ApplyingFrame
  <2> QED
    BY <2>2 DEF OwnedInv
<1>2. CASE \/ BeginProcess \/ BeginAuto \/ BeginReindex \/ \E s \in Sources, d \in ResetFrom : reset_dispositions(s, d)
  <2>1. ~Working
    BY <1>2 DEF LockInv, Working, BeginProcess, BeginAuto, BeginReindex, reset_dispositions
  <2>2. Owned' = {}
    BY <1>0, <1>2, <2>1 DEF BeginProcess, BeginAuto, BeginReindex, reset_dispositions
  <2> QED
    BY <2>2 DEF OwnedInv
<1>3. CASE FinishScan \/ create_stale_block_reviews \/ emit_review_file \/ finish_run \/ ReleaseLock
           \/ FinalizeGroup \/ EndGroup \/ link_block_chunk \/ EndBatch \/ PageConflict
  BY <1>a, <1>3 DEF FinishScan, create_stale_block_reviews, emit_review_file, finish_run, ReleaseLock,
     FinalizeGroup, EndGroup, link_block_chunk, EndBatch, PageConflict, BatchEnds
<1>4. CASE StartRun
  <2>1. rnWork' = _worklist /\ rnRest' = {} /\ rnBatch' = {} /\ live' = live
    BY <1>4 DEF StartRun, GroupInv, Working
  <2>2. \A r \in _worklist : disp'[r] = "pending"
    BY <1>4, <1>t DEF StartRun, Transition, _worklist, TypeOK, LedgerType
  <2> QED
    BY <2>1, <2>2 DEF OwnedInv, _worklist
<1>5. ASSUME NEW s \in Sources, StartGroup(s) PROVE OwnedInv'
  BY <1>a, <1>5 DEF StartGroup
<1>6. CASE StartBatch
  <2>1. PICK B \in SUBSET rnRest : rnAll' = B /\ rnBatch' = B /\ rnRest' = rnRest \ B
    BY <1>6 DEF StartBatch
  <2> QED
    BY <1>a, <1>6, <2>1 DEF StartBatch
<1>7. ASSUME NEW r \in Row, DeferIrrelevant(r) PROVE OwnedInv'
  BY <1>a, <1>7 DEF DeferIrrelevant
<1>8. ASSUME NEW r \in Row, _record_placement_outcomes(r) \/ ChunkFails(r) PROVE OwnedInv'
  <2>1. /\ rnBatch' = rnBatch \ {r} /\ UNCHANGED <<rnWork, rnRest, live>>
        /\ \A q \in Row \ {r} : disp'[q] = disp[q]
    BY <1>8 DEF _record_placement_outcomes, ChunkFails, LeavesBatch, Transition, mark_failed
  <2>2. r \in rnBatch
    BY <1>8, <1>t DEF _record_placement_outcomes, ChunkFails, MayPlace, GroupInv
  <2>3. r \notin rnWork \cup rnRest
    BY <2>2 DEF GroupInv
  <2> QED
    BY <1>a, <2>1, <2>3
<1>9. ASSUME NEW r \in Row, NEW b \in Blocks, CreateBlock(r, b) \/ PlaceDuplicate(r, b) \/ PlaceConflict(r, b)
      PROVE  OwnedInv'
  BY <1>a, <1>9 DEF CreateBlock, PlaceDuplicate, PlaceConflict, Placing
<1>10. CASE BatchFails
  <2>1. /\ rnBatch' = {} /\ UNCHANGED <<rnWork, rnRest, live>>
        /\ \A q \in Row \ rnAll : disp'[q] = disp[q]
    BY <1>10 DEF BatchFails, BatchEnds, mark_failed
  <2>2. rnAll \cap (rnWork \cup rnRest) = {}
    BY DEF GroupInv
  <2> QED
    BY <1>a, <2>1, <2>2
<1>11. ASSUME NEW r \in Row, MarkDeferred(r) PROVE OwnedInv'
  <2>1. /\ UNCHANGED <<rnWork, rnRest, rnBatch, live>> /\ r \in rnDefer
        /\ \A q \in Row \ {r} : disp'[q] = disp[q]
    BY <1>11 DEF MarkDeferred, Transition
  <2>2. r \notin rnWork \cup rnRest \cup rnBatch
    BY <2>1 DEF GroupInv
  <2> QED
    BY <1>a, <2>1, <2>2
<1>12. CASE DeferredRaises \/ RunRaises
  BY <1>12 DEF OwnedInv, DeferredRaises, RunRaises, AbortRun, GroupInv
<1>13. CASE KillRun
  BY <1>13 DEF OwnedInv, KillRun
<1>14. CASE KillIndexing \/ KillApply \/ UNCHANGED vars \/ \E s \in Sources, v \in Versions \cup {NoFile} : EditFile(s, v)
  BY <1>a, <1>14 DEF KillIndexing, KillApply, EditFile, vars
<1> QED
  BY <1>1, <1>2, <1>3, <1>4, <1>5, <1>6, <1>7, <1>8, <1>9, <1>10, <1>11, <1>12, <1>13, <1>14
     DEF Next, Running, Batching

(* No process begins with a run or an index job in progress. *)
LEMMA RunInit == Init => LockInv /\ GroupInv /\ OwnedInv
  BY DEF Init, LockInv, GroupInv, Working, OwnedInv

(* While a run works, nobody else touches the rows it has still to deal    *)
(* with, and none of its own steps touches a row twice.                    *)
THEOREM RunsOwnTheirRows == "startup" \notin Drivers => (Spec => []RunOwnsItsRows)
<1> SUFFICES ASSUME "startup" \notin Drivers PROVE Spec => []RunOwnsItsRows
  OBVIOUS
<1>1. Init => LockInv /\ GroupInv /\ OwnedInv
  BY RunInit
<1>2. TypeOK /\ LockInv /\ GroupInv /\ OwnedInv /\ [Next]_vars => (LockInv /\ GroupInv /\ OwnedInv)'
  BY LockStep, GroupStep, OwnedStep
<1>3. OwnedInv => RunOwnsItsRows
  BY DEF OwnedInv, RunOwnsItsRows
<1> QED
  BY <1>1, <1>2, <1>3, TypeCorrect, PTL DEF Spec

------------------------------------------------------------------------------
(* Index jobs.                                                             *)

(* How runs, decisions and resets change dispositions. *)
LEMMA Marks ==
  ASSUME TypeOK, [Next]_vars, ~Indexing
  PROVE  \/ disp' = disp
         \/ \E S \in SUBSET Row, d \in Disposition \ {"superseded"} : Transition(S, d)
         \/ \E S \in SUBSET Row : mark_failed(S) /\ \A r \in S : disp[r] = "pending"
         \/ \E w \in openRows, S \in SUBSET Row : _finalize_candidate_dispositions(w, S)
         \/ \E s \in Sources, d \in ResetFrom : reset_dispositions(s, d)
         \/ \E w \in openRows : DeleteDuplicate(w)
<1> USE DEF ledgerVars, Disposition
<1>t. rnAll \subseteq Row /\ apTo \in {"irrelevant", "pending"}
  BY DEF TypeOK, BatchType, ReviewType
<1> DEFINE Moved == \E S \in SUBSET Row, d \in Disposition \ {"superseded"} : Transition(S, d)
           Failed == \E S \in SUBSET Row : mark_failed(S) /\ \A r \in S : disp[r] = "pending"
           Final == \E w \in openRows, S \in SUBSET Row : _finalize_candidate_dispositions(w, S)
<1>1. ASSUME NEW q \in Row, NEW b \in Blocks, CreateBlock(q, b) \/ PlaceDuplicate(q, b) \/ PlaceConflict(q, b)
      PROVE  disp' = disp
  BY <1>1 DEF CreateBlock, PlaceDuplicate, PlaceConflict, Placing
<1>2. ASSUME NEW q \in Row, _record_placement_outcomes(q) \/ MarkDeferred(q) \/ ExcludeChunk(q) PROVE Moved
  <2>1. \E d \in Disposition \ {"superseded"} : Transition({q}, d)
    BY <1>t, <1>2 DEF _record_placement_outcomes, MarkDeferred, DeferredAs, ExcludeChunk
  <2> QED
    BY <2>1
<1>3. ASSUME NEW q \in Row, ChunkFails(q) PROVE Failed
  BY <1>3 DEF ChunkFails
<1>4. ASSUME BatchFails PROVE Failed
  <2>1. mark_failed({r \in rnAll : disp[r] = "pending"})
    BY <1>4 DEF BatchFails
  <2> QED
    BY <1>t, <2>1
<1>5. ASSUME StartRun PROVE Moved
  <2>1. {r \in _worklist : disp[r] = "failed"} \in SUBSET Row
    BY DEF _worklist, TypeOK, LedgerType
  <2> QED
    BY <1>5, <2>1 DEF StartRun
<1>6. ASSUME NEW q \in Row, DeferIrrelevant(q) PROVE disp' = disp
  BY <1>6 DEF DeferIrrelevant
<1>7. ASSUME NEW s \in Sources, StartGroup(s) PROVE disp' = disp
  BY <1>7 DEF StartGroup
<1>8. ASSUME NEW w \in openRows, NEW n \in Blocks, NEW d \in Decisions, AcceptCandidate(w, n, d) PROVE Final
  <2>1. _finalize_candidate_dispositions(w, Kept(w, d)) /\ w.kind = "conflict"
    BY <1>8 DEF AcceptCandidate, MayApply
  <2> QED
    BY <2>1, KeptRows
<1>9. ASSUME NEW w \in openRows, RejectCandidate(w) PROVE Final
  <2>1. w.chunks \subseteq Row
    BY DEF TypeOK, ReviewType, ReviewRow
  <2> QED
    BY <1>9, <2>1 DEF RejectCandidate
<1>10. ASSUME NEW w \in openRows, MergeCandidate(w) PROVE disp' = disp
  BY <1>10 DEF MergeCandidate
<1>11. ASSUME NEW w \in openRows, NEW status, ApplyStale(w, status) PROVE disp' = disp
  BY <1>11 DEF ApplyStale
<1>12. ASSUME NEW w \in openRows, NEW to, StartExclusion(w, to) PROVE disp' = disp
  BY <1>12 DEF StartExclusion
<1>13. ASSUME FinishScan \/ StartBatch \/ link_block_chunk \/ EndBatch \/ PageConflict \/ FinalizeGroup \/ EndGroup
              \/ DeferredRaises \/ RunRaises \/ create_stale_block_reviews \/ emit_review_file \/ finish_run \/ ReleaseLock
       PROVE  disp' = disp
  BY <1>13 DEF FinishScan, StartBatch, link_block_chunk, EndBatch, PageConflict, FinalizeGroup, EndGroup,
     DeferredRaises, RunRaises, AbortRun, create_stale_block_reviews, emit_review_file, finish_run, ReleaseLock
<1>14. ASSUME \/ \E s \in Sources, v \in Versions \cup {NoFile} : EditFile(s, v)
              \/ BeginProcess \/ BeginAuto \/ BeginReindex \/ KillIndexing \/ KillRun \/ KillApply \/ UNCHANGED vars
              \/ FinishExclusion \/ ExclusionRaises
       PROVE  disp' = disp
  BY <1>14 DEF EditFile, BeginProcess, BeginAuto, BeginReindex, KillIndexing, KillRun, KillApply, vars,
     FinishExclusion, ExclusionRaises
<1> HIDE DEF Moved, Failed, Final
<1>15. disp' = disp \/ Moved \/ Failed \/ Final \/ (\E s \in Sources, d \in ResetFrom : reset_dispositions(s, d))
         \/ (\E w \in openRows : DeleteDuplicate(w))
  BY <1>1, <1>2, <1>3, <1>4, <1>5, <1>6, <1>7, <1>8, <1>9, <1>10, <1>11, <1>12, <1>13, <1>14
     DEF Next, Running, Batching, Applying
<1> QED
  BY <1>15 DEF Moved, Failed, Final

(* Indexing marks rows as superseded, or takes over what seeding copies.   *)
LEMMA IndexingMarks == ASSUME TypeOK, Indexing, ~SeedChunk PROVE disp' = disp \/ \E r \in ixTodo : Transition({r}, "superseded")
<1> USE DEF ledgerVars
<1>1. ASSUME NEW s, NEW by, BeginIndex(s, by) \/ BeginDelete(s, by) PROVE disp' = disp
  BY <1>1 DEF BeginIndex, BeginDelete
<1>2. ASSUME NEW r \in Row, mark_superseded(r) PROVE \E q \in ixTodo : Transition({q}, "superseded")
  BY <1>2 DEF mark_superseded
<1> QED
  BY <1>1, <1>2 DEF Indexing, ReplaceChunks, MarkRemoved, FlagBlocks

(* Without a reset of superseded rows and delete_duplicate, only seeding   *)
(* makes a row count that did not count before.                            *)
LEMMA NotRevived ==
  ASSUME TypeOK, [Next]_vars, ~SeedChunk, "superseded" \notin ResetFrom, "delete_duplicate" \notin Decisions,
         NEW r \in Row, Stale(r)'
  PROVE  Stale(r)
<1>1. CASE Indexing
  BY <1>1, IndexingMarks DEF Transition, Stale
<1>2. ASSUME NEW S \in SUBSET Row, NEW d, Transition(S, d) PROVE Stale(r)
  BY <1>2 DEF Transition, Stale, allowed_transitions
<1>3. ASSUME NEW S \in SUBSET Row, mark_failed(S), \A q \in S : disp[q] = "pending" PROVE Stale(r)
  BY <1>3 DEF mark_failed, Stale
<1>4. ASSUME NEW w, NEW S, _finalize_candidate_dispositions(w, S) PROVE Stale(r)
  BY <1>4 DEF _finalize_candidate_dispositions, Stale
<1>5. ASSUME NEW s \in Sources, NEW d \in ResetFrom, reset_dispositions(s, d) PROVE Stale(r)
  BY <1>5, SourceLedgerAssumption DEF reset_dispositions, Stale, Disposition
<1>6. ASSUME NEW w \in openRows, DeleteDuplicate(w) PROVE FALSE
  BY <1>6 DEF DeleteDuplicate
<1>7. CASE disp' = disp
  BY <1>7 DEF Stale
<1> QED
  BY <1>1, <1>2, <1>3, <1>4, <1>5, <1>6, <1>7, Marks

(* Only an index job says what is known of the documents; it may be killed. *)
LEMMA OthersDoNotIndex ==
  ASSUME [Next]_vars, ~Indexing
  PROVE  UNCHANGED docVars /\ (UNCHANGED ixVars \/ (ixPhase' = "idle" /\ ixTodo' = {}))
<1> USE DEF docVars, ixVars
<1>1. CASE Running
  BY <1>1, RunningFrame DEF CreateBlock
<1>2. CASE Applying
  BY <1>2, ApplyingFrame
<1>3. CASE KillIndexing \/ KillRun \/ KillApply
  BY <1>3 DEF KillIndexing, KillRun, KillApply, IndexEnds
<1>4. CASE \/ \E s \in Sources, v \in Versions \cup {NoFile} : EditFile(s, v)
           \/ \E s \in Sources, d \in ResetFrom : reset_dispositions(s, d)
           \/ BeginProcess \/ BeginAuto \/ BeginReindex \/ UNCHANGED vars
  BY <1>4 DEF EditFile, reset_dispositions, BeginProcess, BeginAuto, BeginReindex, vars
<1> QED
  BY <1>1, <1>2, <1>3, <1>4 DEF Next

(* What seeding changes: rows of the text it seeds. *)
LEMMA SeedChanges ==
  ASSUME TypeOK, SeedChunk, NEW r \in Row, disp'[r] # disp[r]
  PROVE  r.src = ixSrc /\ HashOf(r) \in HashesOf(docVer[ixSrc])
<1>1. r \in CopiedNow \cup Inserted
  BY DEF SeedChunk
<1>2. PICK i \in 1..LastOrd : r = SeedRow(i)
  BY <1>1 DEF CopiedNow, Inserted
<1>3. r.src = ixSrc /\ r.ver = docVer[ixSrc] /\ r.ord = i
  BY <1>2 DEF SeedRow
<1> QED
  BY <1>3 DEF HashOf, HashesOf, LastOrd

(* A job keeps its source, and ends before the next begins. *)
LEMMA JobStep == ASSUME TypeOK, JobInv, [Next]_vars PROVE JobInv'
<1> USE DEF docVars, ixVars, JobInv
<1>t. docVer \in [Sources -> Versions \cup {NoFile}]
  BY DEF TypeOK, WorkspaceType
<1>1. ASSUME NEW s \in Sources, NEW by, BeginIndex(s, by) PROVE JobInv'
  BY <1>t, <1>1 DEF BeginIndex, MayIndex
<1>2. ASSUME NEW s \in Sources, NEW by, BeginDelete(s, by) PROVE JobInv'
  BY <1>2 DEF BeginDelete
<1>3. CASE ReplaceChunks \/ MarkRemoved \/ FlagBlocks
  BY <1>3 DEF ReplaceChunks, MarkRemoved, FlagBlocks, IndexEnds, RowsOf
<1>4. CASE SeedChunk
  <2>1. UNCHANGED <<docVars, ixSrc>> /\ ixPhase = "create" /\ ixPhase' \in {"create", "reconcile"}
        /\ ixTodo' \subseteq ixTodo \cup StaleRows(ixSrc)
    BY <1>4 DEF SeedChunk
  <2> QED
    BY <2>1 DEF StaleRows
<1>5. ASSUME NEW r \in Row, mark_superseded(r) PROVE JobInv'
  BY <1>5 DEF mark_superseded
<1>6. CASE ~Indexing
  <2>1. UNCHANGED docVars /\ (UNCHANGED ixVars \/ (ixPhase' = "idle" /\ ixTodo' = {}))
    BY <1>6, OthersDoNotIndex
  <2> QED
    BY <2>1
<1> QED
  BY <1>1, <1>2, <1>3, <1>4, <1>5, <1>6 DEF Indexing

(* An index job lists what it has to supersede, and ends when it has done so. *)
LEMMA IndexStep ==
  ASSUME TypeOK, JobInv, IndexInv, [Next]_vars, "superseded" \notin ResetFrom, "delete_duplicate" \notin Decisions
  PROVE  IndexInv'
<1> USE DEF docVars, ixVars
<1>t. /\ docVer \in [Sources -> Versions \cup {NoFile}] /\ disp \in [Row -> RowState] /\ synced \subseteq Sources
      /\ ixPhase \in {"idle", "document", "create", "reconcile", "delete", "removed"}
      /\ ixPhase # "idle" => ixSrc \in Sources
  BY DEF TypeOK, WorkspaceType, LedgerType, IndexType, IndexInText
<1>n. ~SeedChunk => \A r \in Row : Stale(r)' => Stale(r)
  BY NotRevived
<1>r. \A s : RowsOf(s) \subseteq Row
  BY DEF RowsOf
<1>1. CASE UNCHANGED docVars /\ (UNCHANGED ixVars \/ ixPhase' = "idle") /\ \A r \in Row : Stale(r)' => Stale(r)
  BY <1>1, <1>r DEF IndexInv, NoStaleEvidence, Stale
<1>2. ASSUME NEW s \in Sources, NEW by, BeginIndex(s, by) PROVE IndexInv'
  <2>1. /\ ixPhase' = "document" /\ ixSrc' = s /\ synced' = synced \ {s} /\ removed' = removed \ {s}
        /\ \A q \in Sources \ {s} : docVer'[q] = docVer[q]
        /\ disp' = disp
    BY <1>2, <1>t DEF BeginIndex, ledgerVars
  <2>2. NoStaleEvidence'
    BY <1>t, <2>1 DEF IndexInv, NoStaleEvidence
  <2> QED
    BY <2>1, <2>2 DEF IndexInv
<1>3. ASSUME NEW s \in Sources, NEW by, BeginDelete(s, by) PROVE IndexInv'
  <2>1. /\ ixPhase' = "delete" /\ ixSrc' = s /\ synced' = synced \ {s} /\ UNCHANGED <<docVer, removed, disp>>
        /\ ixTodo' = {r \in RowsOf(s) : disp[r] \notin {"absent", "superseded"}}
    BY <1>3 DEF BeginDelete, ledgerVars
  <2> QED
    BY <2>1 DEF IndexInv, NoStaleEvidence, Stale
<1>4. CASE ReplaceChunks
  BY <1>4 DEF ReplaceChunks, ledgerVars, IndexInv, NoStaleEvidence
<1>5. CASE SeedChunk
  <2>1. UNCHANGED <<docVer, removed, synced, ixSrc>> /\ ixPhase = "create" /\ ixPhase' \in {"create", "reconcile"}
    BY <1>5 DEF SeedChunk
  <2>2. NoStaleEvidence'
    <3> SUFFICES ASSUME NEW s \in synced, NEW r \in RowsOf(s), s \in removed \/ HashOf(r) \notin HashesOf(docVer[s])
                 PROVE  disp'[r] \in {"absent", "superseded"}
      BY <2>1 DEF NoStaleEvidence
    <3>1. disp[r] \in {"absent", "superseded"}
      BY DEF IndexInv, NoStaleEvidence
    <3>2. s # ixSrc /\ r.src = s /\ r \in Row
      BY <2>1 DEF JobInv, RowsOf
    <3> QED
      BY <1>5, <3>1, <3>2, SeedChanges
  <2>3. ASSUME ixPhase' = "reconcile", NEW r \in RowsOf(ixSrc), HashOf(r) \notin HashesOf(docVer[ixSrc]), Stale(r)'
        PROVE  r \in ixTodo'
    <3>1. r \in Row /\ disp'[r] = disp[r]
      BY <1>5, <1>r, <2>3, SeedChanges
    <3>2. ixTodo' = StaleRows(ixSrc)
      BY <1>5, <2>1, <2>3 DEF SeedChunk
    <3>3. r.ver # docVer[ixSrc]
      BY <2>3, <3>1 DEF HashOf, HashesOf, Row
    <3> QED
      BY <2>3, <3>1, <3>2, <3>3 DEF StaleRows, Stale
  <2> QED
    BY <2>1, <2>2, <2>3 DEF IndexInv
<1>6. ASSUME NEW q \in Row, mark_superseded(q) PROVE IndexInv'
  <2>1. /\ UNCHANGED <<docVer, removed, synced, ixSrc, ixPhase>> /\ ixTodo' = ixTodo \ {q}
        /\ ixPhase \in {"reconcile", "delete"}
        /\ disp' = [r \in Row |-> IF r \in {q} THEN "superseded" ELSE disp[r]]
    BY <1>6 DEF mark_superseded, Transition
  <2>2. ~Stale(q)' /\ \A r \in Row : Stale(r)' => Stale(r)
    BY <1>t, <2>1 DEF Stale
  <2>3. NoStaleEvidence'
    BY <1>r, <2>1, <2>2 DEF IndexInv, NoStaleEvidence, Stale
  <2> QED
    BY <1>r, <2>1, <2>2, <2>3 DEF IndexInv
<1>7. CASE MarkRemoved
  <2>1. /\ UNCHANGED <<docVer, synced, ixSrc, disp>> /\ ixPhase = "delete" /\ ixTodo = {}
        /\ removed' = removed \cup {ixSrc} /\ ixPhase' = "removed"
    BY <1>7 DEF MarkRemoved, ledgerVars
  <2>2. ixSrc \notin synced /\ \A r \in RowsOf(ixSrc) : ~Stale(r)
    BY <2>1 DEF IndexInv, JobInv
  <2>3. NoStaleEvidence'
    BY <2>1, <2>2 DEF IndexInv, NoStaleEvidence
  <2> QED
    BY <2>1, <2>2, <2>3 DEF IndexInv, Stale
<1>8. CASE FlagBlocks
  <2>1. /\ UNCHANGED <<docVer, removed, disp>> /\ ixPhase' = "idle" /\ synced' = synced \cup {ixSrc}
        /\ ixPhase = "removed" \/ (ixPhase = "reconcile" /\ ixTodo = {})
    BY <1>8 DEF FlagBlocks, IndexEnds, ledgerVars
  <2>2. \A r \in RowsOf(ixSrc) : ixSrc \in removed \/ HashOf(r) \notin HashesOf(docVer[ixSrc]) => ~Stale(r)
    BY <2>1 DEF IndexInv, JobInv
  <2> QED
    BY <2>1, <2>2 DEF IndexInv, NoStaleEvidence, Stale
<1>9. CASE ~Indexing
  <2>1. ~SeedChunk
    BY <1>9 DEF Indexing
  <2> QED
    BY <1>1, <1>9, <1>n, <2>1, OthersDoNotIndex
<1> QED
  BY <1>2, <1>3, <1>4, <1>5, <1>6, <1>7, <1>8, <1>9 DEF Indexing

(* Once a source has been indexed or deleted to the end, no chunk of text  *)
(* its file no longer contains counts, whatever runs, decisions, startup   *)
(* scans and crashes come later: reset-dispositions of superseded rows and *)
(* delete_duplicate are plain UPDATEs that can bring one back.             *)
THEOREM NoChunkOutlivesItsText ==
  "superseded" \notin ResetFrom /\ "delete_duplicate" \notin Decisions => (Spec => []NoStaleEvidence)
<1> SUFFICES ASSUME "superseded" \notin ResetFrom, "delete_duplicate" \notin Decisions PROVE Spec => []NoStaleEvidence
  OBVIOUS
<1>1. Init => JobInv /\ IndexInv
  BY DEF Init, JobInv, IndexInv, NoStaleEvidence
<1>2. TypeOK /\ JobInv /\ IndexInv /\ [Next]_vars => (JobInv /\ IndexInv)'
  BY JobStep, IndexStep
<1>3. IndexInv => NoStaleEvidence
  BY DEF IndexInv
<1> QED
  BY <1>1, <1>2, <1>3, TypeCorrect, PTL DEF Spec

------------------------------------------------------------------------------
(* Whose evidence a block has.                                             *)

(* A row that is filed or lost stays the row it is. *)
LEMMA InStateSame ==
  ASSUME NEW R \in SUBSET ReviewRow, NEW from, NEW to, NEW w \in InState(R, from, to)
  PROVE  \E v \in R : w.kind = v.kind /\ w.chunks = v.chunks /\ w.src = v.src /\ w.block = v.block
<1>1. PICK v \in R : w = IF v.state = from THEN [v EXCEPT !.state = to] ELSE v
  BY DEF InState
<1>2. v \in [kind : {"conflict", "exclusion", "needs_review"}, chunks : SUBSET Row, src : Sources \cup {NoSource},
             block : Blocks \cup {NoBlock}, state : {"new", "filed", "lost"}]
  BY DEF ReviewRow
<1> QED
  BY <1>1, <1>2

(* A block is never unwritten. *)
LEMMA StaysWritten ==
  ASSUME TypeOK, [Next]_vars, NEW b \in Blocks, blockStatus[b] # "none"
  PROVE  blockStatus'[b] # "none"
<1> USE DEF blockVars
<1>t. blockStatus \in [Blocks -> BlockStatus]
  BY DEF TypeOK, BlockType
<1>1. CASE Indexing
  <2>1. ASSUME NEW s \in Sources, NEW by, BeginIndex(s, by) \/ BeginDelete(s, by) PROVE blockStatus' = blockStatus
    BY <2>1 DEF BeginIndex, BeginDelete
  <2> QED
    BY <1>1, <1>t, <2>1 DEF Indexing, ReplaceChunks, SeedChunk, MarkRemoved, FlagBlocks, mark_superseded
<1>2. CASE Running
  <2>1. ASSUME NEW r \in Row, NEW c \in Blocks, CreateBlock(r, c) \/ PlaceDuplicate(r, c) \/ PlaceConflict(r, c)
        PROVE  blockStatus'[b] # "none"
    BY <1>t, <2>1 DEF CreateBlock, PlaceDuplicate, PlaceConflict
  <2>2. ASSUME NEW s \in Sources, StartGroup(s) PROVE blockStatus' = blockStatus
    BY <2>2 DEF StartGroup
  <2>3. ASSUME NEW r \in Row, DeferIrrelevant(r) \/ _record_placement_outcomes(r) \/ ChunkFails(r) \/ MarkDeferred(r)
        PROVE  blockStatus' = blockStatus
    BY <2>3 DEF DeferIrrelevant, _record_placement_outcomes, ChunkFails, MarkDeferred
  <2> QED
    BY <1>2, <2>1, <2>2, <2>3
       DEF Running, Batching, FinishScan, StartRun, StartBatch, link_block_chunk, EndBatch, BatchFails, PageConflict,
           FinalizeGroup, EndGroup, DeferredRaises, RunRaises, AbortRun, create_stale_block_reviews,
           emit_review_file, finish_run, ReleaseLock
<1>3. CASE Applying
  <2>1. ASSUME NEW w \in openRows, NEW n \in Blocks, NEW d \in Decisions, AcceptCandidate(w, n, d)
        PROVE  blockStatus'[b] # "none"
    BY <1>t, <2>1 DEF AcceptCandidate
  <2>2. ASSUME NEW w \in openRows, NEW status \in {"current", "deprecated"}, ApplyStale(w, status)
        PROVE  blockStatus'[b] # "none"
    BY <1>t, <2>2 DEF ApplyStale, Decide
  <2>3. ASSUME NEW w \in openRows, NEW to, StartExclusion(w, to) PROVE blockStatus' = blockStatus
    BY <2>3 DEF StartExclusion
  <2>4. ASSUME NEW w \in openRows, RejectCandidate(w) \/ MergeCandidate(w) \/ DeleteDuplicate(w)
        PROVE  blockStatus'[b] # "none"
    BY <1>t, <2>4 DEF RejectCandidate, MergeCandidate, DeleteDuplicate, Decide
  <2> QED
    BY <1>3, <2>1, <2>2, <2>3, <2>4 DEF Applying, ExcludeChunk, FinishExclusion, ExclusionRaises
<1>4. CASE \/ \E s \in Sources, v \in Versions \cup {NoFile} : EditFile(s, v)
           \/ BeginProcess \/ BeginAuto \/ BeginReindex \/ KillIndexing \/ KillRun \/ KillApply \/ UNCHANGED vars
           \/ \E s \in Sources, d \in ResetFrom : reset_dispositions(s, d)
  BY <1>4 DEF EditFile, BeginProcess, BeginAuto, BeginReindex, KillIndexing, KillRun, KillApply, reset_dispositions, vars
<1> QED
  BY <1>1, <1>2, <1>3, <1>4 DEF Next

(* Most steps write no block, link nothing, and ask the user of nothing but *)
(* blocks and exclusions.                                                  *)
LEMMA OwnKept ==
  ASSUME TypeOK, [Next]_vars, OwnInv, blockSrc' = blockSrc, links' \cup rnLink' \subseteq links \cup rnLink,
         \A w \in openRows' :
            w.kind = "conflict" => \E v \in openRows : v.kind = "conflict" /\ v.chunks = w.chunks /\ v.src = w.src
  PROVE  OwnInv'
<1>1. \A l \in links \cup rnLink : l[1] \in Blocks
  BY DEF TypeOK, BlockType, BatchType
<1>2. \A l \in links' \cup rnLink' : blockSrc'[l[1]] = l[2].src /\ blockStatus'[l[1]] # "none"
  BY <1>1, StaysWritten DEF OwnInv
<1> QED
  BY <1>2 DEF OwnInv

(* Evidence is copied within a source, written with the block, and found   *)
(* for blocks of the source of the chunk; a decision keeps the candidate's *)
(* own chunks, unless it merges them with those of another block.          *)
LEMMA OwnStep == ASSUME TypeOK, OwnInv, "merge" \notin Decisions, [Next]_vars PROVE OwnInv'
<1> USE DEF wsVars, docVars, ledgerVars, blockVars, ixVars, rnVars, apVars, batchVars, groupVars
<1>t. /\ links \subseteq Blocks \X Row /\ rnLink \subseteq Blocks \X Row /\ openRows \subseteq ReviewRow
      /\ blockStatus \in [Blocks -> BlockStatus] /\ blockSrc \in [Blocks -> Sources \cup {NoSource}]
  BY DEF TypeOK, BlockType, BatchType, ReviewType
<1> DEFINE Rows ==
      \A w \in openRows' :
         w.kind = "conflict" => \E v \in openRows : v.kind = "conflict" /\ v.chunks = w.chunks /\ v.src = w.src
<1>0. ASSUME blockSrc' = blockSrc, links' \cup rnLink' \subseteq links \cup rnLink, openRows' \subseteq openRows
      PROVE  OwnInv'
  BY <1>0, OwnKept
<1>1. CASE SeedChunk
  <2>1. PICK from \in [CopiedNow -> Row] :
          (\A r \in CopiedNow : from[r] \in CopySources(r)) /\ links' = links \cup CopiedLinks(from)
    BY <1>1 DEF SeedChunk
  <2>2. UNCHANGED <<blockSrc, blockStatus, rnLink, openRows>>
    BY <1>1 DEF SeedChunk
  <2>3. ASSUME NEW l \in CopiedLinks(from) PROVE blockSrc[l[1]] = l[2].src /\ blockStatus[l[1]] # "none"
    <3>1. l[1] \in Blocks /\ l[2] \in CopiedNow /\ <<l[1], from[l[2]]>> \in links
      BY <2>3 DEF CopiedLinks
    <3>2. from[l[2]].src = l[2].src
      BY <2>1, <3>1 DEF CopySources, BestPriors, Priors, SameContent
    <3> QED
      BY <3>1, <3>2 DEF OwnInv
  <2> QED
    BY <2>1, <2>2, <2>3 DEF OwnInv
<1>2. CASE Indexing /\ ~SeedChunk
  <2>1. UNCHANGED <<openRows, rnLink, blockSrc>>
    BY <1>2, IndexingFrame
  <2>2. ASSUME NEW s, NEW by, BeginIndex(s, by) \/ BeginDelete(s, by) PROVE links' = links
    BY <2>2 DEF BeginIndex, BeginDelete
  <2>3. links' = links
    BY <1>2, <2>2 DEF Indexing, ReplaceChunks, MarkRemoved, FlagBlocks, mark_superseded
  <2> QED
    BY <1>0, <2>1, <2>3
<1>3. ASSUME NEW r \in Row, NEW b \in Blocks, CreateBlock(r, b) PROVE OwnInv'
  <2>1. /\ blockStatus[b] = "none" /\ rnLink' = {<<b, r>>} /\ UNCHANGED <<links, openRows>>
        /\ blockStatus' = [blockStatus EXCEPT ![b] = "current"]
        /\ blockSrc' = [blockSrc EXCEPT ![b] = r.src]
    BY <1>3 DEF CreateBlock
  <2>2. \A l \in links : l[1] \in Blocks /\ l[1] # b
    BY <1>t, <2>1 DEF OwnInv
  <2>3. \A l \in links : blockSrc'[l[1]] = l[2].src /\ blockStatus'[l[1]] # "none"
    BY <1>t, <2>1, <2>2 DEF OwnInv
  <2>4. blockSrc'[b] = r.src /\ blockStatus'[b] # "none"
    BY <1>t, <2>1
  <2> QED
    BY <2>1, <2>3, <2>4 DEF OwnInv
<1>4. ASSUME NEW r \in Row, NEW b \in Blocks, PlaceDuplicate(r, b) PROVE OwnInv'
  <2>1. /\ blockStatus[b] # "none" /\ blockSrc[b] = r.src /\ UNCHANGED <<blockSrc, openRows, rnLink>>
        /\ links' \subseteq links \cup {<<b, r>>}
    BY <1>4 DEF PlaceDuplicate, Placing
  <2>2. blockStatus'[b] # "none"
    BY <2>1, StaysWritten
  <2>3. \A l \in links \cup rnLink : blockStatus'[l[1]] # "none"
    BY <1>t, StaysWritten DEF OwnInv
  <2> QED
    BY <2>1, <2>2, <2>3 DEF OwnInv
<1>5. ASSUME NEW r \in Row, NEW b \in Blocks, PlaceConflict(r, b) PROVE OwnInv'
  <2>1. /\ openRows' = openRows \cup {[kind |-> "conflict", chunks |-> {r}, src |-> r.src, block |-> b, state |-> "new"]}
        /\ UNCHANGED <<blockSrc, blockStatus, links, rnLink>>
    BY <1>5 DEF PlaceConflict, Placing
  <2> QED
    BY <2>1 DEF OwnInv
<1>6. CASE link_block_chunk
  <2>1. links' = links \cup rnLink /\ rnLink' = {} /\ UNCHANGED <<blockSrc, openRows>>
    BY <1>6 DEF link_block_chunk
  <2> QED
    BY <1>0, <2>1
<1>7. ASSUME NEW r \in Row, DeferIrrelevant(r) \/ _record_placement_outcomes(r) \/ ChunkFails(r) \/ MarkDeferred(r)
      PROVE  OwnInv'
  BY <1>0, <1>7 DEF DeferIrrelevant, _record_placement_outcomes, ChunkFails, MarkDeferred
<1>8. ASSUME NEW s \in Sources, StartGroup(s) PROVE OwnInv'
  BY <1>0, <1>8 DEF StartGroup
<1>9. CASE StartBatch \/ EndBatch \/ BatchFails \/ PageConflict
  BY <1>0, <1>9 DEF StartBatch, EndBatch, BatchFails, PageConflict, BatchEnds
<1>10. CASE FinishScan \/ StartRun \/ FinalizeGroup \/ finish_run \/ ReleaseLock
  BY <1>0, <1>10 DEF FinishScan, StartRun, FinalizeGroup, finish_run, ReleaseLock
<1>11. CASE EndGroup
  <2>1. Rows /\ UNCHANGED <<blockSrc, links, rnLink>>
    BY <1>11 DEF EndGroup
  <2> QED
    BY <2>1, OwnKept
<1>12. CASE create_stale_block_reviews
  <2>1. Rows /\ UNCHANGED <<blockSrc, links, rnLink>>
    BY <1>12 DEF create_stale_block_reviews
  <2> QED
    BY <2>1, OwnKept
<1>13. CASE DeferredRaises \/ RunRaises \/ emit_review_file \/ KillRun
  <2>1. /\ openRows' = InState(openRows, "new", "lost") \/ openRows' = InState(openRows, "new", "filed")
        /\ UNCHANGED <<blockSrc, links>> /\ rnLink' \subseteq rnLink
    BY <1>13 DEF DeferredRaises, RunRaises, AbortRun, emit_review_file, KillRun
  <2>2. Rows
    BY <1>t, <2>1, InStateSame
  <2> QED
    BY <2>1, <2>2, OwnKept
<1>14. ASSUME NEW w \in openRows, NEW n \in Blocks, NEW d \in Decisions, AcceptCandidate(w, n, d) PROVE OwnInv'
  <2>1. /\ blockStatus[n] = "none" /\ blockSrc' = [blockSrc EXCEPT ![n] = w.src] /\ w.kind = "conflict"
        /\ links' = links \cup ({n} \X w.chunks) /\ openRows' = openRows \ {w} /\ rnLink' = rnLink
    BY <1>14 DEF AcceptCandidate, MayApply, Kept
  <2>2. \A l \in links \cup rnLink : l[1] \in Blocks /\ l[1] # n
    BY <1>t, <2>1 DEF OwnInv
  <2>3. \A l \in links \cup rnLink : blockSrc'[l[1]] = l[2].src /\ blockStatus'[l[1]] # "none"
    BY <1>t, <2>1, <2>2, StaysWritten DEF OwnInv
  <2>4. blockStatus'[n] # "none"
    BY <1>14 DEF AcceptCandidate
  <2>5. \A l \in {n} \X w.chunks : blockSrc'[l[1]] = l[2].src /\ blockStatus'[l[1]] # "none"
    BY <1>t, <2>1, <2>4 DEF OwnInv
  <2> QED
    BY <2>1, <2>3, <2>5 DEF OwnInv
<1>15. ASSUME NEW w \in openRows, RejectCandidate(w) \/ DeleteDuplicate(w) PROVE OwnInv'
  BY <1>0, <1>15 DEF RejectCandidate, DeleteDuplicate
<1>16. ASSUME NEW w \in openRows, MergeCandidate(w) PROVE FALSE
  BY <1>16 DEF MergeCandidate
<1>17. ASSUME NEW w \in openRows, NEW status, ApplyStale(w, status) PROVE OwnInv'
  BY <1>0, <1>17 DEF ApplyStale
<1>18. ASSUME NEW w \in openRows, NEW to, StartExclusion(w, to) PROVE OwnInv'
  BY <1>0, <1>18 DEF StartExclusion
<1>19. ASSUME NEW r \in Row, ExcludeChunk(r) PROVE OwnInv'
  BY <1>0, <1>19 DEF ExcludeChunk
<1>20. CASE FinishExclusion \/ ExclusionRaises \/ KillIndexing \/ KillApply \/ UNCHANGED vars
  BY <1>0, <1>20 DEF FinishExclusion, ExclusionRaises, KillIndexing, KillApply, vars
<1>21. CASE \/ \E s \in Sources, v \in Versions \cup {NoFile} : EditFile(s, v)
            \/ \E s \in Sources, d \in ResetFrom : reset_dispositions(s, d)
            \/ BeginProcess \/ BeginAuto \/ BeginReindex
  BY <1>0, <1>21 DEF EditFile, reset_dispositions, BeginProcess, BeginAuto, BeginReindex
<1> HIDE DEF Rows
<1> QED
  BY <1>1, <1>2, <1>3, <1>4, <1>5, <1>6, <1>7, <1>8, <1>9, <1>10, <1>11, <1>12, <1>13, <1>14, <1>15, <1>16, <1>17,
     <1>18, <1>19, <1>20, <1>21 DEF Next, Running, Batching, Applying

(* A block rests on chunks of its own source, as long as no decision       *)
(* merges a candidate with a block, which may be of another source.        *)
THEOREM BlocksRestOnTheirSource == "merge" \notin Decisions => (Spec => []EvidenceOfOwnSource)
<1> SUFFICES ASSUME "merge" \notin Decisions PROVE Spec => []EvidenceOfOwnSource
  OBVIOUS
<1>1. Init => OwnInv
  BY DEF Init, OwnInv
<1>2. TypeOK /\ OwnInv /\ [Next]_vars => OwnInv'
  BY OwnStep
<1>3. OwnInv => EvidenceOfOwnSource
  BY DEF OwnInv, EvidenceOfOwnSource
<1> QED
  BY <1>1, <1>2, <1>3, TypeCorrect, PTL DEF Spec

------------------------------------------------------------------------------
(* Which rows the ledger has.                                              *)

(* A row is never deleted. *)
LEMMA StaysPresent == ASSUME TypeOK, [Next]_vars, NEW r \in Row, Present(r) PROVE Present(r)'
<1> USE DEF Present
<1>1. CASE SeedChunk
  <2>1. PICK from \in [CopiedNow -> Row] :
          /\ \A q \in CopiedNow : from[q] \in CopySources(q)
          /\ disp' = [q \in Row |-> IF q \in CopiedNow THEN disp[from[q]]
                                    ELSE IF q \in Inserted /\ disp[q] = "absent" THEN "pending" ELSE disp[q]]
    BY <1>1 DEF SeedChunk
  <2>2. CASE r \in CopiedNow
    <3>1. Present(from[r])
      BY <2>1, <2>2 DEF CopySources, BestPriors, Priors
    <3> QED
      BY <2>1, <2>2, <3>1
  <2>3. CASE r \notin CopiedNow
    BY <2>1, <2>3
  <2> QED
    BY <2>2, <2>3
<1>2. ASSUME NEW S, NEW d, Transition(S, d) PROVE Present(r)'
  BY <1>2 DEF Transition, allowed_transitions, Disposition
<1>3. ASSUME NEW S, mark_failed(S) PROVE Present(r)'
  BY <1>3 DEF mark_failed, FailedAs
<1>4. ASSUME NEW w, NEW S, _finalize_candidate_dispositions(w, S) PROVE Present(r)'
  BY <1>4 DEF _finalize_candidate_dispositions
<1>5. ASSUME NEW s \in Sources, NEW d \in ResetFrom, reset_dispositions(s, d) PROVE Present(r)'
  BY <1>5 DEF reset_dispositions
<1>6. ASSUME NEW w \in openRows, DeleteDuplicate(w) PROVE Present(r)'
  BY <1>6 DEF DeleteDuplicate
<1> QED
  BY <1>1, <1>2, <1>3, <1>4, <1>5, <1>6, Marks, IndexingMarks

(* Runs and decisions deal with rows the ledger has. *)
LEMMA OthersDoNotInsert ==
  ASSUME TypeOK, PresentInv, [Next]_vars, ~Indexing, NEW r \in Row, Present(r)'
  PROVE  Present(r)
<1> USE DEF Present
<1>1. ASSUME NEW S, NEW d, d # "superseded", Transition(S, d) PROVE Present(r)
  BY <1>1 DEF Transition, allowed_transitions
<1>2. ASSUME NEW S, mark_failed(S), \A q \in S : disp[q] = "pending" PROVE Present(r)
  BY <1>2 DEF mark_failed
<1>3. ASSUME NEW w, NEW S, _finalize_candidate_dispositions(w, S) PROVE Present(r)
  BY <1>3 DEF _finalize_candidate_dispositions
<1>4. ASSUME NEW s \in Sources, NEW d \in ResetFrom, reset_dispositions(s, d) PROVE Present(r)
  BY <1>4, SourceLedgerAssumption DEF reset_dispositions, Disposition
<1>5. ASSUME NEW w \in openRows, DeleteDuplicate(w) PROVE Present(r)
  <2>1. PICK done \in SUBSET {q \in w.chunks \ Links(w.block) : "duplicate" \in allowed_transitions(disp[q])} :
          disp' = [q \in Row |-> IF q \in Links(w.block) \cup done THEN "duplicate" ELSE disp[q]]
    BY <1>5 DEF DeleteDuplicate
  <2>2. \A q \in Links(w.block) : disp[q] # "absent"
    BY DEF Links, PresentInv
  <2>3. \A q \in done : disp[q] # "absent"
    BY <2>1 DEF allowed_transitions
  <2> QED
    BY <2>1, <2>2, <2>3
<1> QED
  BY <1>1, <1>2, <1>3, <1>4, <1>5, Marks

(* An index job inserts one row at a time. *)
LEMMA IndexingInserts ==
  ASSUME TypeOK, Indexing PROVE \E q : \A r \in Row : Present(r)' => Present(r) \/ r = q
<1> USE DEF ledgerVars, Present
<1> DEFINE One(q) == \A r \in Row : disp'[r] # "absent" => disp[r] # "absent" \/ r = q
<1>1. CASE disp' = disp
  <2>1. One(0)
    BY <1>1
  <2> QED
    BY <2>1
<1>2. ASSUME NEW q \in Row, mark_superseded(q) PROVE One(q)
  BY <1>2 DEF mark_superseded, Transition
<1>3. CASE SeedChunk
  <2>1. PICK from \in [CopiedNow -> Row] :
          /\ \A q \in CopiedNow : from[q] \in CopySources(q)
          /\ disp' = [q \in Row |-> IF q \in CopiedNow THEN disp[from[q]]
                                    ELSE IF q \in Inserted /\ disp[q] = "absent" THEN "pending" ELSE disp[q]]
    BY <1>3 DEF SeedChunk
  <2>2. \A r \in CopiedNow : disp[r] = "absent" => from[r] = r
    BY <2>1 DEF CopySources
  <2>3. \A r \in Inserted : r = SeedRow(ixOrd)
    BY DEF Inserted
  <2> HIDE DEF One
  <2>4. One(SeedRow(ixOrd))
    BY <2>1, <2>2, <2>3 DEF One
  <2> QED
    BY <2>4 DEF One
<1>4. ASSUME NEW s, NEW by, BeginIndex(s, by) \/ BeginDelete(s, by) PROVE disp' = disp
  BY <1>4 DEF BeginIndex, BeginDelete
<1> QED
  BY <1>1, <1>2, <1>3, <1>4 DEF Indexing, ReplaceChunks, MarkRemoved, FlagBlocks

(* The ledger grows by at most one row. *)
LEMMA StaysFinite == ASSUME TypeOK, PresentInv, [Next]_vars PROVE IsFiniteSet({r \in Row : Present(r)})'
<1>1. PICK q : \A r \in Row : Present(r)' => Present(r) \/ r = q
  <2>1. CASE Indexing
    BY <2>1, IndexingInserts
  <2>2. CASE ~Indexing
    BY <2>2, OthersDoNotInsert
  <2> QED
    BY <2>1, <2>2
<1>2. IsFiniteSet({r \in Row : Present(r)} \cup {q})
  BY FS_AddElement DEF PresentInv
<1>3. {r \in Row : Present(r)'} \subseteq {r \in Row : Present(r)} \cup {q}
  BY <1>1
<1>4. IsFiniteSet({r \in Row : Present(r)'})
  BY <1>2, <1>3, FS_Subset
<1> QED
  BY <1>4

(* Most steps refer to no other rows than before. *)
LEMMA PresentKept ==
  ASSUME TypeOK, [Next]_vars, PresentInv, cited' = cited, links' \cup rnLink' \subseteq links \cup rnLink,
         rnWork' \cup rnRest' \cup rnBatch' \subseteq rnWork \cup rnRest \cup rnBatch,
         \A w \in openRows' :
            w.kind = "conflict" => \E v \in openRows : v.kind = "conflict" /\ v.chunks = w.chunks /\ v.src = w.src
  PROVE  PresentInv'
<1>t. /\ \A l \in links \cup rnLink : l[2] \in Row
      /\ \A b \in Blocks : cited[b] \subseteq Row
      /\ \A w \in openRows : w.chunks \subseteq Row
      /\ rnWork \cup rnRest \cup rnBatch \subseteq Row
  BY DEF TypeOK, BlockType, BatchType, ReviewType, ReviewRow, RunType
<1>1. \A r \in Row : Present(r) => Present(r)'
  BY StaysPresent
<1>2. \A w \in openRows' : w.kind = "conflict" => \A r \in w.chunks : Present(r)'
  BY <1>t, <1>1 DEF PresentInv
<1>3. \A l \in links' \cup rnLink' : Present(l[2])'
  BY <1>t, <1>1 DEF PresentInv
<1>4. \A b \in Blocks : \A r \in cited'[b] : Present(r)'
  BY <1>t, <1>1 DEF PresentInv
<1>5. \A r \in rnWork' \cup rnRest' \cup rnBatch' : Present(r)'
  BY <1>t, <1>1 DEF PresentInv
<1> QED
  BY <1>2, <1>3, <1>4, <1>5, StaysFinite DEF PresentInv

(* What a step adds to the rows referred to are rows the ledger has.       *)
LEMMA PresentStep == ASSUME TypeOK, PresentInv, [Next]_vars PROVE PresentInv'
<1> USE DEF wsVars, docVars, ledgerVars, blockVars, ixVars, rnVars, apVars, batchVars, groupVars
<1>t. /\ links \subseteq Blocks \X Row /\ rnLink \subseteq Blocks \X Row /\ openRows \subseteq ReviewRow
      /\ cited \in [Blocks -> SUBSET Row] /\ rnWork \cup rnRest \cup rnBatch \subseteq Row
      /\ \A w \in openRows : w.chunks \subseteq Row /\ (w.kind # "exclusion" => w.block \in Blocks)
  BY SourceLedgerAssumption DEF TypeOK, BlockType, BatchType, ReviewType, ReviewRow, RunType
<1>p. \A r \in Row : Present(r) => Present(r)'
  BY StaysPresent
<1> DEFINE Refs == /\ \A l \in links \cup rnLink : Present(l[2])'
                   /\ \A b \in Blocks : \A r \in cited[b] : Present(r)'
                   /\ \A w \in openRows : w.kind = "conflict" => \A r \in w.chunks : Present(r)'
                   /\ \A r \in rnWork \cup rnRest \cup rnBatch : Present(r)'
           Work == rnWork \cup rnRest \cup rnBatch
           Rows == \A w \in openRows' :
                      w.kind = "conflict" => \E v \in openRows : v.kind = "conflict" /\ v.chunks = w.chunks /\ v.src = w.src
<1>r. Refs
  BY <1>t, <1>p DEF PresentInv
<1>f. IsFiniteSet({r \in Row : Present(r)})'
  BY StaysFinite
<1>0. ASSUME cited' = cited, links' \cup rnLink' \subseteq links \cup rnLink, openRows' \subseteq openRows,
             rnWork' \cup rnRest' \cup rnBatch' \subseteq Work
      PROVE  PresentInv'
  BY <1>0, PresentKept
<1>1. CASE SeedChunk
  <2>1. PICK from \in [CopiedNow -> Row] :
          /\ \A r \in CopiedNow : from[r] \in CopySources(r)
          /\ disp' = [r \in Row |-> IF r \in CopiedNow THEN disp[from[r]]
                                    ELSE IF r \in Inserted /\ disp[r] = "absent" THEN "pending" ELSE disp[r]]
          /\ links' = links \cup CopiedLinks(from)
    BY <1>1 DEF SeedChunk
  <2>2. UNCHANGED <<cited, rnLink, openRows, rnWork, rnRest, rnBatch>>
    BY <1>1 DEF SeedChunk
  <2>3. ASSUME NEW l \in CopiedLinks(from) PROVE Present(l[2])'
    <3>1. l[2] \in CopiedNow /\ <<l[1], from[l[2]]>> \in links
      BY <2>3 DEF CopiedLinks
    <3>2. Present(from[l[2]])
      BY <3>1 DEF PresentInv
    <3>3. l[2] \in Row
      BY <1>1, <3>1, SeedRowsAreRows DEF SeedChunk
    <3> QED
      BY <2>1, <3>1, <3>2, <3>3 DEF Present
  <2> QED
    BY <1>r, <1>f, <2>1, <2>2, <2>3 DEF PresentInv
<1>2. CASE Indexing /\ ~SeedChunk
  <2>1. UNCHANGED <<openRows, rnLink, cited, rnWork, rnRest, rnBatch>>
    BY <1>2, IndexingFrame
  <2>2. ASSUME NEW s, NEW by, BeginIndex(s, by) \/ BeginDelete(s, by) PROVE links' = links
    BY <2>2 DEF BeginIndex, BeginDelete
  <2>3. links' = links
    BY <1>2, <2>2 DEF Indexing, ReplaceChunks, MarkRemoved, FlagBlocks, mark_superseded
  <2> QED
    BY <1>0, <2>1, <2>3
<1>3. ASSUME NEW r \in Row, NEW b \in Blocks, CreateBlock(r, b) PROVE PresentInv'
  <2>1. /\ rnLink' = {<<b, r>>} /\ UNCHANGED <<links, openRows, rnWork, rnRest, rnBatch>>
        /\ cited' = [cited EXCEPT ![b] = {r}] /\ r \in rnBatch
    BY <1>3 DEF CreateBlock, MayPlace
  <2> QED
    BY <1>t, <1>r, <1>f, <2>1 DEF PresentInv
<1>4. ASSUME NEW r \in Row, NEW b \in Blocks, PlaceDuplicate(r, b) PROVE PresentInv'
  <2>1. /\ UNCHANGED <<openRows, rnLink, cited, rnWork, rnRest, rnBatch>> /\ r \in rnBatch
        /\ links' \subseteq links \cup {<<b, r>>}
    BY <1>4 DEF PlaceDuplicate, Placing, MayPlace
  <2> QED
    BY <1>r, <1>f, <2>1 DEF PresentInv
<1>5. ASSUME NEW r \in Row, NEW b \in Blocks, PlaceConflict(r, b) PROVE PresentInv'
  <2>1. /\ openRows' = openRows \cup {[kind |-> "conflict", chunks |-> {r}, src |-> r.src, block |-> b, state |-> "new"]}
        /\ UNCHANGED <<links, rnLink, cited, rnWork, rnRest, rnBatch>> /\ r \in rnBatch
    BY <1>5 DEF PlaceConflict, Placing, MayPlace
  <2> QED
    BY <1>r, <1>f, <2>1 DEF PresentInv
<1>6. CASE link_block_chunk
  <2>1. links' = links \cup rnLink /\ rnLink' = {} /\ UNCHANGED <<cited, openRows, rnWork, rnRest, rnBatch>>
    BY <1>6 DEF link_block_chunk
  <2> QED
    BY <1>0, <2>1
<1>7. ASSUME NEW r \in Row, DeferIrrelevant(r) \/ _record_placement_outcomes(r) \/ ChunkFails(r) \/ MarkDeferred(r)
      PROVE  PresentInv'
  BY <1>0, <1>7 DEF DeferIrrelevant, _record_placement_outcomes, ChunkFails, MarkDeferred, LeavesBatch
<1>8. ASSUME NEW s \in Sources, StartGroup(s) PROVE PresentInv'
  BY <1>0, <1>8 DEF StartGroup
<1>9. CASE StartBatch
  <2>1. PICK B \in SUBSET rnRest : rnBatch' = B /\ rnRest' = rnRest \ B
    BY <1>9 DEF StartBatch
  <2> QED
    BY <1>0, <1>9, <2>1 DEF StartBatch
<1>10. CASE EndBatch \/ BatchFails \/ PageConflict
  BY <1>0, <1>10 DEF EndBatch, BatchFails, PageConflict, BatchEnds
<1>11. CASE FinishScan \/ FinalizeGroup \/ finish_run \/ ReleaseLock
  BY <1>0, <1>11 DEF FinishScan, FinalizeGroup, finish_run, ReleaseLock
<1>12. CASE StartRun
  <2>1. rnWork' = _worklist /\ UNCHANGED <<links, rnLink, cited, openRows, rnRest, rnBatch>>
    BY <1>12 DEF StartRun
  <2>2. \A r \in _worklist : r \in Row /\ Present(r)
    BY DEF _worklist, Present, TypeOK, LedgerType
  <2> QED
    BY <1>r, <1>f, <1>p, <2>1, <2>2 DEF PresentInv
<1>13. CASE EndGroup \/ create_stale_block_reviews
  <2>1. Rows /\ UNCHANGED <<cited, links, rnLink>> /\ rnWork' \cup rnRest' \cup rnBatch' \subseteq Work
    BY <1>13 DEF EndGroup, create_stale_block_reviews
  <2> QED
    BY <2>1, PresentKept
<1>14. CASE DeferredRaises \/ RunRaises \/ emit_review_file \/ KillRun
  <2>1. /\ openRows' = InState(openRows, "new", "lost") \/ openRows' = InState(openRows, "new", "filed")
        /\ UNCHANGED <<cited, links>> /\ rnLink' \subseteq rnLink
        /\ rnWork' \cup rnRest' \cup rnBatch' \subseteq Work
    BY <1>14 DEF DeferredRaises, RunRaises, AbortRun, emit_review_file, KillRun
  <2>2. Rows
    BY <1>t, <2>1, InStateSame
  <2> QED
    BY <2>1, <2>2, PresentKept
<1>15. ASSUME NEW w \in openRows, NEW n \in Blocks, NEW d \in Decisions, AcceptCandidate(w, n, d) PROVE PresentInv'
  <2>1. /\ cited' = [cited EXCEPT ![n] = Kept(w, d)] /\ links' = links \cup ({n} \X Kept(w, d))
        /\ openRows' = openRows \ {w} /\ w.kind = "conflict"
        /\ UNCHANGED <<rnLink, rnWork, rnRest, rnBatch>>
    BY <1>15 DEF AcceptCandidate, MayApply
  <2>2. \A r \in Kept(w, d) : Present(r)'
    BY <1>t, <1>r, <2>1 DEF Kept, Merged
  <2> HIDE DEF Refs
  <2>3. \A b \in Blocks : \A r \in cited'[b] : Present(r)'
    BY <1>t, <1>r, <2>1, <2>2 DEF Refs
  <2> QED
    BY <1>r, <1>f, <2>1, <2>2, <2>3 DEF PresentInv, Refs
<1>16. ASSUME NEW w \in openRows, MergeCandidate(w) PROVE PresentInv'
  <2>1. /\ openRows' = (openRows \ {w}) \cup {[w EXCEPT !.chunks = Merged(w)]} /\ w.kind = "conflict"
        /\ UNCHANGED <<links, rnLink, cited, rnWork, rnRest, rnBatch>>
    BY <1>16 DEF MergeCandidate, MayApply
  <2>2. \A r \in Merged(w) : Present(r)'
    BY <1>t, <1>r, <2>1 DEF Merged
  <2>3. w \in [kind : {"conflict", "exclusion", "needs_review"}, chunks : SUBSET Row, src : Sources \cup {NoSource},
               block : Blocks \cup {NoBlock}, state : {"new", "filed", "lost"}]
    BY <1>t DEF ReviewRow
  <2>4. \A o \in openRows' : o.kind = "conflict" => \A r \in o.chunks : Present(r)'
    BY <1>r, <2>1, <2>2, <2>3
  <2> QED
    BY <1>r, <1>f, <2>1, <2>4 DEF PresentInv
<1>17. ASSUME NEW w \in openRows, RejectCandidate(w) \/ DeleteDuplicate(w) PROVE PresentInv'
  BY <1>0, <1>17 DEF RejectCandidate, DeleteDuplicate
<1>18. ASSUME NEW w \in openRows, NEW status, ApplyStale(w, status) PROVE PresentInv'
  BY <1>0, <1>18 DEF ApplyStale
<1>19. ASSUME NEW w \in openRows, NEW to, StartExclusion(w, to) PROVE PresentInv'
  BY <1>0, <1>19 DEF StartExclusion
<1>20. ASSUME NEW r \in Row, ExcludeChunk(r) PROVE PresentInv'
  BY <1>0, <1>20 DEF ExcludeChunk
<1>21. CASE FinishExclusion \/ ExclusionRaises \/ KillIndexing \/ KillApply \/ UNCHANGED vars
  BY <1>0, <1>21 DEF FinishExclusion, ExclusionRaises, KillIndexing, KillApply, vars
<1>22. CASE \/ \E s \in Sources, v \in Versions \cup {NoFile} : EditFile(s, v)
            \/ \E s \in Sources, d \in ResetFrom : reset_dispositions(s, d)
            \/ BeginProcess \/ BeginAuto \/ BeginReindex
  BY <1>0, <1>22 DEF EditFile, reset_dispositions, BeginProcess, BeginAuto, BeginReindex
<1> HIDE DEF Rows, Refs
<1> QED
  BY <1>1, <1>2, <1>3, <1>4, <1>5, <1>6, <1>7, <1>8, <1>9, <1>10, <1>11, <1>12, <1>13, <1>14, <1>15, <1>16, <1>17,
     <1>18, <1>19, <1>20, <1>21, <1>22 DEF Next, Running, Batching, Applying

------------------------------------------------------------------------------
(* What a completed run has dealt with.                                    *)

(* The rows of a text are rows. *)
LEMMA TextRows ==
  ASSUME NEW s \in Sources, NEW v \in Versions, NEW i \in 1..Len(Content[v])
  PROVE  [src |-> s, ver |-> v, ord |-> i] \in Row
<1>1. Len(Content[v]) \in 0..MaxChunks
  BY LenContent
<1>2. i \in 1..MaxChunks
  BY <1>1, ContentAssumption
<1> QED
  BY <1>2 DEF Row

(* A text that is in the ledger stays there while its document and chunks do. *)
LEMMA SeededKept ==
  ASSUME TypeOK, [Next]_vars, NEW s \in Sources, docVer[s] \in Versions, docVer'[s] = docVer[s],
         \A r \in live : r.src = s => r \in live', NEW n, SeededTo(s, n)
  PROVE  SeededTo(s, n)'
<1> SUFFICES ASSUME NEW i \in 1..Len(Content[docVer[s]]), i < n
             PROVE  /\ [src |-> s, ver |-> docVer[s], ord |-> i] \in live'
                    /\ disp'[[src |-> s, ver |-> docVer[s], ord |-> i]] # "absent"
  BY DEF SeededTo
<1> DEFINE r == [src |-> s, ver |-> docVer[s], ord |-> i]
<1>1. r \in Row /\ r.src = s
  BY TextRows
<1>2. r \in live /\ disp[r] # "absent"
  BY DEF SeededTo
<1> QED
  BY <1>1, <1>2, StaysPresent DEF Present

(* So is a source that is covered. *)
LEMMA CoveredKept ==
  ASSUME TypeOK, [Next]_vars, NEW s \in Sources, docVer'[s] = docVer[s], s \in removed => s \in removed',
         \A r \in live : r.src = s => r \in live', Covered(s)
  PROVE  Covered(s)'
<1>1. CASE docVer[s] = NoFile \/ s \in removed
  BY <1>1 DEF Covered
<1>2. CASE docVer[s] # NoFile /\ s \notin removed
  <2>1. docVer[s] \in Versions /\ SeededTo(s, MaxChunks + 1)
    BY <1>2 DEF Covered, TypeOK, WorkspaceType
  <2>2. SeededTo(s, MaxChunks + 1)'
    BY <2>1, SeededKept
  <2> QED
    BY <2>2 DEF Covered
<1> QED
  BY <1>1, <1>2

(* While sources are scanned, only one that is still to be scanned is      *)
(* being indexed.                                                          *)
LEMMA ScanIndexes ==
  ASSUME TypeOK, LockInv, "startup" \notin Drivers, rnPhase = "scan", ixPhase # "idle"
  PROVE  ixBy = "process" /\ ixSrc \in rnTodo
  BY DEF LockInv, TypeOK, IndexType

(* One step of seeding adds the row of the ordinal it has reached. *)
LEMMA SeedCovers ==
  ASSUME TypeOK, CoverInv, SeedChunk, [Next]_vars
  PROVE  /\ ixPhase' = "create" => SeededTo(ixSrc, ixOrd)'
         /\ ixPhase' = "reconcile" => SeededTo(ixSrc, MaxChunks + 1)'
<1>1. /\ UNCHANGED <<docVars, ixSrc>> /\ live' = live \cup Inserted /\ ixPhase = "create"
      /\ ixSrc \in Sources /\ docVer[ixSrc] \in Versions /\ ixOrd \in 1..MaxChunks + 1
  BY DEF SeedChunk, TypeOK, IndexInText, IndexType
<1>2. PICK s \in Sources : s = ixSrc
  BY <1>1
<1>3. PICK n \in 1..MaxChunks + 1 : n = ixOrd
  BY <1>1
<1>4. PICK v \in Versions : v = docVer[s] /\ docVer'[s] = v
  BY <1>1, <1>2 DEF docVars
<1>5. SeededTo(s, n)'
  <2>1. SeededTo(s, n)
    BY <1>1, <1>2, <1>3 DEF CoverInv
  <2> QED
    BY <1>1, <1>4, <2>1, SeededKept
<1>6. Len(Content[v]) \in 0..MaxChunks /\ MaxChunks \in Nat
  BY LenContent, ContentAssumption
<1>7. CASE n > Len(Content[v])
  <2>1. ixPhase' = "reconcile"
    BY <1>2, <1>3, <1>4, <1>7 DEF SeedChunk, LastOrd
  <2>2. \A i \in 1..Len(Content[v]) : i < n
    BY <1>6, <1>7
  <2>3. SeededTo(s, MaxChunks + 1)'
    BY <1>4, <1>5, <2>2 DEF SeededTo
  <2> QED
    BY <1>1, <1>2, <2>1, <2>3
<1>8. CASE ~(n > Len(Content[v]))
  <2>1. ixPhase' = "create" /\ ixOrd' = n + 1
    BY <1>1, <1>2, <1>3, <1>4, <1>8 DEF SeedChunk, LastOrd
  <2>2. n \in 1..Len(Content[v])
    BY <1>6, <1>8
  <2> DEFINE r == [src |-> s, ver |-> v, ord |-> n]
  <2>3. r \in Inserted /\ r \in Row
    BY <1>2, <1>3, <1>4, <2>2, TextRows DEF Inserted, SeedRow, LastOrd
  <2>4. r \in live' /\ disp'[r] # "absent"
    <3>1. PICK from \in [CopiedNow -> Row] :
            disp' = [q \in Row |-> IF q \in CopiedNow THEN disp[from[q]]
                                   ELSE IF q \in Inserted /\ disp[q] = "absent" THEN "pending" ELSE disp[q]]
      BY DEF SeedChunk
    <3>2. \A j \in {ixOrd - 1} \cap 1..LastOrd : SeedRow(j).ord # n
      BY <1>3 DEF SeedRow
    <3>3. r \notin CopiedNow
      BY <3>2 DEF CopiedNow
    <3> QED
      BY <1>1, <2>3, <3>1, <3>3
  <2>5. \A i \in 1..Len(Content[v]) : i < n + 1 => i < n \/ i = n
    BY <1>6
  <2>6. SeededTo(s, n + 1)'
    BY <1>4, <1>5, <2>4, <2>5 DEF SeededTo
  <2> QED
    BY <1>1, <1>2, <2>1, <2>6
<1> QED
  BY <1>7, <1>8

(* Indexing covers a source before it is scanned, and leaves the others    *)
(* alone.                                                                  *)
LEMMA IndexingCovers ==
  ASSUME TypeOK, LockInv, JobInv, CoverInv, "startup" \notin Drivers, Indexing, [Next]_vars
  PROVE  CoverInv'
<1> USE DEF docVars, ixVars, ledgerVars, rnVars
<1>t. /\ ixBy \in {"none", "watcher", "process", "startup"} /\ rnTodo \subseteq Sources
      /\ (ixPhase # "idle" => ixSrc \in Sources) /\ live \subseteq Row
      /\ ixPhase \in {"document", "create", "reconcile"} => docVer[ixSrc] \in Versions
      /\ docVer \in [Sources -> Versions \cup {NoFile}]
  BY DEF TypeOK, IndexType, RunType, IndexInText, LedgerType, WorkspaceType
<1>r. rnPhase \in {"idle", "scan"} /\ UNCHANGED <<rnPhase, rnScan, lastRun>>
  BY <1>t, RunsAlone, IndexingFrame
<1> DEFINE Scanned == rnPhase = "scan" => \A s \in Sources \ rnTodo : Covered(s)
<1>0. ASSUME Scanned', ixPhase' \notin {"create", "reconcile"} PROVE CoverInv'
  BY <1>0, <1>r DEF CoverInv
<1>a. ASSUME UNCHANGED docVars, UNCHANGED rnTodo, UNCHANGED live PROVE Scanned'
  BY <1>a, <1>r, CoveredKept DEF CoverInv
<1>1. ASSUME NEW s \in Sources, NEW by \in {"watcher", "process", "startup"}, BeginIndex(s, by) PROVE CoverInv'
  <2>1. /\ ixPhase' = "document" /\ UNCHANGED <<live, rnTodo>>
        /\ \A q \in Sources \ {s} : docVer'[q] = docVer[q] /\ (q \in removed => q \in removed')
    BY <1>1, <1>t DEF BeginIndex
  <2>2. rnPhase = "scan" => s \in rnTodo
    BY <1>1, <1>t DEF BeginIndex, MayIndex, LockInv
  <2>3. Scanned'
    BY <1>r, <2>1, <2>2, CoveredKept DEF CoverInv
  <2> QED
    BY <1>0, <2>1, <2>3
<1>2. ASSUME NEW s \in Sources, NEW by \in {"watcher", "process", "startup"}, BeginDelete(s, by) PROVE CoverInv'
  <2>1. /\ ixPhase' = "delete" /\ UNCHANGED <<live, rnTodo, docVer, removed>>
    BY <1>2 DEF BeginDelete
  <2>2. Scanned'
    BY <1>r, <2>1, CoveredKept DEF CoverInv
  <2> QED
    BY <1>0, <2>1, <2>2
<1>3. CASE ReplaceChunks
  <2>1. /\ ixPhase = "document" /\ ixPhase' = "create" /\ ixOrd' = 1 /\ UNCHANGED <<docVars, rnTodo, ixSrc>>
        /\ live' = live \ RowsOf(ixSrc)
    BY <1>3 DEF ReplaceChunks
  <2>2. Scanned'
    <3> SUFFICES ASSUME rnPhase = "scan", NEW q \in Sources \ rnTodo PROVE Covered(q)'
      BY <1>r, <2>1
    <3>1. q # ixSrc /\ Covered(q)
      BY <1>r, <2>1, ScanIndexes DEF CoverInv
    <3>2. \A r \in live : r.src = q => r \in live'
      BY <2>1, <3>1 DEF RowsOf
    <3> QED
      BY <2>1, <3>1, <3>2, CoveredKept
  <2>3. SeededTo(ixSrc, ixOrd)'
    <3>1. PICK s \in Sources : s = ixSrc /\ docVer[s] \in Versions
      BY <1>t, <2>1
    <3>2. Len(Content[docVer[s]]) \in 0..MaxChunks
      BY <3>1, LenContent
    <3>3. \A i \in 1..Len(Content[docVer[s]]) : ~(i < 1)
      BY <3>2
    <3> QED
      BY <2>1, <3>1, <3>3 DEF SeededTo
  <2> QED
    BY <1>r, <2>1, <2>2, <2>3 DEF CoverInv
<1>4. CASE SeedChunk
  <2>1. /\ ixPhase = "create" /\ ixPhase' \in {"create", "reconcile"} /\ UNCHANGED <<docVars, ixSrc, rnTodo>>
        /\ live \subseteq live'
    BY <1>4 DEF SeedChunk
  <2>2. Scanned'
    BY <1>r, <2>1, CoveredKept DEF CoverInv
  <2>3. /\ ixPhase' = "create" => SeededTo(ixSrc, ixOrd)'
        /\ ixPhase' = "reconcile" => SeededTo(ixSrc, MaxChunks + 1)'
    BY <1>4, SeedCovers
  <2> QED
    BY <1>r, <2>2, <2>3 DEF CoverInv
<1>5. ASSUME NEW r \in Row, mark_superseded(r) PROVE CoverInv'
  <2>1. /\ ixPhase \in {"reconcile", "delete"} /\ UNCHANGED <<docVars, ixSrc, ixPhase, rnTodo, live>>
    BY <1>5 DEF mark_superseded
  <2>2. ixPhase = "reconcile" => SeededTo(ixSrc, MaxChunks + 1)'
    <3> SUFFICES ASSUME ixPhase = "reconcile" PROVE SeededTo(ixSrc, MaxChunks + 1)'
      OBVIOUS
    <3>1. PICK s \in Sources : s = ixSrc /\ docVer[s] \in Versions
      BY <1>t
    <3>2. SeededTo(s, MaxChunks + 1)
      BY <3>1 DEF CoverInv
    <3>3. SeededTo(s, MaxChunks + 1)'
      BY <2>1, <3>1, <3>2, SeededKept
    <3> QED
      BY <2>1, <3>1, <3>3
  <2> QED
    BY <1>a, <1>r, <2>1, <2>2 DEF CoverInv
<1>6. CASE MarkRemoved
  <2>1. ixPhase' = "removed" /\ UNCHANGED <<docVer, live, rnTodo>> /\ removed \subseteq removed'
    BY <1>6 DEF MarkRemoved
  <2>2. Scanned'
    BY <1>r, <2>1, CoveredKept DEF CoverInv
  <2> QED
    BY <1>0, <2>1, <2>2
<1>7. CASE FlagBlocks
  <2>1. /\ ixPhase' = "idle" /\ UNCHANGED <<docVer, removed, live>>
        /\ rnTodo' = IF ixBy = "process" THEN rnTodo \ {ixSrc} ELSE rnTodo
        /\ ixPhase = "removed" \/ ixPhase = "reconcile"
    BY <1>7 DEF FlagBlocks, IndexEnds
  <2>2. Covered(ixSrc)
    BY <2>1 DEF CoverInv, JobInv, Covered
  <2>3. PICK s \in Sources : s = ixSrc
    BY <1>t, <2>1
  <2>4. Scanned'
    <3> SUFFICES ASSUME rnPhase = "scan", NEW q \in Sources \ rnTodo' PROVE Covered(q)'
      BY <1>r, <2>1
    <3>1. Covered(q)
      BY <2>1, <2>2, <2>3 DEF CoverInv
    <3> QED
      BY <2>1, <3>1, CoveredKept
  <2> QED
    BY <1>0, <2>1, <2>4
<1> HIDE DEF Scanned
<1> QED
  BY <1>1, <1>2, <1>3, <1>4, <1>5, <1>6, <1>7 DEF Indexing

(* The phases of a run: it scans, works, ends and is idle again.           *)
LEMMA RunPhases ==
  ASSUME TypeOK, LockInv, "startup" \notin Drivers, [Next]_vars, ~Indexing
  PROVE  \/ BeginProcess \/ BeginAuto \/ BeginReindex \/ FinishScan \/ finish_run
         \/ (rnPhase' = "idle" /\ live' = live)
         \/ /\ UNCHANGED <<live, rnScan, rnTodo>>
            /\ rnPhase' = rnPhase \/ (rnPhase \notin {"idle", "scan"} /\ rnPhase' \notin {"idle", "scan"})
            /\ rnPhase' = "done" => (rnPhase = "done" /\ UNCHANGED <<lastRun, disp>>) \/ lastRun' = "aborted"
<1> USE DEF ixVars, ledgerVars, rnVars, wsVars, docVars, blockVars, apVars
<1>t. ixBy \in {"none", "watcher", "process", "startup"}
  BY DEF TypeOK, IndexType
<1> DEFINE Goes == /\ UNCHANGED <<live, rnScan, rnTodo>>
                   /\ rnPhase' = rnPhase \/ (rnPhase \notin {"idle", "scan"} /\ rnPhase' \notin {"idle", "scan"})
                   /\ rnPhase' = "done" => (rnPhase = "done" /\ UNCHANGED <<lastRun, disp>>) \/ lastRun' = "aborted"
<1>1. ASSUME ReleaseLock \/ KillRun PROVE live' = live /\ rnPhase' = "idle"
  BY <1>1 DEF ReleaseLock, KillRun
<1>2. ASSUME DeferredRaises \/ RunRaises PROVE Goes
  BY <1>2 DEF DeferredRaises, RunRaises, AbortRun
<1>3. ASSUME NEW r \in Row, NEW b \in Blocks, CreateBlock(r, b) \/ PlaceDuplicate(r, b) \/ PlaceConflict(r, b)
      PROVE  Goes
  BY <1>3 DEF CreateBlock, PlaceDuplicate, PlaceConflict, Placing, MayPlace
<1>4. ASSUME NEW r \in Row, DeferIrrelevant(r) \/ _record_placement_outcomes(r) \/ ChunkFails(r) \/ MarkDeferred(r)
      PROVE  Goes
  BY <1>4 DEF DeferIrrelevant, _record_placement_outcomes, ChunkFails, MarkDeferred, MayPlace
<1>5. ASSUME NEW s \in Sources, StartGroup(s) PROVE Goes
  BY <1>5 DEF StartGroup
<1>6. ASSUME StartRun \/ StartBatch \/ EndBatch \/ BatchFails \/ PageConflict \/ FinalizeGroup PROVE Goes
  <2>1. /\ rnPhase \notin {"idle", "scan"} /\ rnPhase' \in {"work", "batch", "irrelevant", "exclude"}
        /\ UNCHANGED <<live, rnScan, rnTodo>>
    BY <1>6 DEF StartRun, StartBatch, EndBatch, BatchFails, PageConflict, BatchEnds, FinalizeGroup
  <2> QED
    BY <2>1
<1>7. ASSUME EndGroup \/ create_stale_block_reviews \/ emit_review_file PROVE Goes
  BY <1>7 DEF EndGroup, create_stale_block_reviews, emit_review_file
<1>8. ASSUME \/ link_block_chunk \/ KillIndexing \/ KillApply \/ UNCHANGED vars
             \/ \E s \in Sources, v \in Versions \cup {NoFile} : EditFile(s, v)
      PROVE  Goes
  BY <1>8 DEF link_block_chunk, KillIndexing, KillApply, EditFile, vars, batchVars
<1>9. ASSUME Applying \/ \E s \in Sources, d \in ResetFrom : reset_dispositions(s, d) PROVE Goes
  <2>1. rnPhase \in {"idle", "scan"}
    BY <1>9, <1>t, RunsAlone DEF reset_dispositions
  <2>2. UNCHANGED <<rnPhase, live, rnScan, rnTodo>>
    BY <1>9, ApplyingFrame DEF reset_dispositions
  <2> QED
    BY <2>1, <2>2
<1> HIDE DEF Goes
<1>10. \/ BeginProcess \/ BeginAuto \/ BeginReindex \/ FinishScan \/ finish_run
       \/ (rnPhase' = "idle" /\ live' = live) \/ Goes
  BY <1>1, <1>2, <1>3, <1>4, <1>5, <1>6, <1>7, <1>8, <1>9 DEF Next, Running, Batching
<1> QED
  BY <1>10 DEF Goes

(* No step takes a source that was scanned off the cover; the gate of a    *)
(* run counts what is pending.                                             *)
LEMMA CoverStep ==
  ASSUME TypeOK, LockInv, JobInv, PresentInv, CoverInv, "startup" \notin Drivers, [Next]_vars
  PROVE  CoverInv'
<1> USE DEF ixVars, ledgerVars, rnVars, wsVars, blockVars, apVars
<1>t. /\ ixBy \in {"none", "watcher", "process", "startup"} /\ rnTodo \subseteq Sources
      /\ (ixPhase # "idle" => ixSrc \in Sources) /\ live \subseteq Row /\ lastRun \in {"none", "completed", "aborted"}
      /\ ixPhase \in {"document", "create", "reconcile"} => docVer[ixSrc] \in Versions
      /\ docVer \in [Sources -> Versions \cup {NoFile}]
  BY DEF TypeOK, IndexType, RunType, IndexInText, LedgerType, WorkspaceType
<1> DEFINE Jobs == /\ ixPhase = "create" => SeededTo(ixSrc, ixOrd)
                   /\ ixPhase = "reconcile" => SeededTo(ixSrc, MaxChunks + 1)
           Runs == /\ rnPhase = "scan" => \A s \in Sources \ rnTodo : Covered(s)
                   /\ rnPhase \notin {"idle", "scan"} /\ rnScan => \A s \in Sources : Covered(s)
                   /\ rnPhase = "done" /\ lastRun = "completed" => \A r \in Row : disp[r] # "pending"
<1>c. CoverInv <=> Jobs /\ Runs
  BY DEF CoverInv
<1>d. CoverInv' <=> Jobs' /\ Runs'
  BY DEF CoverInv
<1>0. ASSUME ~Indexing, live' = live PROVE Jobs' /\ \A s \in Sources : Covered(s) => Covered(s)'
  <2>1. UNCHANGED docVars /\ (UNCHANGED ixVars \/ ixPhase' = "idle")
    BY <1>0, OthersDoNotIndex
  <2>2. \A s \in Sources : Covered(s) => Covered(s)'
    BY <1>0, <2>1, CoveredKept DEF docVars
  <2>3. ASSUME UNCHANGED ixVars, ixPhase \in {"create", "reconcile"}
        PROVE  Jobs'
    <3>1. PICK s \in Sources : s = ixSrc
      BY <1>t, <2>3
    <3>2. PICK n : n = IF ixPhase = "create" THEN ixOrd ELSE MaxChunks + 1
      OBVIOUS
    <3>3. SeededTo(s, n) /\ docVer[s] \in Versions
      BY <1>c, <1>t, <2>3, <3>1, <3>2
    <3>4. SeededTo(s, n)'
      BY <1>0, <2>1, <3>3, SeededKept DEF docVars
    <3> QED
      BY <2>3, <3>1, <3>2, <3>4
  <2> QED
    BY <2>1, <2>2, <2>3
<1> HIDE DEF Jobs
<1>1. ASSUME ~Indexing, live' = live, rnScan' = rnScan, rnTodo' = rnTodo,
             rnPhase' = rnPhase \/ (rnPhase \notin {"idle", "scan"} /\ rnPhase' \notin {"idle", "scan"}),
             rnPhase' = "done" => (rnPhase = "done" /\ lastRun' = lastRun /\ disp' = disp) \/ lastRun' = "aborted"
      PROVE  CoverInv'
  <2>1. Runs'
    BY <1>0, <1>1, <1>c
  <2> QED
    BY <1>0, <1>1, <1>d, <2>1
<1>2. CASE Indexing
  BY <1>2, IndexingCovers
<1>3. CASE ~Indexing /\ (BeginProcess \/ BeginAuto)
  <2>1. live' = live /\ ((rnPhase' = "scan" /\ rnTodo' = Sources) \/ (rnPhase' = "retry" /\ ~rnScan'))
    BY <1>3 DEF BeginProcess, BeginAuto
  <2> QED
    BY <1>0, <1>3, <1>d, <2>1
<1>4. CASE BeginReindex
  <2>1. rnPhase' = "scan" /\ rnTodo' = Sources /\ ixPhase' = ixPhase
    BY <1>4 DEF BeginReindex
  <2>2. ixPhase = "idle"
    BY <1>4, <1>t DEF BeginReindex, LockInv
  <2> QED
    BY <1>d, <2>1, <2>2 DEF Jobs
<1>5. CASE ~Indexing /\ FinishScan
  <2>1. /\ \A s \in rnTodo : docVer[s] = NoFile \/ s \in removed
        /\ rnPhase = "scan" /\ live' = live /\ rnPhase' \in {"idle", "retry"}
    BY <1>5 DEF FinishScan
  <2>2. \A s \in Sources : Covered(s)
    BY <1>c, <2>1 DEF Covered
  <2> QED
    BY <1>0, <1>5, <1>d, <2>1, <2>2
<1>6. CASE ~Indexing /\ finish_run
  <2>1. /\ rnPhase = "finish" /\ rnPhase' = "done" /\ UNCHANGED <<live, rnScan, disp>>
        /\ lastRun' = "completed" => ~(_pending_count > 0)
    BY <1>6 DEF finish_run
  <2>2. ~(_pending_count > 0) => \A r \in Row : disp[r] # "pending"
    <3> DEFINE P == {r \in Row : disp[r] = "pending"}
    <3>1. P \subseteq {r \in Row : Present(r)}
      BY DEF Present
    <3>2. IsFiniteSet(P)
      BY <3>1, FS_Subset DEF PresentInv
    <3>3. Cardinality(P) \in Nat /\ (Cardinality(P) = 0 <=> P = {})
      BY <3>2, FS_CardinalityType, FS_EmptySet
    <3> QED
      BY <3>3 DEF _pending_count
  <2>3. \A s \in Sources : Covered(s) => Covered(s)'
    BY <1>0, <1>6, <2>1
  <2>4. Runs'
    BY <1>c, <2>1, <2>2, <2>3
  <2> QED
    BY <1>0, <1>6, <1>d, <2>1, <2>4
<1>7. CASE ~Indexing /\ rnPhase' = "idle" /\ live' = live
  BY <1>0, <1>7, <1>d
<1> HIDE DEF Runs
<1> QED
  BY <1>1, <1>2, <1>3, <1>4, <1>5, <1>6, <1>7, RunPhases

(* A run that completes has dealt with every chunk of every source it      *)
(* scanned: none is missing from the ledger, none is pending.              *)
THEOREM RunsDealWithAll == "startup" \notin Drivers => (Spec => []CompletedRunCovers)
<1> SUFFICES ASSUME "startup" \notin Drivers PROVE Spec => []CompletedRunCovers
  OBVIOUS
<1> DEFINE IInv == LockInv /\ JobInv /\ PresentInv /\ CoverInv
<1>1. Init => IInv
  <2> SUFFICES ASSUME Init PROVE IInv
    OBVIOUS
  <2>1. {r \in Row : Present(r)} = {}
    BY DEF Init, Present
  <2>2. PresentInv
    BY <2>1, FS_EmptySet DEF Init, PresentInv
  <2> QED
    BY <2>2 DEF Init, LockInv, JobInv, CoverInv
<1>2. TypeOK /\ IInv /\ [Next]_vars => IInv'
  BY LockStep, JobStep, PresentStep, CoverStep
<1>3. TypeOK /\ IInv => CompletedRunCovers
  <2> SUFFICES ASSUME TypeOK, IInv, rnPhase = "done", rnScan, lastRun = "completed",
                      NEW s \in Sources, docVer[s] # NoFile, s \notin removed, NEW i \in 1..Len(Content[docVer[s]])
               PROVE  LET r == [src |-> s, ver |-> docVer[s], ord |-> i]
                      IN  r \in live /\ disp[r] \notin {"absent", "pending"}
    BY DEF CompletedRunCovers
  <2>1. docVer[s] \in Versions /\ SeededTo(s, MaxChunks + 1) /\ \A r \in Row : disp[r] # "pending"
    BY DEF CoverInv, Covered, TypeOK, WorkspaceType
  <2>2. Len(Content[docVer[s]]) \in 0..MaxChunks /\ MaxChunks \in Nat
    BY <2>1, LenContent, ContentAssumption
  <2>3. i < MaxChunks + 1
    BY <2>2
  <2> QED
    BY <2>1, <2>3, TextRows DEF SeededTo
<1> HIDE DEF IInv
<1> QED
  BY <1>1, <1>2, <1>3, TypeCorrect, PTL DEF Spec

------------------------------------------------------------------------------
(* What a completed run says about blocks without evidence.                *)

(* Documents come and sources are scanned; a job that removed a source     *)
(* flags its blocks, unless it is killed in between.                       *)
LEMMA SyncStep ==
  ASSUME TypeOK, LockInv, JobInv, PresentInv, SyncInv, "startup" \notin Drivers, "removed" \notin CrashIn, [Next]_vars
  PROVE  SyncInv'
<1> USE DEF docVars, ixVars, ledgerVars, rnVars
<1>t. /\ ixBy \in {"none", "watcher", "process", "startup"} /\ rnTodo \subseteq Sources
      /\ (ixPhase # "idle" => ixSrc \in Sources) /\ removed \subseteq Sources /\ synced \subseteq Sources
      /\ docVer \in [Sources -> Versions \cup {NoFile}] /\ docVer' \in [Sources -> Versions \cup {NoFile}]
      /\ file \in [Sources -> Versions \cup {NoFile}]
  BY TypeStep DEF TypeOK, IndexType, RunType, IndexInText, WorkspaceType
<1>r. Indexing => rnPhase \in {"idle", "scan"} /\ UNCHANGED <<rnPhase, rnScan>>
  BY <1>t, RunsAlone, IndexingFrame
<1>p. \A r \in Row : Present(r)' => docVer'[r.src] # NoFile
  <2>1. \A s \in Sources : docVer[s] # NoFile => docVer'[s] # NoFile
    <3>1. ASSUME NEW q \in Sources, NEW by, BeginIndex(q, by)
          PROVE  \A s \in Sources : docVer[s] # NoFile => docVer'[s] # NoFile
      BY <1>t, <3>1 DEF BeginIndex
    <3>2. ASSUME NEW q \in Sources, NEW by, BeginDelete(q, by) PROVE docVer' = docVer
      BY <3>2 DEF BeginDelete
    <3>3. ASSUME NEW r \in Row, mark_superseded(r) PROVE docVer' = docVer
      BY <3>3 DEF mark_superseded
    <3>4. ~Indexing => docVer' = docVer
      BY OthersDoNotIndex
    <3> QED
      BY <3>1, <3>2, <3>3, <3>4 DEF Indexing, ReplaceChunks, SeedChunk, MarkRemoved, FlagBlocks
  <2>2. ASSUME NEW r \in Row, Present(r)', ~Present(r) PROVE docVer[r.src] # NoFile
    <3>1. Indexing /\ disp'[r] # disp[r]
      BY <2>2, OthersDoNotInsert DEF Present
    <3>2. CASE SeedChunk
      <4>1. r.src = ixSrc /\ ixPhase = "create"
        BY <3>1, <3>2, SeedChanges DEF SeedChunk
      <4> QED
        BY <4>1 DEF JobInv
    <3>3. CASE ~SeedChunk
      <4>1. r \in ixTodo
        BY <3>1, <3>3, IndexingMarks DEF Transition
      <4> QED
        BY <4>1 DEF JobInv, RowsOf
    <3> QED
      BY <3>2, <3>3
  <2>3. \A r \in Row : r.src \in Sources
    BY DEF Row
  <2> QED
    BY <2>1, <2>2, <2>3 DEF SyncInv
<1> DEFINE Removed == \A s \in removed : s \in synced \/ (ixPhase = "removed" /\ ixSrc = s)
           Scanned == /\ rnPhase = "scan" => Sources \ rnTodo \subseteq synced
                      /\ rnPhase \notin {"idle", "scan"} /\ rnScan => \A s \in Sources : s \in synced \/ docVer[s] = NoFile
<1>s. SyncInv => Removed /\ Scanned
  BY DEF SyncInv
<1>q. Removed' /\ Scanned' => SyncInv'
  BY <1>p DEF SyncInv
<1>1. ASSUME NEW s \in Sources, NEW by \in {"watcher", "process", "startup"}, BeginIndex(s, by) \/ BeginDelete(s, by)
      PROVE  SyncInv'
  <2>1. /\ ixPhase = "idle" /\ synced' = synced \ {s} /\ removed' = removed \ {s} /\ rnTodo' = rnTodo
    BY <1>1 DEF BeginIndex, BeginDelete, MayIndex
  <2>2. rnPhase = "scan" => s \in rnTodo
    BY <1>1, <1>t DEF BeginIndex, BeginDelete, MayIndex, LockInv
  <2>3. Indexing
    BY <1>1 DEF Indexing
  <2> QED
    BY <1>q, <1>r, <1>s, <2>1, <2>2, <2>3
<1>2. CASE ReplaceChunks \/ SeedChunk \/ \E r \in Row : mark_superseded(r)
  <2>1. UNCHANGED <<docVars, rnTodo>> /\ ixPhase # "removed"
    BY <1>2 DEF ReplaceChunks, SeedChunk, mark_superseded
  <2>2. Indexing
    BY <1>2 DEF Indexing
  <2> QED
    BY <1>q, <1>r, <1>s, <2>1, <2>2
<1>3. CASE MarkRemoved
  <2>1. ixPhase = "delete" /\ ixPhase' = "removed" /\ removed' = removed \cup {ixSrc}
        /\ UNCHANGED <<synced, docVer, rnTodo, ixSrc>>
    BY <1>3 DEF MarkRemoved
  <2>2. Indexing
    BY <1>3 DEF Indexing
  <2> QED
    BY <1>q, <1>r, <1>s, <2>1, <2>2
<1>4. CASE FlagBlocks
  <2>1. /\ synced' = synced \cup {ixSrc} /\ UNCHANGED <<removed, docVer>>
        /\ rnTodo' = IF ixBy = "process" THEN rnTodo \ {ixSrc} ELSE rnTodo
    BY <1>4 DEF FlagBlocks
  <2>2. Indexing
    BY <1>4 DEF Indexing
  <2> QED
    BY <1>q, <1>r, <1>s, <2>1, <2>2
<1>5. CASE ~Indexing
  <2>1. UNCHANGED docVars
    BY <1>5, OthersDoNotIndex
  <2>2. Removed'
    <3>1. CASE ixPhase = "removed"
      <4>1. ~KillIndexing
        BY <3>1 DEF KillIndexing, Kill, IndexPhase
      <4>2. ~KillRun \/ UNCHANGED ixVars
        BY <3>1 DEF KillRun, Kill, IndexPhase
      <4>3. UNCHANGED ixVars
        <5>1. CASE Running
          BY <5>1, RunningFrame DEF CreateBlock
        <5>2. CASE Applying
          BY <5>2, ApplyingFrame
        <5> QED
          BY <1>5, <4>1, <4>2, <5>1, <5>2
             DEF Next, EditFile, BeginProcess, BeginAuto, BeginReindex, reset_dispositions, KillApply, vars
      <4> QED
        BY <1>s, <2>1, <4>3
    <3>2. CASE ixPhase # "removed"
      BY <1>s, <2>1, <3>2
    <3> QED
      BY <3>1, <3>2
  <2>3. Scanned'
    <3>1. CASE BeginProcess \/ BeginAuto \/ BeginReindex
      <4>1. (rnPhase' = "scan" /\ rnTodo' = Sources) \/ (rnPhase' = "retry" /\ ~rnScan')
        BY <3>1 DEF BeginProcess, BeginAuto, BeginReindex
      <4> QED
        BY <4>1
    <3>2. CASE FinishScan
      <4>1. /\ rnPhase = "scan" /\ rnPhase' \in {"idle", "retry"} /\ ixBy # "process"
            /\ \A s \in rnTodo : docVer[s] = NoFile \/ s \in removed
        BY <3>2 DEF FinishScan
      <4>2. ixPhase # "removed"
        BY <1>t, <4>1 DEF LockInv
      <4> QED
        BY <1>s, <2>1, <4>1, <4>2
    <3>3. CASE finish_run
      BY <1>s, <2>1, <3>3 DEF finish_run
    <3>4. CASE rnPhase' = "idle"
      BY <3>4
    <3>5. CASE /\ UNCHANGED <<rnScan, rnTodo>>
               /\ rnPhase' = rnPhase \/ (rnPhase \notin {"idle", "scan"} /\ rnPhase' \notin {"idle", "scan"})
      BY <1>s, <2>1, <3>5
    <3> QED
      BY <1>5, <3>1, <3>2, <3>3, <3>4, <3>5, RunPhases
  <2> QED
    BY <1>q, <2>2, <2>3
<1> HIDE DEF Removed, Scanned
<1> QED
  BY <1>1, <1>2, <1>3, <1>4, <1>5 DEF Indexing

(* Only the index job of its source supersedes a row. *)
LEMMA SupersededByJob ==
  ASSUME TypeOK, JobInv, [Next]_vars, NEW r \in Row, disp'[r] = "superseded", disp[r] # "superseded"
  PROVE  Indexing /\ ixPhase # "idle" /\ r.src = ixSrc
<1>1. CASE ~Indexing
  <2>1. ASSUME NEW S, NEW d \in Disposition \ {"superseded"}, Transition(S, d) PROVE FALSE
    BY <2>1 DEF Transition
  <2>2. ASSUME NEW S, mark_failed(S) PROVE FALSE
    BY <2>2 DEF mark_failed, FailedAs
  <2>3. ASSUME NEW w, NEW S, _finalize_candidate_dispositions(w, S) PROVE FALSE
    BY <2>3 DEF _finalize_candidate_dispositions
  <2>4. ASSUME NEW s \in Sources, NEW d \in ResetFrom, reset_dispositions(s, d) PROVE FALSE
    BY <2>4 DEF reset_dispositions
  <2>5. ASSUME NEW w \in openRows, DeleteDuplicate(w) PROVE FALSE
    BY <2>5 DEF DeleteDuplicate
  <2> QED
    BY <1>1, <2>1, <2>2, <2>3, <2>4, <2>5, Marks
<1>2. CASE SeedChunk
  <2>1. r.src = ixSrc /\ ixPhase = "create"
    BY <1>2, SeedChanges DEF SeedChunk
  <2> QED
    BY <1>2, <2>1 DEF Indexing
<1>3. CASE Indexing /\ ~SeedChunk
  <2>1. r \in ixTodo
    BY <1>3, IndexingMarks DEF Transition
  <2> QED
    BY <1>3, <2>1 DEF JobInv, RowsOf
<1> QED
  BY <1>1, <1>2, <1>3

(* Evidence is never taken from a block, and only these steps change a     *)
(* block that has lost its evidence and has not been decided about.        *)
LEMMA BlockChanges ==
  ASSUME TypeOK, [Next]_vars, NEW b \in Blocks
  PROVE  /\ links \subseteq links'
         /\ orphaned' \subseteq orphaned \/ (\E r \in Row : mark_superseded(r))
         /\ \/ blockStatus'[b] = blockStatus[b] /\ blockSrc'[b] = blockSrc[b]
            \/ b \notin orphaned' \/ blockStatus[b] = "none" \/ FlagBlocks
            \/ \E r \in Row : PlaceDuplicate(r, b)
<1> USE DEF blockVars
<1>t. blockStatus \in [Blocks -> BlockStatus] /\ blockSrc \in [Blocks -> Sources \cup {NoSource}]
  BY DEF TypeOK, BlockType
<1> DEFINE Same == links \subseteq links' /\ orphaned' \subseteq orphaned
                   /\ blockStatus'[b] = blockStatus[b] /\ blockSrc'[b] = blockSrc[b]
           Decided == links \subseteq links' /\ orphaned' \subseteq orphaned
                      /\ ((blockStatus'[b] = blockStatus[b] /\ blockSrc'[b] = blockSrc[b])
                            \/ b \notin orphaned' \/ blockStatus[b] = "none")
<1>1. ASSUME NEW s, NEW by, BeginIndex(s, by) \/ BeginDelete(s, by) PROVE Same
  BY <1>1 DEF BeginIndex, BeginDelete
<1>2. ASSUME NEW r \in Row, mark_superseded(r) PROVE links' = links /\ blockStatus' = blockStatus /\ blockSrc' = blockSrc
  BY <1>2 DEF mark_superseded
<1>3. ASSUME FlagBlocks PROVE links' = links /\ orphaned' = orphaned
  BY <1>3 DEF FlagBlocks
<1>4. ASSUME ReplaceChunks \/ SeedChunk \/ MarkRemoved PROVE Same
  BY <1>4 DEF ReplaceChunks, SeedChunk, MarkRemoved
<1>5. ASSUME NEW r \in Row, NEW c \in Blocks, CreateBlock(r, c) \/ PlaceConflict(r, c) PROVE Decided
  <2>1. ASSUME CreateBlock(r, c) PROVE Decided
    BY <1>t, <2>1 DEF CreateBlock
  <2>2. ASSUME PlaceConflict(r, c) PROVE Decided
    BY <2>2 DEF PlaceConflict
  <2> QED
    BY <1>5, <2>1, <2>2
<1>6. ASSUME NEW r \in Row, NEW c \in Blocks, PlaceDuplicate(r, c)
      PROVE  links \subseteq links' /\ orphaned' = orphaned /\ (c = b \/ Same)
  BY <1>t, <1>6 DEF PlaceDuplicate
<1>7. ASSUME NEW r \in Row, DeferIrrelevant(r) \/ _record_placement_outcomes(r) \/ ChunkFails(r) \/ MarkDeferred(r) PROVE Same
  BY <1>7 DEF DeferIrrelevant, _record_placement_outcomes, ChunkFails, MarkDeferred
<1>8. ASSUME NEW s \in Sources, StartGroup(s) PROVE Same
  BY <1>8 DEF StartGroup
<1>9. ASSUME FinishScan \/ StartRun \/ StartBatch \/ link_block_chunk \/ EndBatch \/ BatchFails \/ PageConflict
             \/ FinalizeGroup \/ EndGroup \/ DeferredRaises \/ RunRaises \/ create_stale_block_reviews
             \/ emit_review_file \/ finish_run \/ ReleaseLock
      PROVE  Same
  BY <1>9 DEF FinishScan, StartRun, StartBatch, link_block_chunk, EndBatch, BatchFails, PageConflict, FinalizeGroup,
     EndGroup, DeferredRaises, RunRaises, AbortRun, create_stale_block_reviews, emit_review_file, finish_run, ReleaseLock
<1>10. ASSUME NEW w \in openRows, NEW n \in Blocks, NEW d \in Decisions, AcceptCandidate(w, n, d) PROVE Decided
  <2>1. PICK decided \in {{}, {w.block}} :
          /\ blockStatus' = [c \in Blocks |->
                CASE c = n -> IF d = "mark_conflicted" THEN "conflicted" ELSE "current"
                  [] c \in decided -> IF d = "mark_conflicted" THEN "conflicted" ELSE "deprecated"
                  [] OTHER -> blockStatus[c]]
          /\ orphaned' = orphaned \ decided
    BY <1>10 DEF AcceptCandidate
  <2>2. links \subseteq links' /\ blockStatus[n] = "none" /\ blockSrc' = [blockSrc EXCEPT ![n] = w.src]
    BY <1>10 DEF AcceptCandidate
  <2>3. b = n \/ b \in decided \/ (blockStatus'[b] = blockStatus[b] /\ blockSrc'[b] = blockSrc[b])
    BY <1>t, <2>1, <2>2
  <2> QED
    BY <2>1, <2>2, <2>3
<1>11. ASSUME NEW w \in openRows, NEW status, ApplyStale(w, status) PROVE Decided
  BY <1>t, <1>11 DEF ApplyStale, Decide
<1>12. ASSUME NEW w \in openRows, RejectCandidate(w) \/ MergeCandidate(w) \/ DeleteDuplicate(w) PROVE Decided
  BY <1>t, <1>12 DEF RejectCandidate, MergeCandidate, DeleteDuplicate, Decide
<1>13. ASSUME NEW w \in openRows, NEW to, StartExclusion(w, to) PROVE Same
  BY <1>13 DEF StartExclusion
<1>14. ASSUME (\E r \in Row : ExcludeChunk(r)) \/ FinishExclusion \/ ExclusionRaises PROVE Same
  BY <1>14 DEF ExcludeChunk, FinishExclusion, ExclusionRaises
<1>15. ASSUME \/ \E s \in Sources, v \in Versions \cup {NoFile} : EditFile(s, v)
              \/ \E s \in Sources, d \in ResetFrom : reset_dispositions(s, d)
              \/ BeginProcess \/ BeginAuto \/ BeginReindex \/ KillIndexing \/ KillRun \/ KillApply \/ UNCHANGED vars
       PROVE  Same
  BY <1>15 DEF EditFile, reset_dispositions, BeginProcess, BeginAuto, BeginReindex, KillIndexing, KillRun, KillApply, vars
<1>16. Same => Decided
  OBVIOUS
<1> HIDE DEF Same
<1>17. Decided \/ FlagBlocks \/ (\E r \in Row : mark_superseded(r)) \/ (\E r \in Row, c \in Blocks : PlaceDuplicate(r, c))
  <2> HIDE DEF Decided
  <2> QED
    BY <1>1, <1>4, <1>5, <1>7, <1>8, <1>9, <1>10, <1>11, <1>12, <1>13, <1>14, <1>15, <1>16
       DEF Next, Indexing, Running, Batching, Applying
<1>18. CASE Decided
  BY <1>18
<1>19. CASE FlagBlocks
  BY <1>3, <1>19
<1>20. ASSUME NEW r \in Row, mark_superseded(r)
       PROVE  links \subseteq links' /\ blockStatus'[b] = blockStatus[b] /\ blockSrc'[b] = blockSrc[b]
  BY <1>2, <1>20
<1>21. ASSUME NEW r \in Row, NEW c \in Blocks, PlaceDuplicate(r, c)
       PROVE  /\ links \subseteq links' /\ orphaned' \subseteq orphaned
              /\ PlaceDuplicate(r, b) \/ (blockStatus'[b] = blockStatus[b] /\ blockSrc'[b] = blockSrc[b])
  BY <1>6, <1>21 DEF Same
<1> HIDE DEF Decided
<1> QED
  BY <1>17, <1>18, <1>19, <1>20, <1>21

(* A block that has only superseded rows had only superseded rows before,  *)
(* unless the job of its source is in progress.                            *)
LEMMA OnlySupersededBefore ==
  ASSUME TypeOK, JobInv, OwnInv, FlagInv, [Next]_vars, NEW s \in synced, NEW b \in orphaned, blockSrc[b] = s, OnlySuperseded(b)'
  PROVE  OnlySuperseded(b) /\ blockStatus[b] \in {"needs_review", "deleted"}
<1>1. Links(b) # {} /\ b \in Blocks
  BY DEF FlagInv, TypeOK, BlockType
<1>2. ASSUME NEW r \in Links(b) PROVE disp[r] = "superseded"
  <2>1. r \in Row /\ <<b, r>> \in links
    BY DEF Links
  <2>2. <<b, r>> \in links'
    BY <1>1, <2>1, BlockChanges
  <2>3. disp'[r] = "superseded"
    BY <2>1, <2>2 DEF OnlySuperseded, Links
  <2>4. r.src = s
    BY <2>1 DEF OwnInv
  <2> QED
    BY <2>1, <2>3, <2>4, SupersededByJob DEF JobInv
<1>3. OnlySuperseded(b)
  BY <1>1, <1>2 DEF OnlySuperseded
<1> QED
  BY <1>3 DEF FlagInv, FlaggedBlocks

(* A block that has lost its evidence stays flagged until it is decided    *)
(* about or has evidence again.                                            *)
LEMMA FlagStep ==
  ASSUME TypeOK, LockInv, GroupInv, OwnedInv, JobInv, OwnInv, FlagInv, [Next]_vars
  PROVE  FlagInv'
<1>t. /\ orphaned \subseteq Blocks /\ orphaned' \subseteq Blocks /\ synced \subseteq Sources
      /\ blockStatus \in [Blocks -> BlockStatus] /\ links \subseteq Blocks \X Row /\ rnBatch \subseteq Row
  BY TypeStep DEF TypeOK, BlockType, WorkspaceType, BatchType
<1>1. ASSUME NEW b \in orphaned' PROVE Links(b)' # {}
  <2>1. b \in Blocks /\ links \subseteq links'
    BY <1>t, <1>1, BlockChanges
  <2>2. ASSUME NEW r \in Links(b) PROVE r \in Links(b)'
    BY <2>1, <2>2 DEF Links
  <2>3. CASE b \in orphaned
    BY <2>2, <2>3 DEF FlagInv
  <2>4. CASE b \notin orphaned
    <3>1. PICK r \in Row : mark_superseded(r)
      BY <1>1, <2>1, <2>4, BlockChanges
    <3>2. r \in Links(b)
      BY <1>1, <2>4, <3>1 DEF mark_superseded
    <3> QED
      BY <2>2, <3>2
  <2> QED
    BY <2>3, <2>4
<1>2. ASSUME NEW s \in synced', NEW b \in orphaned', blockSrc'[b] = s, OnlySuperseded(b)'
      PROVE  blockStatus'[b] \in {"needs_review", "deleted"}
  <2>1. b \in Blocks
    BY <1>t
  <2>2. CASE FlagBlocks
    <3>1. /\ synced' = synced \cup {ixSrc} /\ UNCHANGED <<blockSrc, orphaned, links, disp>>
          /\ blockStatus' = [c \in Blocks |-> IF LostEvidence(c) THEN "needs_review" ELSE blockStatus[c]]
      BY <2>2 DEF FlagBlocks, ledgerVars
    <3>2. OnlySuperseded(b)
      BY <1>2, <3>1 DEF OnlySuperseded, Links
    <3>3. CASE s = ixSrc
      BY <1>2, <2>1, <3>1, <3>2, <3>3 DEF LostEvidence
    <3>4. CASE s # ixSrc
      BY <1>2, <2>1, <3>1, <3>2, <3>4 DEF FlagInv, FlaggedBlocks
    <3> QED
      BY <3>3, <3>4
  <2>3. CASE ~FlagBlocks
    <3>1. s \in synced
      <4>1. ASSUME NEW q, NEW by, BeginIndex(q, by) \/ BeginDelete(q, by) PROVE synced' \subseteq synced
        BY <4>1 DEF BeginIndex, BeginDelete
      <4>2. ASSUME NEW r \in Row, mark_superseded(r) PROVE synced' = synced
        BY <4>2 DEF mark_superseded, docVars
      <4>3. ~Indexing => synced' = synced
        BY OthersDoNotIndex DEF docVars
      <4> QED
        BY <2>3, <4>1, <4>2, <4>3 DEF Indexing, ReplaceChunks, SeedChunk, MarkRemoved, docVars
    <3>2. CASE blockStatus[b] = "none"
      <4>1. \A r \in Row : <<b, r>> \notin links
        BY <3>2 DEF OwnInv
      <4>2. b \notin orphaned
        BY <4>1 DEF FlagInv, Links
      <4>3. PICK r \in Row : mark_superseded(r)
        BY <1>2, <2>1, <4>2, BlockChanges
      <4>4. r \in Links(b)
        BY <1>2, <4>2, <4>3 DEF mark_superseded
      <4> QED
        BY <4>1, <4>4 DEF Links
    <3>3. ASSUME NEW r \in Row, PlaceDuplicate(r, b) PROVE blockStatus'[b] \in {"needs_review", "deleted"}
      <4>1. /\ UNCHANGED <<blockSrc, orphaned, disp>> /\ r \in rnBatch
            /\ IF b \in flagged THEN links' = links \cup {<<b, r>>} ELSE UNCHANGED <<blockStatus, links>>
        BY <3>3 DEF PlaceDuplicate, Placing, MayPlace, ledgerVars
      <4>2. disp[r] = "pending"
        BY <4>1 DEF OwnedInv
      <4>3. b \notin flagged
        <5>1. CASE b \in flagged
          <6>1. r \in Links(b)'
            BY <4>1, <5>1 DEF Links
          <6> QED
            BY <1>2, <4>1, <4>2, <6>1 DEF OnlySuperseded
        <5> QED
          BY <5>1
      <4>4. blockStatus'[b] = blockStatus[b] /\ b \in orphaned /\ blockSrc[b] = s
        BY <1>2, <4>1, <4>3
      <4> QED
        BY <1>2, <3>1, <4>4, OnlySupersededBefore
    <3>4. CASE blockStatus'[b] = blockStatus[b] /\ blockSrc'[b] = blockSrc[b]
      <4>1. CASE b \in orphaned
        BY <1>2, <3>1, <3>4, <4>1, OnlySupersededBefore
      <4>2. CASE b \notin orphaned
        <5>1. PICK r \in Row : mark_superseded(r)
          BY <1>2, <2>1, <4>2, BlockChanges
        <5>2. r \in Links(b) /\ r \in ixTodo /\ ixPhase # "idle"
          BY <1>2, <4>2, <5>1 DEF mark_superseded
        <5>3. blockSrc[b] = ixSrc
          BY <5>2 DEF Links, OwnInv, JobInv, RowsOf
        <5> QED
          BY <1>2, <3>1, <3>4, <5>2, <5>3 DEF JobInv
      <4> QED
        BY <4>1, <4>2
    <3> QED
      BY <1>2, <2>1, <2>3, <3>2, <3>3, <3>4, BlockChanges
  <2> QED
    BY <2>2, <2>3
<1> QED
  BY <1>1, <1>2 DEF FlagInv, FlaggedBlocks

(* A row that is filed or lost is still about its block. *)
LEMMA InStateBlocks ==
  ASSUME NEW R \in SUBSET ReviewRow, NEW from, NEW to, NEW v \in R
  PROVE  \E w \in InState(R, from, to) : w.block = v.block
<1> DEFINE w == IF v.state = from THEN [v EXCEPT !.state = to] ELSE v
<1>1. w \in InState(R, from, to)
  BY DEF InState
<1>2. v \in [kind : {"conflict", "exclusion", "needs_review"}, chunks : SUBSET Row, src : Sources \cup {NoSource},
             block : Blocks \cup {NoBlock}, state : {"new", "filed", "lost"}]
  BY DEF ReviewRow
<1>3. w.block = v.block
  BY <1>2
<1> QED
  BY <1>1, <1>3

(* A run lists the stale blocks last: nothing it does after that changes a *)
(* block or closes a row.                                                  *)
LEMMA ListStep ==
  ASSUME TypeOK, LockInv, ListInv, "startup" \notin Drivers, [Next]_vars
  PROVE  ListInv'
<1> USE DEF ixVars, ledgerVars, rnVars, wsVars, docVars, blockVars, apVars
<1>t. /\ ixBy \in {"none", "watcher", "process", "startup"} /\ openRows \subseteq ReviewRow
      /\ lastRun \in {"none", "completed", "aborted"}
  BY DEF TypeOK, IndexType, ReviewType, RunType
<1> DEFINE Kept1 == /\ Listing /\ blockStatus' = blockStatus
                    /\ \A v \in openRows : \E w \in openRows' : w.block = v.block
<1>0. ASSUME Kept1 PROVE ListInv'
  <2>1. \A b \in Blocks : blockStatus[b] = "needs_review" => \E w \in openRows : w.block = b
    BY <1>0 DEF ListInv
  <2> QED
    BY <1>0, <2>1 DEF ListInv
<1>1. CASE ~Listing'
  BY <1>1 DEF ListInv
<1>2. CASE create_stale_block_reviews
  <2>1. /\ blockStatus' = blockStatus
        /\ openRows' = openRows \cup
             {[kind |-> "needs_review", chunks |-> {}, src |-> NoSource, block |-> b, state |-> "new"] :
                b \in {c \in Blocks : blockStatus[c] = "needs_review"} \ {w.block : w \in openRows}}
    BY <1>2 DEF create_stale_block_reviews
  <2>2. ASSUME NEW b \in Blocks, blockStatus[b] = "needs_review", \A w \in openRows : w.block # b
        PROVE  \E w \in openRows' : w.block = b
    <3> DEFINE o == [kind |-> "needs_review", chunks |-> {}, src |-> NoSource, block |-> b, state |-> "new"]
    <3>1. o \in openRows' /\ o.block = b
      BY <2>1, <2>2
    <3> QED
      BY <3>1
  <2> QED
    BY <2>1, <2>2 DEF ListInv
<1>3. CASE emit_review_file
  <2>1. rnPhase = "emit" /\ openRows' = InState(openRows, "new", "filed") /\ blockStatus' = blockStatus
    BY <1>3 DEF emit_review_file
  <2>2. Kept1
    BY <1>t, <2>1, InStateBlocks DEF Listing
  <2> QED
    BY <1>0, <2>2
<1>4. CASE finish_run
  BY <1>0, <1>4 DEF finish_run, Listing
<1>5. CASE DeferredRaises \/ RunRaises
  BY <1>1, <1>5 DEF DeferredRaises, RunRaises, AbortRun, Listing
<1>6. CASE ReleaseLock \/ KillRun \/ BeginProcess \/ BeginAuto \/ BeginReindex \/ FinishScan
  BY <1>1, <1>6 DEF ReleaseLock, KillRun, BeginProcess, BeginAuto, BeginReindex, FinishScan, Listing
<1>7. ASSUME NEW r \in Row, NEW b \in Blocks, CreateBlock(r, b) \/ PlaceDuplicate(r, b) \/ PlaceConflict(r, b)
      PROVE  ListInv'
  BY <1>1, <1>7 DEF CreateBlock, PlaceDuplicate, PlaceConflict, Placing, MayPlace, Listing
<1>8. ASSUME NEW r \in Row, DeferIrrelevant(r) \/ _record_placement_outcomes(r) \/ ChunkFails(r) \/ MarkDeferred(r)
      PROVE  ListInv'
  BY <1>1, <1>8 DEF DeferIrrelevant, _record_placement_outcomes, ChunkFails, MarkDeferred, MayPlace, Listing
<1>9. ASSUME NEW s \in Sources, StartGroup(s) PROVE ListInv'
  BY <1>1, <1>9 DEF StartGroup, Listing
<1>10. CASE StartRun \/ StartBatch \/ EndBatch \/ BatchFails \/ PageConflict \/ FinalizeGroup \/ EndGroup
  <2>1. rnPhase' \in {"work", "batch", "irrelevant", "exclude"}
    BY <1>10 DEF StartRun, StartBatch, EndBatch, BatchFails, PageConflict, BatchEnds, FinalizeGroup, EndGroup
  <2> QED
    BY <1>1, <2>1 DEF Listing
<1>11. CASE Listing' /\ (\/ link_block_chunk \/ KillIndexing \/ KillApply \/ UNCHANGED vars
                         \/ \E s \in Sources, v \in Versions \cup {NoFile} : EditFile(s, v))
  <2>1. UNCHANGED <<rnPhase, lastRun, blockStatus, openRows>>
    BY <1>11 DEF link_block_chunk, KillIndexing, KillApply, EditFile, vars
  <2> QED
    BY <1>0, <1>11, <2>1 DEF Listing
<1>12. CASE Applying \/ Indexing \/ \E s \in Sources, d \in ResetFrom : reset_dispositions(s, d)
  <2>1. rnPhase \in {"idle", "scan"}
    BY <1>12, <1>t, RunsAlone DEF reset_dispositions
  <2>2. rnPhase' = rnPhase
    BY <1>12, ApplyingFrame, IndexingFrame DEF reset_dispositions
  <2> QED
    BY <1>1, <2>1, <2>2 DEF Listing
<1> HIDE DEF Kept1
<1> QED
  BY <1>1, <1>2, <1>3, <1>4, <1>5, <1>6, <1>7, <1>8, <1>9, <1>10, <1>11, <1>12 DEF Next, Running, Batching

(* After a run that completed, a block that lost its last evidence is      *)
(* marked, unless it was decided about, and every marked block is listed   *)
(* for review.  A merge may give a block evidence of another source, and a *)
(* job that is killed after it removed a source never flags its blocks.    *)
THEOREM RunsListStaleBlocks ==
  "startup" \notin Drivers /\ "merge" \notin Decisions /\ "removed" \notin CrashIn => (Spec => []CompletedRunListsStale)
<1> SUFFICES ASSUME "startup" \notin Drivers, "merge" \notin Decisions, "removed" \notin CrashIn
             PROVE  Spec => []CompletedRunListsStale
  OBVIOUS
<1> DEFINE Jobs == LockInv /\ GroupInv /\ OwnedInv /\ JobInv
           IInv == Jobs /\ PresentInv /\ OwnInv /\ SyncInv /\ FlagInv /\ ListInv
<1>1. Init => IInv
  <2> SUFFICES ASSUME Init PROVE IInv
    OBVIOUS
  <2>1. {r \in Row : Present(r)} = {}
    BY DEF Init, Present
  <2>2. PresentInv
    BY <2>1, FS_EmptySet DEF Init, PresentInv
  <2>3. SyncInv
    BY <2>1 DEF Init, SyncInv
  <2>4. LockInv /\ GroupInv /\ OwnedInv
    BY RunInit
  <2>5. JobInv /\ FlagInv /\ ListInv /\ OwnInv
    BY DEF Init, JobInv, FlagInv, ListInv, Listing, OwnInv
  <2> QED
    BY <2>2, <2>3, <2>4, <2>5
<1>2. TypeOK /\ IInv /\ [Next]_vars => IInv'
  BY LockStep, GroupStep, OwnedStep, JobStep, PresentStep, OwnStep, SyncStep, FlagStep, ListStep
<1>3. TypeOK /\ IInv => CompletedRunListsStale
  <2> SUFFICES ASSUME TypeOK, IInv, rnPhase = "done", rnScan, lastRun = "completed", NEW b \in Blocks
               PROVE  /\ (b \in orphaned /\ OnlySuperseded(b)) => blockStatus[b] \in {"needs_review", "deleted"}
                      /\ blockStatus[b] = "needs_review" => \E w \in openRows : w.block = b
    BY DEF CompletedRunListsStale
  <2>1. ASSUME b \in orphaned, OnlySuperseded(b) PROVE blockStatus[b] \in {"needs_review", "deleted"}
    <3>1. PICK r \in Row : <<b, r>> \in links /\ disp[r] = "superseded"
      BY <2>1 DEF OnlySuperseded, Links
    <3>2. blockSrc[b] = r.src /\ docVer[r.src] # NoFile /\ r.src \in Sources
      BY <3>1 DEF OwnInv, SyncInv, Present, Row
    <3>3. r.src \in synced
      BY <3>2 DEF SyncInv
    <3> QED
      BY <2>1, <3>2, <3>3 DEF FlagInv, FlaggedBlocks
  <2> QED
    BY <2>1 DEF ListInv, Listing
<1> HIDE DEF IInv, Jobs
<1> QED
  BY <1>1, <1>2, <1>3, TypeCorrect, PTL DEF Spec
===============================================================================
