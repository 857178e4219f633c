----------------------------- MODULE WikiPlacement -----------------------------
(***************************************************************************)
(* A processing run, as far as it changes pages (pipeline/run.py,          *)
(* pipeline/placement.py, conflicts/): candidates are compared with the    *)
(* blocks there are, and inserted, found duplicate, or put to review; then *)
(* stale blocks are put to review, the review file is written, and the     *)
(* generated sections.  What the model says is a free choice.              *)
(*                                                                         *)
(* The chunks of a run are one batch; those of a flow are one candidate.   *)
(* Failures of the model, the commits of a link and of a disposition, and  *)
(* what else becomes of the ledger, are in SourceLedger.                   *)
(***************************************************************************)
EXTENDS WikiStore

CONSTANT Alike  \* pairs of pages that may look alike, each with a later one of the registry

ASSUME AlikeAssumption == \A p \in Pages : <<p, p>> \notin Alike

VARIABLES
    flow,     \* the source is a flow
    filed,    \* rows that are in a review file
    broken,   \* history: pages on which an operation was cut off, by a kill or an exception
    orphans,  \* history: blocks that were written when the run was killed
    fresh,    \* history: pages that were rendered by the last operation, and have not changed since
    unlisted  \* history: pages that decisions changed in a call that an exception ended before it listed their conflicts

historyVars == <<flow, filed, broken, orphans, fresh, unlisted>>

Fail(ps) == task' = Idle /\ broken' = broken \cup ps

--------------------------------------------------------------------------------
(* The start, under the lock: edits are marked, and what the ledger found  *)
(* stale is shown on the pages.  A kill in the middle changes nothing but  *)
(* when it is done.                                                        *)

\* reingest.sync_block_statuses.
sync_block_statuses(f) == [p \in Pages |->
    [f[p] EXCEPT !.blocks = [b \in DOMAIN @ |->
        IF b \in BlocksOf(p) /\ block[b].status = "needs_review" THEN [@[b] EXCEPT !.status = "needs_review"] ELSE @[b]]]]

StartRun ==
    /\ task = Idle
    /\ file' = sync_block_statuses(Marked)
    /\ block' = MarkedRows
    /\ LET todo == {c \in Chunks : chunk[c] = "pending"} IN
       task' = [op |-> "run", at |-> "next", todo |-> todo, mine |-> {}, had_work |-> todo # {}]
    /\ fresh' = {}
    /\ UNCHANGED <<registry, rows, chunk, links, head, flow, filed, broken, orphans, unlisted>>

--------------------------------------------------------------------------------
(* write_candidate.  A candidate is compared with the blocks that are both *)
(* on an active page and in the database, deprecated ones too.             *)

_comparison_blocks_for_pages == {b \in Live : block[b].page \in Active /\ b \in On(block[b].page)}
retrieve_comparison_candidates(k) == {b \in _comparison_blocks_for_pages : file[block[b].page].blocks[b].key = k}

\* The search by words, over the pages that are linked and the others: it may find any block.
_fts_block_ids == _comparison_blocks_for_pages

\* What the judge makes of them: a block of the same key makes a duplicate or a conflict, one
\* of another key a conflict if it is taken for the same fact.
detect_candidate_conflict(kind, k) ==
    CASE kind = "duplicate" -> retrieve_comparison_candidates(k)
      [] kind = "conflict" -> retrieve_comparison_candidates(k) \cup _fts_block_ids
IsDistinct(k) == retrieve_comparison_candidates(k) = {}
NextBlock == Cardinality(Known \cup orphans \cup UNION {{rows[r].candidate.id} : r \in {r \in Rows : rows[r].candidate.id # 0}}) + 1
Run(at, todo, more) == task' = With([op |-> "run", at |-> at, todo |-> todo, mine |-> task.mine, had_work |-> task.had_work], more)

\* A flow is one candidate of all its chunks (_process_flow_batch).
Candidates == IF flow THEN {task.todo} \ {{}} ELSE {{c} : c \in task.todo}
Turn(cs, at, more) == Run(at, task.todo \ cs, With([cs |-> cs], more))

\* The page of a candidate, which stays if the candidate does not come to be a block of it.
_resolve_page(p) ==
    /\ p \in Active \/ (registry[p] = "absent" /\ ~file[p].there)
    /\ registry' = [registry EXCEPT ![p] = "active"]

PlaceClean(cs, k, p) ==
    /\ At("run", "next") /\ cs \in Candidates
    /\ _resolve_page(p)
    /\ IsDistinct(k) /\ NextBlock \in Blocks
    /\ Turn(cs, "read", [k |-> k, p |-> p, id |-> NextBlock, again |-> FALSE])
    /\ UNCHANGED <<file, block, rows, chunk, links, head, historyVars>>

\* A stale block that is confirmed is current again, with one chunk more.
PlaceDuplicate(cs, k, p) ==
    /\ At("run", "next") /\ cs \in Candidates
    /\ _resolve_page(p)
    /\ \E b \in detect_candidate_conflict("duplicate", k) :
          LET q == block[b].page IN
          /\ \/ file[q].blocks[b].status # "needs_review" /\ UNCHANGED <<file, block, links>>
             \/ /\ file[q].blocks[b].status = "needs_review"
                /\ file' = [file EXCEPT ![q] = set_status(@, b, "current")]
                /\ block' = [block EXCEPT ![b].status = "current"]
                /\ \E c \in cs : links' = links \cup {<<b, c>>}
          /\ chunk' = [c \in Chunks |-> IF c \in cs THEN "duplicate" ELSE chunk[c]]
    /\ Run("next", task.todo \ cs, NoBlocks)
    /\ UNCHANGED <<rows, head, historyVars>>

PlaceConflict(cs, k, p) ==
    /\ At("run", "next") /\ cs \in Candidates
    /\ _resolve_page(p)
    /\ NextBlock \in Blocks /\ Cardinality(Rows) < MaxRows
    /\ \E b \in detect_candidate_conflict("conflict", k) :
          LET r == Cardinality(Rows) + 1
              q == block[b].page
          IN
          /\ rows' = Put(rows, r, [page |-> q, existing |-> b, peer |-> "none", applied |-> FALSE,
                                   candidate |-> [id |-> NextBlock, key |-> file[q].blocks[b].key, chunks |-> cs]])
          /\ Turn(cs, "found", [p |-> q, id |-> b, r |-> r])
    /\ UNCHANGED <<file, block, chunk, links, head, historyVars>>

--------------------------------------------------------------------------------
(* _insert_clean_block: the page, with one more attempt, then the row.     *)

ReadPage ==
    /\ At("run", "read")
    /\ task' = With([task EXCEPT !.at = "write"], [old |-> file[task.p]])
    /\ UNCHANGED <<storeVars, historyVars>>

\* A mutant of the next: what was read is written back.
WriteOver ==
    /\ At("run", "write")
    /\ file' = [file EXCEPT ![task.p] = insert_block(task.old, task.id, Drafted(task.k, "current"))]
    /\ Goto("create")
    /\ UNCHANGED <<block, registry, rows, chunk, links, head, historyVars>>

WriteBlock ==
    /\ At("run", "write")
    /\ write_page(task.p, insert_block(task.old, task.id, Drafted(task.k, "current")))
    /\ Goto("create")
    /\ UNCHANGED <<block, registry, rows, chunk, links, head, historyVars>>

\* A second conflict leaves the rest of the batch pending.
WriteConflict ==
    /\ At("run", "write") /\ file[task.p] # task.old
    /\ IF task.again
       THEN Run("next", {}, NoBlocks) /\ UNCHANGED <<file, block>>
       ELSE /\ file' = Marked /\ block' = MarkedRows
            /\ task' = [task EXCEPT !.at = "read", !.again = TRUE]
    /\ UNCHANGED <<registry, rows, chunk, links, head, historyVars>>

create_block ==
    /\ At("run", "create")
    /\ block' = [block EXCEPT ![task.id] = [page |-> task.p, key |-> task.k, status |-> "current", edited |-> FALSE]]
    /\ Goto("place")
    /\ UNCHANGED <<file, registry, rows, chunk, links, head, historyVars>>

mark_placed ==
    /\ At("run", "place")
    /\ \E c \in task.cs :
          /\ links' = links \cup {<<task.id, c>>}
          /\ chunk' = [chunk EXCEPT ![c] = "placed"]
          /\ IF task.cs = {c} THEN Run("next", task.todo, NoBlocks) ELSE task' = [task EXCEPT !.cs = @ \ {c}]
    /\ UNCHANGED <<file, block, registry, rows, head, historyVars>>

--------------------------------------------------------------------------------
(* apply_pending_conflict_marker, after the row and before the             *)
(* disposition; a page that changes meanwhile leaves the chunks pending.   *)

ReadMarked ==
    /\ At("run", "found")
    /\ task' = With([task EXCEPT !.at = "marker", !.mine = @ \cup {task.r}], [old |-> file[task.p]])
    /\ UNCHANGED <<storeVars, historyVars>>

apply_pending_conflict_marker ==
    /\ At("run", "marker")
    /\ \/ /\ write_page(task.p, List(add_pending_marker(task.old, task.id, task.r), task.p))
          /\ Goto("conflicted") /\ UNCHANGED broken
       \/ /\ file[task.p] # task.old
          /\ Run("next", {}, NoBlocks)
          /\ broken' = broken \cup {task.p} /\ UNCHANGED file
    /\ UNCHANGED <<block, registry, rows, chunk, links, head, flow, filed, orphans, fresh, unlisted>>

mark_conflicted_pending ==
    /\ At("run", "conflicted")
    /\ chunk' = [c \in Chunks |-> IF c \in task.cs THEN "conflicted_pending" ELSE chunk[c]]
    /\ Run("next", task.todo, NoBlocks)
    /\ UNCHANGED <<file, block, registry, rows, links, head, historyVars>>

--------------------------------------------------------------------------------
(* The end of the run.                                                     *)

\* create_taxonomy_merge_review_rows: a row for pages that look alike, once in a run; it
\* does not matter what other runs have asked.
TaxonomyRow(p, q) ==
    /\ At("run", "next") /\ task.todo = {} /\ task.had_work
    /\ <<p, q>> \in Alike /\ {p, q} \subseteq Active
    /\ \A r \in task.mine : rows[r].page # p \/ rows[r].peer # q
    /\ Cardinality(Rows) < MaxRows
    /\ LET r == Cardinality(Rows) + 1 IN
       /\ rows' = Put(rows, r, [page |-> p, existing |-> 0, peer |-> q, applied |-> FALSE, candidate |-> NoCandidate])
       /\ task' = [task EXCEPT !.mine = @ \cup {r}]
    /\ UNCHANGED <<file, block, registry, chunk, links, head, historyVars>>

Reviewed == {rows[r].existing : r \in Open}
Unreviewed == {b \in Live : block[b].status = "needs_review" /\ b \notin Reviewed}

create_stale_block_reviews ==
    /\ At("run", "next") /\ task.todo = {}
    /\ \/ /\ Unreviewed = {}
          /\ Goto("emit") /\ UNCHANGED rows
       \/ \E b \in Unreviewed :
             LET r == Cardinality(Rows) + 1 IN
             /\ r <= MaxRows
             /\ rows' = Put(rows, r, [page |-> block[b].page, existing |-> b, peer |-> "none", applied |-> FALSE, candidate |-> NoCandidate])
             /\ Run("list", {}, [p |-> block[b].page, mine |-> task.mine \cup {r}, had_work |-> FALSE])
    /\ UNCHANGED <<file, block, registry, chunk, links, head, historyVars>>

ListStale ==
    /\ At("run", "list")
    /\ file' = [file EXCEPT ![task.p] = List(@, task.p)]
    /\ Run("next", {}, NoBlocks)
    /\ UNCHANGED <<block, registry, rows, chunk, links, head, historyVars>>

emit_review_file ==
    /\ At("run", "emit")
    /\ filed' = filed \cup task.mine
    /\ Goto("render")
    /\ UNCHANGED <<storeVars, flow, broken, orphans, fresh, unlisted>>

\* A summary that is not valid is skipped.  A failure of the model, or a page that
\* changes while its summary is drafted, raises before the other pages are rendered.
Render ==
    /\ At("run", "render") \/ At("apply", "render") \/ At("taxonomy", "render")
    /\ \E skipped \in SUBSET _summary_for_page :
          /\ file' = Rendered(skipped)
          /\ \/ Goto("commit") /\ fresh' = Active \ skipped
             \/ skipped # {} /\ task' = Idle /\ UNCHANGED fresh
    /\ UNCHANGED <<block, registry, rows, chunk, links, head, flow, filed, broken, orphans, unlisted>>

\* A run that leaves chunks pending is aborted, without a commit.
CommitWiki ==
    /\ At("run", "commit") \/ At("apply", "commit") \/ At("taxonomy", "commit")
    /\ task' = Idle
    /\ head' = IF task.op = "run" /\ \E c \in Chunks : chunk[c] = "pending" THEN head ELSE [p \in Pages |-> file[p].blocks]
    /\ UNCHANGED <<file, block, registry, rows, chunk, links, historyVars>>

RunStep ==
    \/ StartRun
    \/ \E cs \in SUBSET Chunks, k \in Keys, p \in Pages :
          PlaceClean(cs, k, p) \/ PlaceDuplicate(cs, k, p) \/ PlaceConflict(cs, k, p)
    \/ ReadPage \/ WriteBlock \/ WriteConflict \/ create_block \/ mark_placed
    \/ ReadMarked \/ apply_pending_conflict_marker \/ mark_conflicted_pending
    \/ \E p, q \in Pages : TaxonomyRow(p, q)
    \/ create_stale_block_reviews \/ ListStale \/ emit_review_file \/ Render \/ CommitWiki
================================================================================
