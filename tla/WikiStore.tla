------------------------------- MODULE WikiStore -------------------------------
(***************************************************************************)
(* The wiki of a workspace: the page files with their context blocks, the  *)
(* rows of acw_pages, acw_blocks and acw_review_rows, and the last commit  *)
(* of the wiki's git repository.  A file is written as a whole, and a      *)
(* write is refused when the file is not what was read (write_page).       *)
(*                                                                         *)
(* A page is named by its registry row.  The text of a block is 0 as it    *)
(* was drafted, or the number of the edit of the user that made it.  The   *)
(* order and the sections of blocks are left out.                          *)
(***************************************************************************)
EXTENDS Naturals, FiniteSets, Functions

CONSTANTS
    Pages,      \* pages, registered or not yet
    First,      \* the page that is there at the start, with block 1
    Keys,       \* semantic keys
    Chunks,     \* chunks to place, of one source, from which block 1 is too
    MaxBlocks,  \* bound on the ids of blocks
    MaxRows     \* bound on review rows

ASSUME WikiAssumption == First \in Pages /\ "none" \notin Pages /\ Keys # {} /\ {MaxBlocks, MaxRows} \subseteq Nat \ {0}

Blocks == 1 .. MaxBlocks

VARIABLES
    file,      \* the page files
    block,     \* acw_blocks
    registry,  \* acw_pages: "absent", "active", or the page it was merged into
    rows,      \* acw_review_rows, by id
    chunk,     \* the disposition of each chunk
    links,     \* acw_block_chunks
    head,      \* the blocks of the page files of the last commit
    task       \* the operation that holds the lock, Idle if none does

storeVars == <<file, block, registry, rows, chunk, links, head>>

\* A function or record with more entries, which count where both have one.
With(f, more) == [x \in DOMAIN f \cup DOMAIN more |-> IF x \in DOMAIN more THEN more[x] ELSE f[x]]
Put(f, x, value) == With(f, [y \in {x} |-> value])

NoBlocks == [b \in {} |-> 0]
NoFile == [there |-> FALSE, blocks |-> NoBlocks, listed |-> {}, coverage |-> NoBlocks, digest |-> {}]
Stub == [NoFile EXCEPT !.there = TRUE]
Unknown == [page |-> First, key |-> "none", status |-> "unknown", edited |-> FALSE]
NoCandidate == [id |-> 0, key |-> "none", chunks |-> {}]
Idle == [op |-> "idle"]
At(op, at) == task.op = op /\ task.at = at
Goto(at) == task' = [task EXCEPT !.at = at]

\* Statuses of which there is one block to a key on a page.
ActiveKeyStatuses == {"current", "needs_review"}
Drafted(key, status) == [key |-> key, status |-> status, text |-> 0, edited |-> FALSE, pending |-> {}]

Active == {p \in Pages : registry[p] = "active"}
On(p) == DOMAIN file[p].blocks
Known == {b \in Blocks : block[b].status # "unknown"}
Live == {b \in Known : block[b].status # "deleted"}
BlocksOf(p) == {b \in Live : block[b].page = p}
Rows == DOMAIN rows
Open == {r \in Rows : ~rows[r].applied}
Conflicts(p) == {r \in Open : rows[r].page = p /\ rows[r].peer = "none"}

--------------------------------------------------------------------------------
(* blocks/mutations.py: pages as values. *)

insert_block(f, b, value) == [f EXCEPT !.there = TRUE, !.blocks = Put(@, b, value)]
_remove_block(f, b) == [f EXCEPT !.blocks = Restrict(@, DOMAIN @ \ {b})]
set_status(f, b, status) == [f EXCEPT !.blocks[b].status = status]
add_pending_marker(f, b, r) == [f EXCEPT !.blocks[b].pending = @ \cup {r}]
remove_pending_marker(f, b, r) == [f EXCEPT !.blocks[b].pending = @ \ {r}]

\* write_page(expected_text): the file, unless it is not what the operation has read.
write_page(p, f) == file[p] = task.old /\ file' = [file EXCEPT ![p] = f]

--------------------------------------------------------------------------------
(* gitops.mark_user_edited_blocks: a block that differs from the one of    *)
(* the last commit is the user's, on its page and in the database.         *)

ChangedKeys(p) == {b \in On(p) \cap DOMAIN head[p] : file[p].blocks[b].key # head[p][b].key}  \* a mutant
_changed_block_ids(p) == {b \in On(p) \cap DOMAIN head[p] : file[p].blocks[b] # head[p][b]}
Marked == [p \in Pages |->
    [file[p] EXCEPT !.blocks = [b \in On(p) |-> [file[p].blocks[b] EXCEPT !.edited = @ \/ b \in _changed_block_ids(p)]]]]
MarkedRows == [b \in Blocks |->
    [block[b] EXCEPT !.edited = @ \/ (b \in Known /\ \E p \in Pages : b \in _changed_block_ids(p))]]

--------------------------------------------------------------------------------
(* The sections that are generated, each in a file that may be new.        *)

\* open_conflicts_body.
OpenConflicts(p) ==
    {<<"row", r>> : r \in Conflicts(p)}
        \cup {<<"block", b>> : b \in {b \in BlocksOf(p) : block[b].status = "conflicted"}}
List(f, p) == [f EXCEPT !.there = TRUE, !.listed = OpenConflicts(p)]

\* _page_coverage_body, for the pages the source touches (_page_sources).
Touches(p) == BlocksOf(p) # {} \/ \E r \in Conflicts(p) : rows[r].candidate.id # 0
Coverage(p) == IF Touches(p) THEN chunk ELSE NoBlocks

\* current_block_fingerprint.
Digest(p) == {<<b, file[p].blocks[b].key, file[p].blocks[b].text>> :
                 b \in {b \in On(p) : file[p].blocks[b].status = "current"}}

_summary_is_current(p) == file[p].digest = Digest(p)
\* Pages whose summary the model is asked for; one without current blocks says so itself.
_summary_for_page == {p \in Active : ~_summary_is_current(p) /\ Digest(p) # {}}

\* render_coverage_sections and render_summaries_and_index.
Rendered(skipped) == [p \in Pages |->
    IF p \in Active
    THEN [file[p] EXCEPT !.there = TRUE, !.coverage = Coverage(p), !.digest = IF p \in skipped THEN @ ELSE Digest(p)]
    ELSE file[p]]
================================================================================
