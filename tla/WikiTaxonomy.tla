------------------------------ MODULE WikiTaxonomy ------------------------------
(***************************************************************************)
(* The taxonomy operations (taxonomy.py): merging a page into another,     *)
(* splitting one, renaming one.  Files are written before the database     *)
(* commits where the blocks went; the old file becomes a redirect.         *)
(* Links in other pages are left out.  A merge is the decision of a review *)
(* row as well (_apply_row).                                               *)
(***************************************************************************)
EXTENDS WikiDecisions

CONSTANT Taxonomy  \* the operations that are called

ActiveKeys(p) == {file[p].blocks[b].key : b \in {b \in On(p) : file[p].blocks[b].status \in ActiveKeyStatuses}}
Spread(p, q) == IF p \in broken THEN broken \cup {q} ELSE broken
Start(kind, p, q, at, more) ==
    /\ task = Idle /\ kind \in Taxonomy
    /\ task' = With([op |-> "taxonomy", at |-> at, kind |-> kind, p |-> p, q |-> q], more)
    /\ file' = Marked /\ block' = MarkedRows
    /\ fresh' = {}
    /\ broken' = Spread(p, q)
    /\ UNCHANGED <<rows, chunk, links, head, flow, filed, orphans, unlisted>>

Merging(at) == task.op \in {"apply", "taxonomy"} /\ task.at = at
Ends(at) == task' = IF task.op = "apply" THEN [task EXCEPT !.at = "applied", !.changed = @ \cup {task.p, task.q}]
                    ELSE [task EXCEPT !.at = at]

\* _merge_pages: competing keys are to be resolved before.
StartMerge(p, q) ==
    /\ p # q /\ {p, q} \subseteq Active
    /\ Start("merge", p, q, "target", [blocks |-> Marked[p].blocks, old |-> Marked[q]])
    /\ ActiveKeys(p) \cap ActiveKeys(q) = {}
    /\ UNCHANGED registry

\* The pages of a row need not be active any more.
MergeRow ==
    /\ At("apply", "merge")
    /\ LET p == Row.page
           q == Row.peer
       IN IF ActiveKeys(p) \cap ActiveKeys(q) # {}
          THEN Raise /\ UNCHANGED broken
          ELSE /\ task' = With([task EXCEPT !.at = "target"], [p |-> p, q |-> q, kind |-> "merge", blocks |-> file[p].blocks, old |-> file[q]])
               /\ broken' = Spread(p, q) /\ UNCHANGED unlisted
    /\ UNCHANGED <<storeVars, flow, filed, orphans, fresh>>

WriteTarget ==
    /\ Merging("target")
    /\ \/ /\ write_page(task.q, [task.old EXCEPT !.there = TRUE, !.blocks = With(@, task.blocks)])
          /\ Goto("redirect") /\ UNCHANGED <<broken, unlisted>>
       \/ /\ file[task.q] # task.old /\ Fail({task.p, task.q}) /\ UNCHANGED file
          /\ IF task.op = "apply" THEN Raise ELSE UNCHANGED unlisted
    /\ UNCHANGED <<block, registry, rows, chunk, links, head, flow, filed, orphans, fresh>>

\* _write_redirect_stub, whatever is in the file by now; of a rename it is the old file.
_write_redirect_stub ==
    /\ Merging("redirect")
    /\ file' = [file EXCEPT ![task.p] = Stub]
    /\ Goto("register")
    /\ UNCHANGED <<block, registry, rows, chunk, links, head, historyVars>>

Moved == DOMAIN task.blocks
Rehome(b) == IF b \in Moved \cap Known THEN [block[b] EXCEPT !.page = task.q] ELSE block[b]

\* The commit of update_page is that of the blocks as well; the rows come later.
RegisterMerge ==
    /\ Merging("register") /\ task.kind = "merge"
    /\ block' = [b \in Blocks |-> Rehome(b)]
    /\ registry' = [registry EXCEPT ![task.p] = task.q]
    /\ Goto("rows")
    /\ UNCHANGED <<file, rows, chunk, links, head, historyVars>>

MoveRows ==
    /\ Merging("rows")
    /\ rows' = [r \in Rows |-> IF rows[r].page = task.p /\ ~IsTaxonomy(r) THEN [rows[r] EXCEPT !.page = task.q] ELSE rows[r]]
    /\ Ends("refresh")
    /\ UNCHANGED <<file, block, registry, chunk, links, head, historyVars>>

\* rename_page: the new file is registered when the old one redirects to it.
StartRename(p) ==
    /\ p \in Active /\ file[p].there
    /\ Start("rename", p, p, "redirect", [blocks |-> NoBlocks, moved |-> Marked[p]])
    /\ UNCHANGED registry

RegisterRename ==
    /\ At("taxonomy", "register") /\ task.kind = "rename"
    /\ file' = [file EXCEPT ![task.p] = task.moved]
    /\ Goto("refresh")
    /\ UNCHANGED <<block, registry, rows, chunk, links, head, historyVars>>

\* split_page: the new page is committed first, the page loses its blocks, the new file
\* gets them, and then it is committed where they are.
StartSplit(p, q) ==
    /\ p \in Active /\ registry[q] = "absent" /\ ~file[q].there
    /\ \E moving \in SUBSET On(p) \ {{}} :
          Start("split", p, q, "source", [blocks |-> Restrict(Marked[p].blocks, moving), old |-> Marked[p]])
    /\ registry' = [registry EXCEPT ![q] = "active"]

WriteSource ==
    /\ At("taxonomy", "source")
    /\ \/ /\ write_page(task.p, [task.old EXCEPT !.blocks = Restrict(@, DOMAIN @ \ Moved)])
          /\ Goto("new") /\ UNCHANGED broken
       \/ file[task.p] # task.old /\ Fail({task.p, task.q}) /\ UNCHANGED file
    /\ UNCHANGED <<block, registry, rows, chunk, links, head, flow, filed, orphans, fresh, unlisted>>

WriteNew ==
    /\ At("taxonomy", "new")
    /\ file' = [file EXCEPT ![task.q] = [NoFile EXCEPT !.there = TRUE, !.blocks = task.blocks]]
    /\ Goto("moves")
    /\ UNCHANGED <<block, registry, rows, chunk, links, head, historyVars>>

CommitMoves ==
    /\ At("taxonomy", "moves")
    /\ block' = [b \in Blocks |-> Rehome(b)]
    /\ rows' = [r \in Rows |-> IF rows[r].existing \in Moved THEN [rows[r] EXCEPT !.page = task.q] ELSE rows[r]]
    /\ Goto("refresh")
    /\ UNCHANGED <<file, registry, chunk, links, head, historyVars>>

_refresh_derived_pages ==
    /\ At("taxonomy", "refresh")
    /\ file' = [p \in Pages |-> IF p \in Active /\ (OpenConflicts(p) # {} \/ file[p].listed # {}) THEN List(file[p], p) ELSE file[p]]
    /\ Goto("render")
    /\ UNCHANGED <<block, registry, rows, chunk, links, head, historyVars>>

TaxonomyStep ==
    \/ \E p, q \in Pages : StartMerge(p, q) \/ StartSplit(p, q)
    \/ \E p \in Pages : StartRename(p)
    \/ MergeRow \/ WriteTarget \/ _write_redirect_stub \/ RegisterMerge \/ MoveRows \/ RegisterRename
    \/ WriteSource \/ WriteNew \/ CommitMoves \/ _refresh_derived_pages
================================================================================
