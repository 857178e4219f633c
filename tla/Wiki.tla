---------------------------------- MODULE Wiki ----------------------------------
(***************************************************************************)
(* The wiki as a whole: processing runs, decisions and taxonomy operations *)
(* hold the workspace's lock, one at a time, and may be killed between two *)
(* writes; the user edits the page files when he likes.                    *)
(***************************************************************************)
EXTENDS WikiTaxonomy, WikiLint

CONSTANT MaxSpent  \* bound on what happens: operations, edits and losses of evidence count twice, kills once

VARIABLES
    late,   \* history: blocks edited while an operation ran, or before any commit had them
    lapsed, \* history: blocks that lost their evidence when they were conflicted
    spent

vars == <<storeVars, task, historyVars, late, lapsed, spent>>

Init ==
    /\ block = [b \in Blocks |-> IF b = 1 THEN [page |-> First, key |-> CHOOSE k \in Keys : TRUE,
                                                status |-> "current", edited |-> FALSE] ELSE Unknown]
    /\ file = [p \in Pages |-> IF p = First
                               THEN [Stub EXCEPT !.blocks = [b \in {1} |-> Drafted(block[1].key, "current")]] ELSE NoFile]
    /\ registry = [p \in Pages |-> IF p = First THEN "active" ELSE "absent"]
    /\ rows = [r \in {} |-> 0]
    /\ chunk = [c \in Chunks |-> "pending"]
    /\ links = {}
    /\ head = [p \in Pages |-> file[p].blocks]
    /\ task = Idle
    /\ flow \in BOOLEAN
    /\ filed = {} /\ broken = {} /\ orphans = {} /\ fresh = {} /\ unlisted = {}
    /\ late = {} /\ lapsed = {} /\ spent = 0

Spend(n) == spent + n <= MaxSpent /\ spent' = spent + n

\* The user changes the text of a block in an editor.
EditBlock(p, b) ==
    /\ Spend(2) /\ b \in On(p)
    /\ file' = [file EXCEPT ![p].blocks[b].text = spent + 1]
    /\ late' = IF task # Idle \/ b \notin DOMAIN head[p] THEN late \cup {b} ELSE late
    /\ fresh' = fresh \ {p}
    /\ UNCHANGED <<block, registry, rows, chunk, links, head, task, flow, filed, broken, orphans, unlisted, lapsed>>

\* The last source of a block is removed: reingest.flag_blocks_with_only_superseded_chunks.
flag_blocks_with_only_superseded_chunks(b) ==
    /\ Spend(2) /\ task = Idle
    /\ block[b].status \in {"current", "conflicted", "deprecated"}
    /\ block' = [block EXCEPT ![b].status = "needs_review"]
    /\ lapsed' = IF block[b].status = "conflicted" THEN lapsed \cup {b} ELSE lapsed
    /\ fresh' = {}
    /\ UNCHANGED <<file, registry, rows, chunk, links, head, task, flow, filed, broken, orphans, unlisted, late>>

\* The process ends between two writes.
Kill ==
    /\ Spend(1) /\ task # Idle
    /\ task' = Idle
    /\ broken' = broken \cup
          CASE task.op = "run" /\ task.at \in {"found", "marker", "conflicted", "list"} -> {task.p}
            [] task.op = "apply" -> UNION {{rows[r].page, rows[r].peer} : r \in DOMAIN task.d}
            [] task.op = "taxonomy" -> {task.p, task.q}
            [] OTHER -> {}
    /\ orphans' = IF At("run", "create") THEN orphans \cup {task.id} ELSE orphans
    /\ unlisted' = IF task.op = "apply" THEN unlisted \cup task.changed ELSE unlisted
    /\ UNCHANGED <<storeVars, flow, filed, fresh, late, lapsed>>

Next ==
    \/ /\ RunStep \/ ApplyStep \/ TaxonomyStep
       /\ IF task = Idle THEN Spend(2) ELSE UNCHANGED spent
       /\ UNCHANGED <<late, lapsed>>
    \/ \E p \in Pages, b \in Blocks : EditBlock(p, b)
    \/ \E b \in Blocks : flag_blocks_with_only_superseded_chunks(b)
    \/ Kill

Spec == Init /\ [][Next]_vars

--------------------------------------------------------------------------------
Settled(p) == task = Idle /\ p \in Active \ broken
TextOf(b) == {file[p].blocks[b].text : p \in {p \in Pages : b \in On(p)}}

\* The page of a block shows it, with the status it has in the database, or will when the
\* next run shows that it is stale; a page shows no other block.
InventoryAgrees ==
    \A p \in Pages : Settled(p) =>
        /\ Misplaced(p) \subseteq orphans
        /\ \A b \in BlocksOf(p) \cap On(p) : block[b].status \in {file[p].blocks[b].status, "needs_review"}

\* The pending markers of a page are those of its open rows with a candidate, but for rows
\* of a block that another row has deleted.
MarkersMatch ==
    \A p \in Pages : Settled(p) => Markers(p) = {r \in Conflicts(p) : ~IsStale(r) /\ rows[r].existing \in Live}

\* A row in a review file can be decided: its block is there.
RowsCanBeDecided ==
    \A r \in {r \in Open \cap filed : ~IsTaxonomy(r)} : Settled(rows[r].page) => rows[r].existing \in On(rows[r].page)

\* After an operation that ended well, what is generated is what it is generated from; but a
\* conflicted block that loses its evidence may stay listed.
GeneratedCurrent ==
    task = Idle => \A p \in fresh \ broken :
        /\ p \in unlisted \/ OpenConflicts(p) \in {file[p].listed \ gone : gone \in SUBSET {<<"block", b>> : b \in lapsed}}
        /\ file[p].coverage = Coverage(p)
        /\ file[p].digest = Digest(p)

\* Chunks of a row whose block another row has deleted, blocks that are shown to be stale
\* when the next run starts, and blocks that were merged into a page that redirects.
Unseen ==
    UNION {rows[r].candidate.chunks : r \in {r \in Open : rows[r].existing \notin Live}}
        \cup {b \in Live : block[b].status = "needs_review"}
        \cup UNION {On(p) : p \in Pages \ Active}

\* After operations that ended well, lint reports the work that is left (chunks to place, rows
\* to decide, keys that two accepted blocks share) and no page, block, marker or chunk that is
\* not where it belongs.
LintClean ==
    task = Idle /\ broken = {} /\ unlisted = {} /\ orphans = {} /\ fresh = Active =>
        run_checks \subseteq _check_lint_04_reviews_and_staleness
            \cup {<<"LINT-01", c>> : c \in Pending}
            \cup {<<"LINT-03", k>> : k \in Keys}
            \cup {<<"LINT-05", x>> : x \in Unseen}

\* A text of the user's that is committed is flagged as the user's.
EditsAreMarked ==
    \A p \in Pages : \A b \in DOMAIN head[p] \ late :
        head[p][b].text # 0 => head[p][b].edited

\* A text of the user's is never drafted over; it goes only with a duplicate that the user has
\* deleted, or in a taxonomy operation.  (A merge that is tried again after it was cut off may
\* find two copies of a block, of which the model keeps one.)
UserTextKept ==
    [][\A b \in Blocks : TextOf(b) \ {0} # {} /\ task' # task =>
          \/ TextOf(b) \ {0} \subseteq TextOf(b)'
          \/ task.op = "taxonomy" \/ Merging("redirect") \/ (Merging("target") /\ b \in Moved)
          \/ task.op = "apply" /\ task.at = "write" /\ Does("delete_duplicate") /\ b = Row.existing]_vars
================================================================================
