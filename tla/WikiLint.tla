-------------------------------- MODULE WikiLint --------------------------------
(***************************************************************************)
(* lint/checks.py, as far as it is about pages, blocks, rows, markers and  *)
(* chunks: what an inspection of the wiki reports, by its code.  What the  *)
(* text of a block says, links, flow diagrams and exclusions are left out. *)
(***************************************************************************)
EXTENDS WikiPlacement

\* A page that is registered has a file.
_parse_pages == {<<"LINT-07", p>> : p \in {p \in Pages : registry[p] # "absent" /\ ~file[p].there}}
Parsed == {p \in Pages : registry[p] # "absent" /\ file[p].there}

\* Coverage is not looked at while chunks are pending.
Pending == {c \in Chunks : chunk[c] = "pending"}
_check_lint_01_coverage ==
    IF Pending # {}
    THEN {<<"LINT-01", c>> : c \in Pending}
    ELSE {<<"LINT-01", p>> : p \in {p \in Parsed \cap Active : file[p].coverage # Coverage(p)}}

DuplicateKeys(p) ==
    {k \in Keys : \E b, d \in On(p) :
        /\ b # d
        /\ \A x \in {b, d} : file[p].blocks[x].key = k /\ file[p].blocks[x].status \in ActiveKeyStatuses}
Misplaced(p) == (BlocksOf(p) \ On(p)) \cup (On(p) \ BlocksOf(p))
_check_lint_03_keys_and_inventory ==
    {<<"LINT-03", x>> : x \in UNION {DuplicateKeys(p) \cup Misplaced(p) : p \in Parsed}}

\* Rows in a review file that are not decided; a decision is taken back when it is not applied.
find_unresolved_review_files == Open \cap filed
_check_lint_04_reviews_and_staleness ==
    {<<"LINT-04", r>> : r \in find_unresolved_review_files}
        \cup {<<"LINT-04", b>> : b \in {b \in Known : block[b].status = "needs_review"}}

KeyListed(entry) == block[IF entry[1] = "row" THEN rows[entry[2]].existing ELSE entry[2]].key
Unlisted(p) ==
    {b \in On(p) : /\ file[p].blocks[b].status = "conflicted"
                   /\ \A entry \in file[p].listed : KeyListed(entry) # file[p].blocks[b].key}
Markers(p) == UNION {file[p].blocks[b].pending : b \in On(p)}
AllMarkers == UNION {Markers(p) : p \in Parsed}
HiddenConflicts == IF AllMarkers = {} THEN {c \in Chunks : chunk[c] = "conflicted_pending"} ELSE {}
_check_lint_05_conflict_visibility ==
    {<<"LINT-05", x>> : x \in UNION {Unlisted(p) : p \in Parsed} \cup (AllMarkers \ Open) \cup HiddenConflicts}

run_checks ==
    _parse_pages \cup _check_lint_01_coverage \cup _check_lint_03_keys_and_inventory
        \cup _check_lint_04_reviews_and_staleness \cup _check_lint_05_conflict_visibility
================================================================================
