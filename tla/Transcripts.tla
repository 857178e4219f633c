------------------------------ MODULE Transcripts ------------------------------
(***************************************************************************)
(* The pre-pass over a meeting transcript (core/pipeline/transcripts.py)   *)
(* inside a processing run: one model call (C6) says which segments are    *)
(* irrelevant and which are superseded by a later segment.  A superseded   *)
(* segment becomes a duplicate of a placeholder, "pending:<survivor>",     *)
(* that is replaced when the survivor is placed, or at the end of the run  *)
(* when all placeholders are settled.  One transcript; the other sources   *)
(* of a run are in SourceLedger.  The run holds the workspace lock, so the *)
(* file is indexed and decisions are applied between two runs only.        *)
(***************************************************************************)
EXTENDS Naturals, Sequences, FiniteSets, SequencesExt

CONSTANTS
    Texts,        \* what a segment may say
    Segments,      \* bound on the segments of the first version
    LaterSegments, \* bound on the segments of a later one
    MaxVersions,  \* bound on the versions of the transcript
    MaxAttempts,  \* processing.max_attempts
    MaxKills      \* bound on kills of a run

ASSUME TranscriptAssumption ==
    /\ {Segments, MaxVersions, MaxAttempts} \subseteq Nat \ {0}
    /\ LaterSegments \in 1..Segments /\ MaxKills \in Nat /\ Texts # {}

VARIABLES
    text,     \* text[v]: the segments of version v, in order
    rows,     \* ledger rows by <<version, ordinal>>
    links,    \* acw_block_chunks; a block has the name of the row it was made of
    reviews,  \* open conflict rows: the existing block and candidate_json.chunk_ids
    run,      \* the run in progress
    merged,   \* history: the survivor of each row the last pre-pass called superseded
    kills

vars == <<text, rows, links, reviews, run, merged, kills>>

Rows == (1..MaxVersions) \X (1..Segments)
Dispositions == {"pending", "placed", "duplicate", "irrelevant", "failed", "failed_final",
                 "conflicted_pending", "superseded"}
NoTarget == <<"none">>
Block(b) == <<"block", b>>
Placeholder(r) == <<"pending", r>>
Row == [is : Dispositions, of : {NoTarget} \cup {Block(r) : r \in Rows} \cup {Placeholder(r) : r \in Rows},
        attempts : 0..MaxAttempts, intra : BOOLEAN]

Version == Len(text)
RowsOf(v) == {<<v, i>> : i \in 1..Len(text[v])}
There == UNION {RowsOf(v) : v \in 1..Version}
Says(r) == text[r[1]][r[2]]
Earlier(a, b) == a[1] < b[1] \/ (a[1] = b[1] /\ a[2] < b[2])
InOrder(S) ==
    {q \in [1..Cardinality(S) -> S] : ToSet(q) = S /\ \A i, j \in DOMAIN q : i < j => Earlier(q[i], q[j])}
Blocks == {l[1] : l \in links}
Held(r) == {l[1] : l \in {l \in links : l[2] = r}}
At(step) == run.at = step
NoRun == [at |-> "idle"]

\* update_chunk of the rows in S, each with a commit of its own.
Updated(S, is, of, intra) ==
    [r \in Rows |-> IF r \in S THEN [rows[r] EXCEPT !.is = is, !.of = of, !.intra = intra] ELSE rows[r]]
mark_failed(S) ==
    [r \in Rows |-> IF r \notin S THEN rows[r]
                    ELSE [rows[r] EXCEPT !.is = IF rows[r].attempts + 1 >= MaxAttempts THEN "failed_final" ELSE "failed",
                                         !.of = NoTarget, !.attempts = @ + 1, !.intra = FALSE]]

Fresh == [is |-> "pending", of |-> NoTarget, attempts |-> 0, intra |-> FALSE]

Init ==
    /\ \E t \in SeqOf(Texts, Segments) : t # <<>> /\ text = <<t>>
    /\ rows = [r \in Rows |-> Fresh]
    /\ links = {} /\ reviews = {} /\ run = NoRun /\ merged = <<>> /\ kills = 0

--------------------------------------------------------------------------------
(* Between two runs. *)

Priors(r, t) == {p \in There : rows[p].is # "superseded" /\ Says(p) = t[r]}
BestPriors(i, t) == LET P == Priors(i, t) IN
                    IF \E p \in P : p[2] = i THEN {p \in P : p[2] = i} ELSE P

\* A new version: rows with the disposition of a row of the same text, earlier rows
\* of texts that are gone are superseded.
Index ==
    /\ At("idle") /\ Version < MaxVersions
    /\ \E t \in SeqOf(Texts, LaterSegments) :
       \E prior \in [1..Len(t) -> There \cup {NoTarget}] :
          /\ t # <<>> /\ t \notin ToSet(text)
          /\ \A i \in 1..Len(t) : IF Priors(i, t) = {} THEN prior[i] = NoTarget ELSE prior[i] \in BestPriors(i, t)
          /\ text' = Append(text, t)
          /\ rows' = [r \in Rows |->
                        IF r[1] = Version + 1 /\ r[2] <= Len(t)
                        THEN IF prior[r[2]] = NoTarget THEN Fresh ELSE rows[prior[r[2]]]
                        ELSE IF r \in There /\ \A i \in 1..Len(t) : t[i] # Says(r)
                        THEN [rows[r] EXCEPT !.is = "superseded", !.of = NoTarget, !.intra = FALSE]
                        ELSE rows[r]]
          /\ links' = links \cup UNION {{<<b, <<Version + 1, i>>>> : b \in Held(prior[i])} : i \in 1..Len(t)}
    /\ UNCHANGED <<reviews, run, merged, kills>>

\* A decision on a conflict makes a block of the candidate, with the evidence of
\* all its chunks, or none; chunks of other open rows wait for those.
Decide(review, accept) ==
    LET waiting == UNION {other.chunks : other \in reviews \ {review}}
        linked == links \cup IF accept THEN {<<review.candidate, c>> : c \in review.chunks} ELSE {}
        held(c) == {l[1] : l \in {l \in linked : l[2] = c}}
        Settled(c) == IF held(c) = {} THEN [rows[c] EXCEPT !.is = "duplicate", !.of = Block(review.existing), !.intra = FALSE]
                      ELSE IF rows[c].intra THEN [rows[c] EXCEPT !.is = "duplicate", !.of = Block(CHOOSE b \in held(c) : TRUE)]
                      ELSE [rows[c] EXCEPT !.is = "placed", !.of = NoTarget]
    IN
    /\ At("idle")
    /\ reviews' = reviews \ {review}
    /\ links' = linked
    /\ rows' = [r \in Rows |-> IF r \in review.chunks \ waiting /\ rows[r].is = "conflicted_pending"
                               THEN Settled(r) ELSE rows[r]]
    /\ UNCHANGED <<text, run, merged, kills>>

--------------------------------------------------------------------------------
(* The run: the worklist is one batch, because it is a transcript. *)

Unfinished == {r \in RowsOf(Version) : rows[r].is = "pending" \/ (rows[r].is = "failed" /\ rows[r].attempts < MaxAttempts)}

StartRun ==
    /\ At("idle")
    /\ rows' = Updated({r \in Unfinished : rows[r].is = "failed"}, "pending", NoTarget, FALSE)
    /\ \E work \in InOrder(Unfinished) :
          run' = [at |-> IF Unfinished = {} THEN "settle" ELSE "segment", work |-> work]
    /\ merged' = <<>>
    /\ UNCHANGED <<text, links, reviews, kills>>

\* An exception fails what the batch has left pending; the run goes on to settle.
BatchFails ==
    /\ run.at \in {"segment", "place"}
    /\ rows' = mark_failed({r \in ToSet(run.work) : rows[r].is = "pending"})
    /\ run' = [at |-> "settle", work |-> run.work]
    /\ UNCHANGED <<text, links, reviews, merged, kills>>

\* A segment may be superseded only by a later one that is relevant.
AnySupersession(n, relevant, by) == \A i \in 1..n : by[i] = 0 \/ by[i] > i
_validate_supersession(n, relevant, by) ==
    \A i \in 1..n : by[i] = 0 \/ (by[i] > i /\ relevant[by[i]])

\* The response of C6 for the n segments of the batch.
validate_c6_response(n) ==
    {c \in [relevant : [1..n -> BOOLEAN], by : [1..n -> 0..n]] : _validate_supersession(n, c.relevant, c.by)}

DirectSurvivor(by, i) == by[i]
\* The end of the chain of superseding segments.
Survivor(by, i) ==
    LET last[j \in DOMAIN by] == IF by[j] = 0 THEN j ELSE last[by[j]] IN last[i]

_preprocess_transcript_batch ==
    /\ At("segment")
    /\ \E c \in validate_c6_response(Len(run.work)) :
          run' = [at |-> "prepass", work |-> run.work, c |-> c, next |-> 1, survivors |-> <<>>]
    /\ UNCHANGED <<text, rows, links, reviews, merged, kills>>

\* One segment after the other, each with a commit.
apply_transcript_prepass ==
    /\ At("prepass") /\ run.next <= Len(run.work)
    /\ LET i == run.next
           r == run.work[i]
       IN
       IF ~run.c.relevant[i]
       THEN /\ rows' = Updated({r}, "irrelevant", NoTarget, FALSE)
            /\ run' = [run EXCEPT !.next = @ + 1]
            /\ UNCHANGED merged
       ELSE IF run.c.by[i] # 0
       THEN LET survivor == run.work[Survivor(run.c.by, i)] IN
            /\ rows' = Updated({r}, "duplicate", Placeholder(survivor), TRUE)
            /\ run' = [run EXCEPT !.next = @ + 1]
            /\ merged' = Append(merged, <<r, survivor>>)
       ELSE /\ run' = [run EXCEPT !.next = @ + 1, !.survivors = Append(@, r)]
            /\ UNCHANGED <<rows, merged>>
    /\ UNCHANGED <<text, links, reviews, kills>>

_place_transcript_survivors ==
    /\ At("prepass") /\ run.next > Len(run.work)
    /\ run' = [at |-> "place", work |-> run.work, left |-> run.survivors, step |-> "judge"]
    /\ UNCHANGED <<text, rows, links, reviews, merged, kills>>

Judging == At("place") /\ run.left # <<>> /\ run.step = "judge"
NextSurvivor == [run EXCEPT !.left = Tail(@), !.step = "judge"]

\* The survivor is called irrelevant after all, fails, or is an exact duplicate.
LeaveSurvivor ==
    /\ Judging
    /\ LET r == Head(run.left) IN
       \/ rows' = Updated({r}, "irrelevant", NoTarget, FALSE)
       \/ rows' = mark_failed({r})
       \/ \E b \in Blocks : rows' = Updated({r}, "duplicate", Block(b), FALSE)
    /\ run' = NextSurvivor
    /\ UNCHANGED <<text, links, reviews, merged, kills>>

\* A block is made and linked; the chunk of an aborted run finds the one it made.
CreateBlock ==
    /\ Judging
    /\ LET r == Head(run.left) IN
       /\ r \notin Blocks
       /\ links' = links \cup {<<r, r>>}
    /\ run' = [run EXCEPT !.step = "resolve"]
    /\ UNCHANGED <<text, rows, reviews, merged, kills>>

\* The placeholders of the survivor become its block, ...
resolve_transcript_duplicate_placeholders(survivor, b) ==
    [r \in Rows |-> IF rows[r].of = Placeholder(survivor) THEN [rows[r] EXCEPT !.of = Block(b)] ELSE rows[r]]

ResolvePlaced ==
    /\ At("place") /\ run.step = "resolve"
    /\ rows' = resolve_transcript_duplicate_placeholders(Head(run.left), Head(run.left))
    /\ run' = [run EXCEPT !.step = "record"]
    /\ UNCHANGED <<text, links, reviews, merged, kills>>

\* ... then its disposition is recorded.
RecordPlaced ==
    /\ At("place") /\ run.step = "record"
    /\ rows' = Updated({Head(run.left)}, "placed", NoTarget, FALSE)
    /\ run' = NextSurvivor
    /\ UNCHANGED <<text, links, reviews, merged, kills>>

\* A conflict with a block that is there: the review row comes first.
CreateReview ==
    /\ Judging
    /\ LET r == Head(run.left) IN
       \E b \in Blocks \ {r} : reviews' = reviews \cup {[candidate |-> r, existing |-> b, chunks |-> {r}]}
    /\ run' = [run EXCEPT !.step = "conflict"]
    /\ UNCHANGED <<text, rows, links, merged, kills>>

RecordConflict ==
    /\ At("place") /\ run.step = "conflict"
    /\ rows' = Updated({Head(run.left)}, "conflicted_pending", NoTarget, FALSE)
    /\ run' = NextSurvivor
    /\ UNCHANGED <<text, links, reviews, merged, kills>>

\* The page was changed by somebody else: what is left stays pending.
PageConflict ==
    /\ Judging
    /\ run' = [at |-> "settle", work |-> run.work]
    /\ UNCHANGED <<text, rows, links, reviews, merged, kills>>

--------------------------------------------------------------------------------
(* The end of the run. *)

\* A mutant: the placeholders of a survivor that is not settled yet are left.
WaitingOfSettled ==
    {r \in There : \E s \in There : rows[r].of = Placeholder(s) /\ rows[s].is \notin {"pending", "failed"}}
Waiting == {r \in There : rows[r].of \in {Placeholder(s) : s \in Rows}}

BeginSettle ==
    /\ At("settle") \/ (At("place") /\ run.left = <<>> /\ run.step = "judge")
    /\ \E waiting \in InOrder(Waiting) :
          run' = [at |-> "settling", todo |-> [i \in DOMAIN waiting |-> <<waiting[i], rows[waiting[i]].of[2]>>]]
    /\ UNCHANGED <<text, rows, links, reviews, merged, kills>>

\* The block a survivor is a duplicate of, or else one it is evidence of.
OwnBlock(s) == {Block(s)}
TargetOf(s) == IF rows[s].of # NoTarget THEN {rows[s].of} ELSE {Block(b) : b \in Held(s)}

\* The open row of a survivor in conflict takes the chunk as a candidate too.
LeaveReview(review, s, r) == review
AddChunk(review, s, r) == IF s \in review.chunks THEN [review EXCEPT !.chunks = @ \cup {r}] ELSE review

\* One placeholder of the list that was read: a block of the survivor, or else
\* what became of the survivor.
settle_transcript_supersession ==
    /\ At("settling") /\ run.todo # <<>>
    /\ LET r == Head(run.todo)[1]
           s == Head(run.todo)[2]
       IN
       IF rows[s].is \in {"placed", "duplicate"} /\ TargetOf(s) # {}
       THEN /\ \E t \in TargetOf(s) :
                 rows' = [x \in Rows |-> IF rows[x].of = Placeholder(s) THEN [rows[x] EXCEPT !.of = t] ELSE rows[x]]
            /\ UNCHANGED reviews
       ELSE /\ reviews' = IF rows[s].is = "conflicted_pending" THEN {AddChunk(v, s, r) : v \in reviews} ELSE reviews
            /\ rows' = [rows EXCEPT ![r] = [is |-> rows[s].is, of |-> NoTarget, attempts |-> rows[s].attempts,
                                            intra |-> rows[s].is = "conflicted_pending"]]
    /\ run' = [run EXCEPT !.todo = Tail(@)]
    /\ UNCHANGED <<text, links, merged, kills>>

\* The gate: chunks that are pending abort the run.
FinishRun ==
    /\ At("settling") /\ run.todo = <<>>
    /\ run' = NoRun
    /\ UNCHANGED <<text, rows, links, reviews, merged, kills>>

Kill ==
    /\ ~At("idle") /\ kills < MaxKills
    /\ kills' = kills + 1
    /\ run' = NoRun
    /\ merged' = <<>>
    /\ UNCHANGED <<text, rows, links, reviews>>

Placing ==
    \/ LeaveSurvivor \/ CreateBlock \/ ResolvePlaced \/ RecordPlaced
    \/ CreateReview \/ RecordConflict \/ PageConflict

Next ==
    \/ Index
    \/ \E review \in reviews, accept \in BOOLEAN : Decide(review, accept)
    \/ StartRun \/ BatchFails
    \/ _preprocess_transcript_batch \/ apply_transcript_prepass \/ _place_transcript_survivors
    \/ Placing
    \/ BeginSettle \/ settle_transcript_supersession \/ FinishRun
    \/ Kill

Spec == Init /\ [][Next]_vars

--------------------------------------------------------------------------------
Finishes == At("settling") /\ run.todo = <<>>
HasPlaceholder(r) == rows[r].of[1] = "pending"

\* At the end of a run a segment that its pre-pass called superseded shares the fate
\* of its survivor: it holds no placeholder, and it is a duplicate of a block that
\* the survivor is evidence of or a duplicate of, or both are in the same state.
SharesFate ==
    Finishes => \A i \in 1..Len(merged) :
        LET r == merged[i][1]
            s == merged[i][2]
        IN /\ ~HasPlaceholder(r)
           /\ \/ rows[r].is = rows[s].is
              \/ rows[r].is = "duplicate" /\ \E b \in Blocks : rows[r].of = Block(b) /\ (b \in Held(s) \/ rows[s].of = Block(b))

\* A chunk that a run left for a decision is a candidate of an open review row.  (The
\* copy of it in a later version is not: reingestion leaves candidate_json alone.)
ConflictHasReview ==
    \A r \in There :
        /\ rows[r].is = "conflicted_pending"
        /\ \A p \in There : p[1] < r[1] => Says(p) # Says(r)
        => \E v \in reviews : r \in v.chunks

\* As long as no run was killed, no segment of the current version is given up: only
\* a new version supersedes.  (After a kill it may be: the placeholder of a survivor
\* that the new version dropped is settled as superseded, like the survivor.)
CurrentKept == kills = 0 => \A r \in RowsOf(Version) : rows[r].is # "superseded"

\* A duplicate names a block that is there, or waits for a survivor.
DuplicateHasTarget ==
    \A r \in There : rows[r].is = "duplicate" => rows[r].of \in {Block(b) : b \in Blocks} \/ HasPlaceholder(r)
================================================================================
