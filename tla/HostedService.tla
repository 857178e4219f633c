----------------------------- MODULE HostedService -----------------------------
(***************************************************************************)
(* The hosted API process: uploads, extraction jobs and requests over one  *)
(* store, with restarts (api/main.py, _hosted_lifespan_inner).  A restart  *)
(* ends every coroutine where it is, forgets the uploads, and starts a job *)
(* for each document that is pending or processing.                        *)
(***************************************************************************)
EXTENDS TusUploads, OcrJobs, HostedDocuments

CONSTANTS
    MaxRestarts,  \* bound on restarts
    Uploaded      \* files that were uploaded before, with their jobs waiting

ASSUME ServiceAssumption == MaxRestarts \in Nat /\ Uploaded \in 0..MaxDocs

VARIABLES
    restarts,
    remade    \* history: requests that read the highlights of a clip that was inserted again since

vars == <<storeVars, uploadVars, jobs, req, restarts, remade>>

Init ==
    /\ kbs = Kbs
    /\ docs \in [Docs -> {NoDoc} \cup {File(k) : k \in Kbs}] /\ Live = 1..Uploaded
    /\ chunks = [d \in Docs |-> NoChunks]
    /\ objects = [d \in Docs |-> IF Exists(d) THEN Image ELSE NoFile]
    /\ born = Uploaded
    /\ locked = 0
    /\ UploadInit /\ RequestsInit
    /\ jobs = [d \in Docs |-> IF Exists(d) THEN [at |-> "waiting"] ELSE NoJob]
    /\ restarts = 0 /\ remade = {}

Restart ==
    /\ restarts < MaxRestarts
    /\ restarts' = restarts + 1
    /\ UploadsLost /\ JobsRecovered /\ RequestsLost /\ remade' = {}
    /\ UNCHANGED <<kbs, docs, chunks, objects, born>>

Extract(d) == JobStep(d) /\ UNCHANGED <<uploadVars, req, restarts, remade>>

Serve(r) ==
    /\ RequestStep(r)
    /\ remade' = {q \in Requests : /\ req[q].at = "mark" /\ req'[q].at = "mark"
                                   /\ q \in remade \/ (~Exists(req[q].doc) /\ docs'[req[q].doc] # NoDoc)}
    /\ UNCHANGED <<uploadVars, jobs, restarts>>

Next ==
    \/ UploadStep /\ UNCHANGED <<req, restarts, remade>>
    \/ \E d \in Docs : Extract(d)
    \/ \E r \in Requests : Serve(r)
    \/ Restart

Spec == Init /\ [][Next]_vars

\* The event loop runs every task: the calls a job makes return or time out.
FairSpec == Spec /\ \A d \in Docs : WF_vars(Extract(d))

--------------------------------------------------------------------------------
\* An upload becomes at most one document, whose file has the declared bytes in
\* their order, however its PATCH requests are cut off, retried, or overtaken by
\* the clean-up -- unless two of them were in flight together, which the code does
\* not exclude (tus_patch checks the offset and advances it at the end).
UploadIntact ==
    \A d \in Live : docs[d].kind = "file" /\ objects[d] # NoFile /\ objects[d].of \notin raced \cup {0} =>
        /\ objects[d].bytes = [i \in 1..Length |-> i]
        /\ \A e \in Live \ {d} : objects[e] = NoFile \/ objects[e].of # objects[d].of

\* A document has its file in S3 as long as its row is there: files are stored
\* before rows are inserted, and purged after rows are deleted.
RowHasObject ==
    \A d \in Live : docs[d].kind = "file" => objects[d] # NoFile

\* Jobs that run at the same time together stay within the page limit of the user.
PagesWithinLimit == PagesUsed <= PageLimit

\* No chunk shows an annotation of a highlight that was deleted or moved away.
NoStaleAnnotation ==
    \A d \in Live : chunks[d] # NoChunks =>
        \A i \in Places : chunks[d].notes[i] \subseteq NotesAt(docs[d].marks, i)

\* The version a client read stands for the highlights it read: a write that
\* expects it does not undo what another request wrote in between.  Not so when
\* the clip was deleted and a clip of the same page that had found it inserts it
\* again: the row has the same id and starts at version 0.
VersionNamesMarks ==
    \A r \in Requests : LET q == req[r] IN
        q.at = "mark" /\ r \notin remade /\ Exists(q.doc) /\ docs[q.doc].version = q.version => docs[q.doc].marks = q.marks

\* Requests that clip a page at the same time make one document of it in a
\* knowledge base: a second one there can only come from a move.
OneClipPerPage ==
    [][\A d \in Docs : ~Exists(d) /\ docs'[d] # NoDoc /\ docs'[d].kind = "clip"
                          => \A e \in Clips : docs[e].kb # docs'[d].kb]_vars

\* Every uploaded document is extracted, marked failed or deleted in the end,
\* through restarts of the server.
ExtractionSettles ==
    \A d \in Docs : (Exists(d) /\ docs[d].status \in {"pending", "processing"})
                    ~> (~Exists(d) \/ docs[d].status \in {"ready", "failed"})
===============================================================================
