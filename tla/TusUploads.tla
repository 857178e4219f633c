------------------------------ MODULE TusUploads ------------------------------
(***************************************************************************)
(* Resumable uploads (api/infra/tus.py): the registry in memory, the       *)
(* temporary file of each upload, PATCH requests that stream a body into   *)
(* it, and finalisation: checks, S3, the document row, the job.            *)
(* The file of an upload has the bytes 1..Length; one byte stands for the  *)
(* FLUSH_SIZE bytes that are appended at a time.                           *)
(***************************************************************************)
EXTENDS HostedStore

CONSTANTS
    Patches,      \* PATCH requests that may be in flight at once
    Length,       \* Upload-Length
    BadFiles      \* uploads whose first bytes are not those of their type

ASSUME UploadAssumption ==
    Uploads \subseteq Nat \ {0} /\ Length \in Nat \ {0} /\ BadFiles \subseteq Uploads

VARIABLES
    uploads,  \* _uploads: state of the entry, upload_offset, knowledge base
    temp,     \* the temporary file, or NoFile
    patch,    \* the PATCH requests in flight
    raced     \* uploads two of whose PATCH requests were in flight together

uploadVars == <<uploads, temp, patch, raced>>

NoPatch == [at |-> "idle"]
Open(u) == uploads[u].at = "open"
InProgress == Cardinality({u \in Uploads : Open(u)})

\* tus_create awaits the sum of the stored sizes, ...
ReadUsage(u) ==
    /\ uploads[u].at = "new"
    /\ \E k \in kbs :
          uploads' = [uploads EXCEPT ![u] = [at |-> "checked", offset |-> 0, kb |-> k, used |-> Sizes]]
    /\ UNCHANGED <<storeVars, temp, patch, raced, jobs>>

\* ... then adds the uploads in progress and enters the new one.
tus_create(u) ==
    /\ uploads[u].at = "checked"
    /\ IF uploads[u].used + InProgress + 1 > StorageLimit
       THEN uploads' = [uploads EXCEPT ![u].at = "gone"] /\ UNCHANGED temp
       ELSE /\ uploads' = [uploads EXCEPT ![u].at = "open"]
            /\ temp' = [temp EXCEPT ![u] = <<>>]
    /\ UNCHANGED <<storeVars, patch, raced, jobs>>

\* A PATCH whose Upload-Offset is the offset of the entry (others get a 409):
\* the body is the file from there on.
tus_patch(p, u) ==
    /\ patch[p].at = "idle" /\ Open(u)
    /\ patch' = [patch EXCEPT ![p] = [at |-> "draining", upload |-> u, from |-> uploads[u].offset, written |-> 0]]
    /\ raced' = IF \E q \in Patches : patch[q].at # "idle" /\ patch[q].upload = u
                THEN raced \cup {u} ELSE raced
    /\ UNCHANGED <<storeVars, uploads, temp, jobs>>

\* The file is opened for appending, which creates it when it was unlinked.
_append_file(p) ==
    LET u == patch[p].upload IN
    /\ patch[p].at = "draining" /\ patch[p].from + patch[p].written < Length
    /\ temp' = [temp EXCEPT ![u] = Append(IF @ = NoFile THEN <<>> ELSE @, patch[p].from + patch[p].written + 1)]
    /\ patch' = [patch EXCEPT ![p].written = @ + 1]
    /\ UNCHANGED <<storeVars, uploads, raced, jobs>>

\* The body ended early: the client hung up, or sent more than it declared.
PatchStops(p) ==
    LET u == patch[p].upload IN
    /\ patch[p].at = "draining"
    /\ uploads' = [uploads EXCEPT ![u].offset = @ + patch[p].written]
    /\ patch' = [patch EXCEPT ![p] = NoPatch]
    /\ UNCHANGED <<storeVars, temp, raced, jobs>>

_validate_file_signature(u) == u \notin BadFiles /\ temp[u] # NoFile
SizeUnchecked(u) == TRUE
SizeMatches(u) == Len(temp[u]) = Length

\* The body ended: the offset is advanced, and the last PATCH starts to finalise,
\* or throws the upload away when there are too many bytes or the wrong ones.
PatchEnds(p) ==
    LET u == patch[p].upload
        offset == uploads[u].offset + patch[p].written
    IN
    /\ patch[p].at = "draining"
    /\ IF offset < Length
       THEN /\ uploads' = [uploads EXCEPT ![u].offset = offset]
            /\ patch' = [patch EXCEPT ![p] = NoPatch]
            /\ UNCHANGED temp
       ELSE IF offset = Length /\ _validate_file_signature(u) /\ SizeMatches(u)
       THEN /\ uploads' = [uploads EXCEPT ![u].offset = offset]
            /\ patch' = [patch EXCEPT ![p].at = "storing"]
            /\ UNCHANGED temp
       ELSE /\ uploads' = [uploads EXCEPT ![u].offset = offset, ![u].at = "gone"]
            /\ patch' = [patch EXCEPT ![p] = NoPatch]
            /\ temp' = [temp EXCEPT ![u] = NoFile]
    /\ UNCHANGED <<storeVars, raced, jobs>>

\* The file goes to S3 under the id of the new document.
StoreFile(p) ==
    LET u == patch[p].upload IN
    /\ patch[p].at = "storing" /\ temp[u] # NoFile /\ born < MaxDocs
    /\ born' = born + 1
    /\ objects' = [objects EXCEPT ![born'] = [of |-> u, bytes |-> temp[u]]]
    /\ patch' = [patch EXCEPT ![p] = [at |-> "inserting", upload |-> u, doc |-> born']]
    /\ UNCHANGED <<kbs, docs, chunks, locked, uploads, temp, raced, jobs>>

\* S3 fails, or the file is gone: a 500, the entry stays for another PATCH.
StoreFails(p) ==
    /\ patch[p].at = "storing"
    /\ patch' = [patch EXCEPT ![p] = NoPatch]
    /\ UNCHANGED <<storeVars, uploads, temp, raced, jobs>>

\* The row is inserted and its job created, or the insert fails; either way the
\* upload is over.
_finalize(p, ok) ==
    LET u == patch[p].upload
        d == patch[p].doc
    IN
    /\ patch[p].at = "inserting"
    /\ ok => uploads[u].kb \in kbs
    /\ docs' = IF ok THEN [docs EXCEPT ![d] = File(uploads[u].kb)] ELSE docs
    /\ jobs' = IF ok THEN [jobs EXCEPT ![d] = [at |-> "waiting"]] ELSE jobs
    /\ temp' = [temp EXCEPT ![u] = NoFile]
    /\ uploads' = [uploads EXCEPT ![u].at = "gone"]
    /\ patch' = [patch EXCEPT ![p] = NoPatch]
    /\ UNCHANGED <<kbs, chunks, objects, born, locked, raced>>

\* last_activity is set when a PATCH ends: one that is draining does not count.
cleanup_stale_uploads(u) ==
    /\ Open(u)
    /\ uploads' = [uploads EXCEPT ![u].at = "gone"]
    /\ temp' = [temp EXCEPT ![u] = NoFile]
    /\ UNCHANGED <<storeVars, patch, raced, jobs>>

UploadInit ==
    /\ uploads = [u \in Uploads |-> [at |-> "new", offset |-> 0]]
    /\ temp = [u \in Uploads |-> NoFile]
    /\ patch = [p \in Patches |-> NoPatch]
    /\ raced = {}

\* The registry and the requests are gone with the process; files stay on disk.
UploadsLost ==
    /\ uploads' = [u \in Uploads |-> IF uploads[u].at = "new" THEN uploads[u]
                                     ELSE [at |-> "gone", offset |-> 0]]
    /\ patch' = [p \in Patches |-> NoPatch]
    /\ UNCHANGED <<temp, raced>>

UploadStep ==
    \/ \E u \in Uploads : ReadUsage(u) \/ tus_create(u) \/ cleanup_stale_uploads(u)
    \/ \E p \in Patches, u \in Uploads : tus_patch(p, u)
    \/ \E p \in Patches : \/ _append_file(p) \/ PatchStops(p) \/ PatchEnds(p)
                          \/ StoreFile(p) \/ StoreFails(p)
                          \/ \E ok \in BOOLEAN : _finalize(p, ok)
===============================================================================
