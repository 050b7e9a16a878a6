------------------------------ MODULE OciBlobs ------------------------------
(***************************************************************************)
(* Blobs and manifests of the OCI registry                                 *)
(* (crates/adapters/oci/src/routes.rs) and the background clean-up of      *)
(* blobs nobody needs (crates/api/src/job_handlers.rs).                    *)
(*                                                                         *)
(* A blob is one object for all repositories, with one row of inventory.   *)
(* A manifest is a release with an artifact row, an object of its own and  *)
(* rows that name its blobs.  No handler uses a transaction: each is cut   *)
(* at the statements and store calls whose effect another one can see.     *)
(* Uploads in chunks end in the same three steps as the others; their      *)
(* sessions are left out, and so are references to a subject, which        *)
(* protect no blob.                                                        *)
(***************************************************************************)
EXTENDS Naturals, FiniteSets, Sequences, SequencesExt

CONSTANTS
    Blob,       \* digests of config and layer blobs
    Manifest,   \* digests of manifests, each pushed to one repository
    Layers,     \* the blobs a manifest lists, one after the other
    Client,     \* the requests that may run concurrently
    Sweeper,    \* the clean-up jobs that may run concurrently
    BatchSize,  \* OCI_BLOB_CLEANUP_BATCH_SIZE
    Operations, \* what clients do, of "upload", "put", "delete", "drop"
    Failures,   \* what may go wrong, of "inventory", "request", "sweep"
    None

ASSUME OciAssumption ==
    /\ Layers \in [Manifest -> Seq(Blob) \ {<<>>}]
    /\ BatchSize \in Nat \ {0}
    /\ Operations \subseteq {"upload", "put", "delete", "drop"}
    /\ Failures \subseteq {"inventory", "request", "sweep"}
    /\ None \notin Manifest \cup Blob
    /\ IsFiniteSet(Blob)

VARIABLES
    stored,     \* the blobs in the artifact store
    inventory,  \* the rows of oci_blob_inventory: is last_uploaded_at aged?
    status,     \* releases
    kept,       \* the manifests in the artifact store
    listed,     \* the manifests with a row in artifacts
    refs,       \* oci_manifest_references
    tag,        \* channel_refs: the manifest the tag names, or None
    due,        \* a clean-up job is due
    later,      \* the blobs whose upload has scheduled one after the grace period
    client,     \* how far each request has come
    sweep,      \* how far each clean-up has come
    disturbed   \* history: what one request was removing while another one was
                \* working with it, and what a request that broke off worked with

blobs == <<stored, inventory>>
manifests == <<status, kept, listed, refs, tag>>
jobs == <<due, later>>
vars == <<blobs, manifests, jobs, client, sweep, disturbed>>

-----------------------------------------------------------------------------
Status == {"absent", "quarantine", "published", "deleted"}
BlobsOf(m) == ToSet(Layers[m])

\* blob_is_referenced_anywhere, and the NOT EXISTS of the clean-up
Referenced(b) == \E m \in Manifest : status[m] = "published" /\ b \in refs[m]

\* What load_manifest_artifact finds.
Served(m) == status[m] = "published" /\ m \in listed

Quiet == [pc |-> "idle", blob |-> None, manifest |-> None, at |-> 0]
Resting == [todo |-> {}, current |-> None, full |-> FALSE]

At(c, pc) == client[c].pc = pc
Begin(c, pc, b, m) ==
    /\ At(c, "idle")
    /\ client' = [client EXCEPT ![c] = [pc |-> pc, blob |-> b, manifest |-> m, at |-> 1]]
Goto(c, pc) == client' = [client EXCEPT ![c].pc = pc, ![c].at = 1]
Advance(c) == client' = [client EXCEPT ![c].at = @ + 1]
Finish(c) == client' = [client EXCEPT ![c] = Quiet]

Uploading(c) == client[c].pc \in {"record", "schedule"}
Dropping(c) == client[c].pc \in {"drop object", "drop row"}
Deleting(c) == client[c].pc \in {"untag", "unrefer", "unlist", "remove", "retire", "sweep"}
Putting(c) == ~At(c, "idle") /\ ~Uploading(c) /\ ~Dropping(c) /\ ~Deleting(c)

\* What a request works with, and what it is about to remove.
Uses(c) ==
    IF Uploading(c) THEN {client[c].blob}
    ELSE IF Putting(c) THEN {client[c].manifest} \cup BlobsOf(client[c].manifest)
    ELSE IF Deleting(c) THEN BlobsOf(client[c].manifest) ELSE {}
Removes(c) ==
    IF Dropping(c) THEN {client[c].blob}
    ELSE IF Deleting(c) THEN {client[c].manifest} ELSE {}

Used == UNION {Uses(c) : c \in Client}
Removed == (UNION {Removes(c) : c \in Client}) \cup (UNION {sweep[s].todo : s \in Sweeper})

\* Keeping the history: what is removed while it is used, and what the request
\* that breaks off uses or removes.
Overlap == disturbed' = disturbed \cup (Used' \cap Removed')
BrokenOff(c) == disturbed' = disturbed \cup Uses(c) \cup Removes(c)

Init ==
    /\ stored = {}
    /\ inventory = [b \in Blob |-> "absent"]
    /\ status = [m \in Manifest |-> "absent"]
    /\ kept = {} /\ listed = {}
    /\ refs = [m \in Manifest |-> {}]
    /\ tag = None
    /\ due = FALSE /\ later = {}
    /\ client = [c \in Client |-> Quiet]
    /\ sweep = [s \in Sweeper |-> Resting]
    /\ disturbed = {}

-----------------------------------------------------------------------------
(* begin_blob_upload with a digest, and finalize_blob_upload.              *)

UploadObject(c) ==
    /\ "upload" \in Operations
    /\ \E b \in Blob :
          /\ Begin(c, "record", b, None)
          /\ stored' = stored \cup {b}
    /\ UNCHANGED <<inventory, manifests, jobs, sweep>>
    /\ Overlap

\* record_oci_blob_inventory: the row counts as uploaded now.
Recorded(b) == [inventory EXCEPT ![b] = "fresh"]

UploadRecord(c) ==
    /\ At(c, "record")
    /\ inventory' = Recorded(client[c].blob)
    /\ Goto(c, "schedule")
    /\ UNCHANGED <<stored, manifests, jobs, sweep>>
    /\ Overlap

\* The INSERT fails, and the object is deleted, whoever else needs it.
UploadUndone(c) ==
    /\ "inventory" \in Failures
    /\ At(c, "record")
    /\ stored' = stored \ {client[c].blob}
    /\ Finish(c)
    /\ UNCHANGED <<inventory, manifests, jobs, sweep>>
    /\ BrokenOff(c)

UploadSchedule(c) ==
    /\ At(c, "schedule")
    /\ later' = later \cup {client[c].blob}
    /\ Finish(c)
    /\ UNCHANGED <<blobs, manifests, due, sweep>>
    /\ Overlap

-----------------------------------------------------------------------------
(* manifest_put.                                                           *)

Put(c, pc, m) == At(c, pc) /\ m = client[c].manifest
AtLast(c) == client[c].at = Len(Layers[client[c].manifest])

\* artifact_get
Present(b) == b \in stored

\* One reference after the other; MANIFEST_BLOB_UNKNOWN
PutBegin(c) ==
    /\ "put" \in Operations
    /\ \E m \in Manifest : Begin(c, "check", None, m)
    /\ UNCHANGED <<blobs, manifests, jobs, sweep>>
    /\ Overlap

PutCheck(c) ==
    /\ \E m \in Manifest :
          /\ Put(c, "check", m)
          /\ \/ ~Present(Layers[m][client[c].at]) /\ Finish(c)
             \/ Present(Layers[m][client[c].at]) /\ IF AtLast(c) THEN Goto(c, "release") ELSE Advance(c)
    /\ UNCHANGED <<blobs, manifests, jobs, sweep>>
    /\ Overlap

\* Mutation: a new release starts in scanning, as one that was submitted.
PutReleaseScanning(c) ==
    /\ \E m \in Manifest :
          /\ Put(c, "release", m)
          /\ status' = IF status[m] = "absent" THEN [status EXCEPT ![m] = "scanning"] ELSE status
          /\ Goto(c, IF status[m] = "deleted" THEN "revive" ELSE "store")
    /\ UNCHANGED <<blobs, kept, listed, refs, tag, jobs, sweep>>
    /\ Overlap

\* resolve_or_create_manifest_release: a new release, refused by its key if there
\* is one by now, an existing one as it is, or a deleted one that is revived.
PutRelease(c) ==
    /\ \E m \in Manifest :
          /\ Put(c, "release", m)
          /\ status' = IF status[m] = "absent" THEN [status EXCEPT ![m] = "quarantine"] ELSE status
          /\ Goto(c, IF status[m] = "deleted" THEN "revive" ELSE "store")
    /\ UNCHANGED <<blobs, kept, listed, refs, tag, jobs, sweep>>
    /\ Overlap

PutRevive(c) ==
    /\ \E m \in Manifest : Put(c, "revive", m) /\ status' = [status EXCEPT ![m] = "quarantine"]
    /\ Goto(c, "store")
    /\ UNCHANGED <<blobs, kept, listed, refs, tag, jobs, sweep>>
    /\ Overlap

\* upsert_manifest_artifact: nothing if there is a row, or the object and its row.
PutStore(c) ==
    /\ \E m \in Manifest :
          /\ Put(c, "store", m)
          /\ kept' = IF m \in listed THEN kept ELSE kept \cup {m}
          /\ Goto(c, IF m \in listed THEN "clear" ELSE "list")
    /\ UNCHANGED <<blobs, status, listed, refs, tag, jobs, sweep>>
    /\ Overlap

PutList(c) ==
    /\ \E m \in Manifest :
          /\ Put(c, "list", m)
          /\ listed' = listed \cup {m}
          /\ IF m \in listed THEN Finish(c) ELSE Goto(c, "clear")
    /\ UNCHANGED <<blobs, status, kept, refs, tag, jobs, sweep>>
    /\ Overlap

\* replace_manifest_references: DELETE, then one INSERT for each reference; one
\* that is there already (a layer listed twice, a second push) violates the key.
PutClear(c) ==
    /\ \E m \in Manifest : Put(c, "clear", m) /\ refs' = [refs EXCEPT ![m] = {}]
    /\ Goto(c, "refer")
    /\ UNCHANGED <<blobs, status, kept, listed, tag, jobs, sweep>>
    /\ Overlap

PutRefer(c) ==
    /\ \E m \in Manifest :
          /\ Put(c, "refer", m)
          /\ LET b == Layers[m][client[c].at]
             IN  /\ refs' = [refs EXCEPT ![m] = @ \cup {b}]
                 /\ \/ b \in refs[m] /\ Finish(c)
                    \/ b \notin refs[m] /\ IF AtLast(c) THEN Goto(c, "publish") ELSE Advance(c)
    /\ UNCHANGED <<blobs, status, kept, listed, tag, jobs, sweep>>
    /\ Overlap

\* publish_manifest_release
PutPublish(c) ==
    /\ \E m \in Manifest : Put(c, "publish", m) /\ status' = [status EXCEPT ![m] = "published"]
    /\ Goto(c, "tag")
    /\ UNCHANGED <<blobs, kept, listed, refs, tag, jobs, sweep>>
    /\ Overlap

\* upsert_tag_alias, if the manifest was pushed by its tag
PutTag(c) ==
    /\ \E m \in Manifest : Put(c, "tag", m) /\ tag' \in {tag, m}
    /\ Finish(c)
    /\ UNCHANGED <<blobs, status, kept, listed, refs, jobs, sweep>>
    /\ Overlap

-----------------------------------------------------------------------------
(* manifest_delete by digest; by tag it is DeleteTag.  The result of each  *)
(* statement but the first is ignored.                                     *)

DeleteTag(c) ==
    /\ "delete" \in Operations
    /\ At(c, "idle")
    /\ tag # None
    /\ tag' = None
    /\ UNCHANGED <<blobs, status, kept, listed, refs, jobs, sweep, client>>
    /\ Overlap

DeleteBegin(c) ==
    /\ "delete" \in Operations
    /\ \E m \in Manifest : Served(m) /\ Begin(c, "untag", None, m)
    /\ UNCHANGED <<blobs, manifests, jobs, sweep>>
    /\ Overlap

\* Mutation: the tags of a deleted manifest stay.
DeleteUntagNothing(c) ==
    /\ At(c, "untag")
    /\ Goto(c, "unrefer")
    /\ UNCHANGED <<blobs, manifests, jobs, sweep>>
    /\ Overlap

DeleteUntag(c) ==
    /\ At(c, "untag")
    /\ tag' = IF tag = client[c].manifest THEN None ELSE tag
    /\ Goto(c, "unrefer")
    /\ UNCHANGED <<blobs, status, kept, listed, refs, jobs, sweep>>
    /\ Overlap

DeleteReferences(c) ==
    /\ At(c, "unrefer")
    /\ refs' = [refs EXCEPT ![client[c].manifest] = {}]
    /\ Goto(c, "unlist")
    /\ UNCHANGED <<blobs, status, kept, listed, tag, jobs, sweep>>
    /\ Overlap

DeleteRow(c) ==
    /\ At(c, "unlist")
    /\ listed' = listed \ {client[c].manifest}
    /\ Goto(c, "remove")
    /\ UNCHANGED <<blobs, status, kept, refs, tag, jobs, sweep>>
    /\ Overlap

DeleteObject(c) ==
    /\ At(c, "remove")
    /\ kept' = kept \ {client[c].manifest}
    /\ Goto(c, "retire")
    /\ UNCHANGED <<blobs, status, listed, refs, tag, jobs, sweep>>
    /\ Overlap

DeleteRelease(c) ==
    /\ At(c, "retire")
    /\ status' = [status EXCEPT ![client[c].manifest] = "deleted"]
    /\ Goto(c, "sweep")
    /\ UNCHANGED <<blobs, kept, listed, refs, tag, jobs, sweep>>
    /\ Overlap

DeleteSchedule(c) ==
    /\ At(c, "sweep")
    /\ due' = TRUE
    /\ Finish(c)
    /\ UNCHANGED <<blobs, manifests, later, sweep>>
    /\ Overlap

-----------------------------------------------------------------------------
(* blob_delete: refused while a published manifest refers to the blob.     *)

\* Mutation: without blob_is_referenced_anywhere.
DropBeginReferenced(c) ==
    /\ "drop" \in Operations
    /\ \E b \in stored : Begin(c, "drop object", b, None)
    /\ UNCHANGED <<blobs, manifests, jobs, sweep>>
    /\ Overlap

DropBegin(c) ==
    /\ "drop" \in Operations
    /\ \E b \in stored : ~Referenced(b) /\ Begin(c, "drop object", b, None)
    /\ UNCHANGED <<blobs, manifests, jobs, sweep>>
    /\ Overlap

DropObject(c) ==
    /\ At(c, "drop object")
    /\ stored' = stored \ {client[c].blob}
    /\ Goto(c, "drop row")
    /\ UNCHANGED <<inventory, manifests, jobs, sweep>>
    /\ Overlap

DropRow(c) ==
    /\ At(c, "drop row")
    /\ inventory' = [inventory EXCEPT ![client[c].blob] = "absent"]
    /\ Finish(c)
    /\ UNCHANGED <<stored, manifests, jobs, sweep>>
    /\ Overlap

\* A statement or a store call of a request fails, or its process ends.
RequestFails(c) ==
    /\ "request" \in Failures
    /\ ~At(c, "idle")
    /\ Finish(c)
    /\ UNCHANGED <<blobs, manifests, jobs, sweep>>
    /\ BrokenOff(c)

-----------------------------------------------------------------------------
(* Time and the clean-up job.                                              *)

\* The grace period passes.  It is a week: no upload takes that long.
Age(b) ==
    /\ inventory[b] = "fresh"
    /\ \A c \in Client : ~(Uploading(c) /\ client[c].blob = b)
    /\ inventory' = [inventory EXCEPT ![b] = "aged"]
    /\ UNCHANGED <<stored, manifests, jobs, client, sweep>>
    /\ Overlap

\* A job that was scheduled by an upload is due: that of the last upload after the
\* grace period, those of earlier ones before.
CleanupDue(b) ==
    /\ b \in later
    /\ due' = TRUE
    /\ later' = IF inventory[b] = "fresh" THEN later ELSE later \ {b}
    /\ UNCHANGED <<blobs, manifests, client, sweep>>
    /\ Overlap

\* Mutation: the candidates without NOT EXISTS.
CandidatesReferenced == {b \in Blob : inventory[b] = "aged"}

Candidates == {b \in Blob : inventory[b] = "aged" /\ ~Referenced(b)}

\* The job is claimed (others may be due still) and its SELECT ... LIMIT is run.
SweepSelect(s) ==
    /\ due
    /\ sweep[s] = Resting
    /\ due' \in BOOLEAN
    /\ \E S \in SUBSET Candidates :
          /\ Cardinality(S) <= BatchSize
          /\ Cardinality(S) < BatchSize => S = Candidates
          /\ sweep' = [sweep EXCEPT ![s].todo = S, ![s].full = (Cardinality(S) = BatchSize)]
    /\ UNCHANGED <<blobs, manifests, later, client>>
    /\ Overlap

SweepObject(s) ==
    /\ sweep[s].current = None
    /\ \E b \in sweep[s].todo :
          /\ stored' = stored \ {b}
          /\ sweep' = [sweep EXCEPT ![s].current = b]
    /\ UNCHANGED <<inventory, manifests, jobs, client>>
    /\ Overlap

\* Mutation: a full batch is taken for the last one.
MoreForgotten(s) == FALSE

\* After a full batch the next clean-up is enqueued.
More(s) == sweep[s].full

SweepRow(s) ==
    /\ sweep[s].current # None
    /\ inventory' = [inventory EXCEPT ![sweep[s].current] = "absent"]
    /\ IF sweep[s].todo = {sweep[s].current}
       THEN sweep' = [sweep EXCEPT ![s] = Resting] /\ due' = (due \/ More(s))
       ELSE /\ sweep' = [sweep EXCEPT ![s].todo = @ \ {sweep[s].current}, ![s].current = None]
            /\ UNCHANGED due
    /\ UNCHANGED <<stored, manifests, later, client>>
    /\ Overlap

\* The job fails or its worker dies, and the queue has it run again.
SweepFails(s) ==
    /\ "sweep" \in Failures
    /\ sweep[s] # Resting
    /\ due' = TRUE
    /\ sweep' = [sweep EXCEPT ![s] = Resting]
    /\ UNCHANGED <<blobs, manifests, later, client>>
    /\ Overlap

-----------------------------------------------------------------------------
Upload(c) == UploadObject(c) \/ UploadRecord(c) \/ UploadSchedule(c)
PutManifest(c) ==
    \/ PutBegin(c) \/ PutCheck(c) \/ PutRelease(c) \/ PutRevive(c) \/ PutStore(c)
    \/ PutList(c) \/ PutClear(c) \/ PutRefer(c) \/ PutPublish(c) \/ PutTag(c)
DeleteManifest(c) ==
    \/ DeleteTag(c) \/ DeleteBegin(c) \/ DeleteUntag(c) \/ DeleteReferences(c)
    \/ DeleteRow(c) \/ DeleteObject(c) \/ DeleteRelease(c) \/ DeleteSchedule(c)
DropBlob(c) == DropBegin(c) \/ DropObject(c) \/ DropRow(c)
Sweep(s) == SweepSelect(s) \/ SweepObject(s) \/ SweepRow(s) \/ SweepFails(s)

Next ==
    \/ \E c \in Client :
          \/ Upload(c) \/ UploadUndone(c)
          \/ PutManifest(c) \/ DeleteManifest(c) \/ DropBlob(c)
          \/ RequestFails(c)
    \/ \E b \in Blob : Age(b) \/ CleanupDue(b)
    \/ \E s \in Sweeper : Sweep(s)

Spec == Init /\ [][Next]_vars

-----------------------------------------------------------------------------
(* Properties.                                                             *)

TypeOK ==
    /\ stored \subseteq Blob
    /\ inventory \in [Blob -> {"absent", "fresh", "aged"}]
    /\ status \in [Manifest -> Status]
    /\ kept \subseteq Manifest /\ listed \subseteq Manifest
    /\ refs \in [Manifest -> SUBSET Blob]
    /\ \A m \in Manifest : refs[m] \subseteq BlobsOf(m)
    /\ tag \in Manifest \cup {None}
    /\ due \in BOOLEAN /\ later \subseteq Blob
    /\ disturbed \subseteq Blob \cup Manifest

InProgress(m) == \E c \in Client : (Putting(c) \/ Deleting(c)) /\ client[c].manifest = m

\* ADR 0019: the clean-up "removes inventory rows and object-store blobs only when
\* no published manifest still references the digest": whatever a published
\* manifest lists can be pulled.  Violated (OciSwept.cfg); what holds is next.
PublishedIsComplete ==
    \A m \in Manifest : status[m] = "published" /\ ~InProgress(m) => BlobsOf(m) \subseteq stored

\* What is guaranteed: a published manifest that was never put and deleted at the
\* same time has its row, its object and its references, and every blob of it
\* that no clean-up or deletion had in hand together with a request is stored,
\* whatever else is uploaded, pushed again, deleted and swept meanwhile.
UndisturbedIsComplete ==
    \A m \in Manifest \ disturbed : status[m] = "published" /\ ~InProgress(m) =>
        /\ m \in listed /\ m \in kept
        /\ BlobsOf(m) \ disturbed \subseteq stored \cap refs[m]

\* A tag names a manifest that can be pulled, unless that one was put and deleted
\* at the same time, or is being deleted.
TagIsServed ==
    tag \in Manifest \ disturbed => Served(tag) \/ InProgress(tag)

\* No blob is forgotten: while it is stored it has a row of inventory, and if no
\* published manifest refers to it a clean-up that will find it is running, due
\* or scheduled.
NothingForgotten ==
    \A b \in stored \ (disturbed \cup Used) :
        /\ inventory[b] # "absent"
        /\ \/ Referenced(b) \/ b \in later \/ due
           \/ \E s \in Sweeper : b \in sweep[s].todo \/ sweep[s].full
           \/ \E c \in Client : Dropping(c) /\ client[c].blob = b

=============================================================================
