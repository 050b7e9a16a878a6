--------------------------- MODULE ReleasePipeline ---------------------------
(***************************************************************************)
(* One release from its creation to its publication and beyond: the        *)
(* control-plane handlers of crates/api/src/routes/packages.rs, the scan   *)
(* jobs they enqueue (crates/api/src/job_handlers.rs), the handler that    *)
(* runs those jobs (crates/workers/src/scanners.rs), and the review of     *)
(* findings (crates/api/src/routes/security.rs).                           *)
(*                                                                         *)
(* A handler is cut where it awaits a statement another process can see    *)
(* the effect of, or can change the answer to.  The queue is used through  *)
(* its contract: a scan job is taken, settled, lost and taken again as     *)
(* QueueContract says; a worker is modelled with one job in hand, because  *)
(* the rest of its batch counts as unfinished just like a waiting job.     *)
(***************************************************************************)
EXTENDS Naturals, FiniteSets

CONSTANTS
    Filename,   \* the names artifacts of this release are uploaded under
    Content,    \* what is uploaded, as far as its SHA-256 tells it apart
    Blocking,   \* the contents a scanner has a critical finding for
    Job,        \* the ids of scan jobs: the bound on how many are enqueued
    Worker,     \* worker instances
    Uploader, Publisher, Manager,   \* the requests that may run concurrently
    None,
    Failures    \* what may go wrong, of "request", "handler", "scanner", "worker"

ASSUME PipelineAssumption ==
    /\ None \notin Filename \cup Content \cup Worker
    /\ Blocking \subseteq Content
    /\ Failures \subseteq {"request", "handler", "scanner", "worker"}

VARIABLES
    release,    \* the row of releases
    artifacts,  \* the rows of artifacts: a filename's content, or None
    objects,    \* the keys in the artifact store
    found,      \* the files that have blocking rows in security_findings,
    open,       \* and those of them that have one with is_resolved = false
    stage, owner, file,   \* the scan jobs and their payload
    scan, upload, publish, manage,  \* how far each running handler has come
    scanned,    \* history: the files whose scan ran to its end
    reindexed   \* history: a reindex job was enqueued by a scan

table == <<release, artifacts, objects>>
review == <<found, open>>
queue == <<stage, owner, file>>
handlers == <<scan, upload, publish, manage>>
vars == <<table, review, queue, handlers, scanned, reindexed>>

Queue == INSTANCE QueueContract WITH stage <- stage, owner <- owner

-----------------------------------------------------------------------------
Readable == {"published", "deprecated", "yanked"}
ReleaseStatus == {"absent", "quarantine", "scanning"} \cup Readable
Release == [status : ReleaseStatus, yanked : BOOLEAN, deprecated : BOOLEAN]

\* Mutation: the COUNT(*) without its condition on the status.
UnfinishedAnyStatus == {j \in Job : stage[j] # "new"}

\* A job that COUNT(*) still sees: pending, running or dead.
Unfinished == {j \in Job : stage[j] \in {"waiting", "taken", "orphaned", "dead"}}
Unused == {j \in Job : stage[j] = "new"}

Listed == {f \in Filename : artifacts[f] # None}

\* The bound: a request starts only while the jobs it and the running ones may
\* enqueue still have an id.
Room(n) ==
    Cardinality(Unused) >= n + Cardinality({u \in Uploader : upload[u].pc # "idle"})
        + Cardinality({p \in Publisher : publish[p].pc # "idle"}) * Cardinality(Filename)

\* queue::enqueue of a scan of f
EnqueueScan(f) ==
    LET j == CHOOSE k \in Unused : TRUE
    IN  /\ Queue!Submit(j)
        /\ file' = [file EXCEPT ![j] = f]

(* No request, no job in hand.                                             *)
NoUpload == [pc |-> "idle", file |-> None, content |-> None, seen |-> "absent"]
NoPublish == [pc |-> "idle", todo |-> {}]
NoManage == [pc |-> "idle", flag |-> FALSE]
NoScan == [pc |-> "idle", verdict |-> "published"]

Init ==
    /\ release = [status |-> "absent", yanked |-> FALSE, deprecated |-> FALSE]
    /\ artifacts = [f \in Filename |-> None]
    /\ objects = {}
    /\ found = {} /\ open = {}
    /\ Queue!ContractInit
    /\ file = [j \in Job |-> None]
    /\ scan = [w \in Worker |-> NoScan]
    /\ upload = [u \in Uploader |-> NoUpload]
    /\ publish = [p \in Publisher |-> NoPublish]
    /\ manage = [m \in Manager |-> NoManage]
    /\ scanned = {}
    /\ reindexed = FALSE

-----------------------------------------------------------------------------
(* create_release                                                          *)

CreateRelease ==
    /\ release.status = "absent"
    /\ release' = [release EXCEPT !.status = "quarantine"]
    /\ UNCHANGED <<artifacts, objects, review, queue, handlers, scanned, reindexed>>

-----------------------------------------------------------------------------
(* upload_artifact                                                         *)

AcceptsUpload(status) == status \in {"quarantine", "scanning"}

\* load_release_for_write: the status the rest of the handler goes by.
UploadBegin(u) ==
    /\ upload[u].pc = "idle"
    /\ AcceptsUpload(release.status)
    /\ Room(1)
    /\ \E f \in Filename, c \in Content :
          upload' = [upload EXCEPT ![u] = [pc |-> "store", file |-> f, content |-> c,
                                           seen |-> release.status]]
    /\ UNCHANGED <<table, review, queue, scan, publish, manage, scanned, reindexed>>

\* Mutation: the object is stored after its row is inserted.
UploadStoreLater(u) ==
    /\ upload[u].pc = "store"
    /\ upload' = [upload EXCEPT ![u] = IF upload[u].file \in Listed THEN NoUpload
                                       ELSE [@ EXCEPT !.pc = "insert"]]
    /\ UNCHANGED <<table, review, queue, scan, publish, manage, scanned, reindexed>>

\* A file that is already there is answered, or refused, without a change; for a
\* new one the object is stored.  Nobody looks for an object without a row.
UploadStore(u) ==
    /\ upload[u].pc = "store"
    /\ IF upload[u].file \in Listed
       THEN /\ upload' = [upload EXCEPT ![u] = NoUpload]
            /\ UNCHANGED objects
       ELSE /\ objects' = objects \cup {<<upload[u].file, upload[u].content>>}
            /\ upload' = [upload EXCEPT ![u].pc = "insert"]
    /\ UNCHANGED <<release, artifacts, review, queue, scan, publish, manage, scanned, reindexed>>

\* Mutation: ON CONFLICT DO UPDATE.
InsertedOverwriting(f, c) == [artifacts EXCEPT ![f] = c]

\* INSERT ... ON CONFLICT (release_id, filename) DO NOTHING
Inserted(f, c) == IF f \in Listed THEN artifacts ELSE [artifacts EXCEPT ![f] = c]

\* The row; a scan is due only if the release was in scanning when it was read.
UploadInsert(u) ==
    /\ upload[u].pc = "insert"
    /\ artifacts' = Inserted(upload[u].file, upload[u].content)
    /\ upload' = [upload EXCEPT ![u] =
                     IF upload[u].file \notin Listed /\ upload[u].seen = "scanning"
                     THEN [@ EXCEPT !.pc = "enqueue"] ELSE NoUpload]
    /\ UNCHANGED <<release, objects, review, queue, scan, publish, manage, scanned, reindexed>>

UploadEnqueue(u) ==
    /\ upload[u].pc = "enqueue"
    /\ EnqueueScan(upload[u].file)
    /\ upload' = [upload EXCEPT ![u] = NoUpload]
    /\ UNCHANGED <<table, review, scan, publish, manage, scanned, reindexed>>

-----------------------------------------------------------------------------
(* publish_release                                                         *)

\* The transaction, with the row locked.  'published' and 'scanning' are answered
\* without a change, other statuses and a release without artifacts refused.
PublishCommit(p) ==
    /\ publish[p].pc = "idle"
    /\ release.status = "quarantine"
    /\ Listed # {}
    /\ Room(Cardinality(Filename))
    /\ release' = [release EXCEPT !.status = "scanning"]
    /\ publish' = [publish EXCEPT ![p].pc = "list"]
    /\ UNCHANGED <<artifacts, objects, review, queue, scan, upload, manage, scanned, reindexed>>

\* enqueue_release_scan_jobs, after the commit: the artifacts of this moment,
\* and one INSERT for each.  The order of upload is left out.
PublishList(p) ==
    /\ publish[p].pc = "list"
    /\ publish' = [publish EXCEPT ![p] = [pc |-> "enqueue", todo |-> Listed]]
    /\ UNCHANGED <<table, review, queue, scan, upload, manage, scanned, reindexed>>

PublishEnqueue(p) ==
    /\ publish[p].pc = "enqueue"
    /\ \E f \in publish[p].todo :
          /\ EnqueueScan(f)
          /\ publish' = [publish EXCEPT ![p] =
                            IF publish[p].todo = {f} THEN NoPublish
                            ELSE [pc |-> "enqueue", todo |-> publish[p].todo \ {f}]]
    /\ UNCHANGED <<table, review, scan, upload, manage, scanned, reindexed>>

\* A statement fails, the client goes away or the process ends: what is committed
\* stays.  A failed enqueue is only logged and ends the loop in the same way.
RequestFails ==
    /\ "request" \in Failures
    /\ \/ \E u \in Uploader :
             /\ upload[u].pc # "idle"
             /\ upload' = [upload EXCEPT ![u] = NoUpload]
             /\ UNCHANGED <<publish, manage>>
       \/ \E p \in Publisher :
             /\ publish[p].pc # "idle"
             /\ publish' = [publish EXCEPT ![p] = NoPublish]
             /\ UNCHANGED <<upload, manage>>
       \/ \E m \in Manager :
             /\ manage[m].pc # "idle"
             /\ manage' = [manage EXCEPT ![m] = NoManage]
             /\ UNCHANGED <<upload, publish>>
    /\ UNCHANGED <<table, review, queue, scan, scanned, reindexed>>

-----------------------------------------------------------------------------
(* yank_release, unyank_release, deprecate_release, undeprecate_release:   *)
(* each reads the row and then overwrites it by its key alone.             *)

ManageRead(m) ==
    /\ manage[m].pc = "idle"
    /\ \/ \* ensure_release_allows_status_mutation; the flags are not read
          /\ release.status \notin {"absent", "quarantine", "scanning"}
          /\ \E op \in {"yank", "deprecate"} :
                manage' = [manage EXCEPT ![m] = [pc |-> op, flag |-> FALSE]]
       \/ /\ release.yanked
          /\ manage' = [manage EXCEPT ![m] = [pc |-> "unyank", flag |-> release.deprecated]]
       \/ /\ release.deprecated
          /\ manage' = [manage EXCEPT ![m] = [pc |-> "undeprecate", flag |-> release.yanked]]
    /\ UNCHANGED <<table, review, queue, scan, upload, publish, scanned, reindexed>>

\* Mutation: the status after an unyank ignores the deprecation.
ManagedForgetful(op, flag) ==
    CASE op = "yank"        -> [release EXCEPT !.yanked = TRUE, !.status = "yanked"]
      [] op = "deprecate"   -> [release EXCEPT !.deprecated = TRUE, !.status = "deprecated"]
      [] op = "unyank"      -> [release EXCEPT !.yanked = FALSE, !.status = "published"]
      [] op = "undeprecate" -> [release EXCEPT !.deprecated = FALSE,
                                               !.status = IF flag THEN "yanked" ELSE "published"]

\* The UPDATE of each operation, with the other flag as it was read.
Managed(op, flag) ==
    CASE op = "yank"        -> [release EXCEPT !.yanked = TRUE, !.status = "yanked"]
      [] op = "deprecate"   -> [release EXCEPT !.deprecated = TRUE, !.status = "deprecated"]
      [] op = "unyank"      -> [release EXCEPT !.yanked = FALSE,
                                               !.status = IF flag THEN "deprecated" ELSE "published"]
      [] op = "undeprecate" -> [release EXCEPT !.deprecated = FALSE,
                                               !.status = IF flag THEN "yanked" ELSE "published"]

ManageWrite(m) ==
    /\ manage[m].pc # "idle"
    /\ release' = Managed(manage[m].pc, manage[m].flag)
    /\ manage' = [manage EXCEPT ![m] = NoManage]
    /\ UNCHANGED <<artifacts, objects, review, queue, scan, upload, publish, scanned, reindexed>>

-----------------------------------------------------------------------------
(* update_security_finding: one transaction; the release is left alone.    *)

ReviewFinding(f) ==
    /\ f \in found
    /\ open' \in {open \ {f}, open \cup {f}}
    /\ UNCHANGED <<table, found, queue, handlers, scanned, reindexed>>

-----------------------------------------------------------------------------
(* ScanArtifactHandler::handle, in the hands of a worker.                  *)

At(w, pc) == scan[w].pc = pc
Goto(w, pc) == scan' = [scan EXCEPT ![w].pc = pc]

\* The jobs a worker has taken and not settled (one at most).
InHand(w) == {j \in Job : owner[j] = w}

Claim(w) ==
    /\ At(w, "idle")
    /\ \E j \in Job : Queue!Take(w, {j})
    /\ Goto(w, "scan")
    /\ UNCHANGED <<table, review, file, upload, publish, manage, scanned, reindexed>>

\* Mutation: an object that cannot be read is passed over.
FetchFailsSilently(w) == Goto(w, "count")

\* Err: the object is missing, or the store, the database or the queue failed.
FetchFails(w) == Goto(w, "err")

\* Fetch, run the scanners and insert what they found.  A scanner that fails, or a
\* finding that cannot be inserted, is logged, and the handler goes on.
Scan(w) ==
    /\ At(w, "scan")
    /\ \E j \in InHand(w) :
          LET f == file[j]
              hit == artifacts[f] \in Blocking
          IN  \/ /\ <<f, artifacts[f]>> \in objects
                 /\ scanned' = scanned \cup {f}
                 /\ found' = IF hit THEN found \cup {f} ELSE found
                 /\ open' = IF hit THEN open \cup {f} ELSE open
                 /\ Goto(w, "count")
              \/ /\ "scanner" \in Failures
                 /\ Goto(w, "count")
                 /\ UNCHANGED <<scanned, found, open>>
              \/ /\ "handler" \in Failures \/ <<f, artifacts[f]>> \notin objects
                 /\ FetchFails(w)
                 /\ UNCHANGED <<scanned, found, open>>
    /\ UNCHANGED <<table, queue, upload, publish, manage, reindexed>>

\* The scan jobs of the release that are not completed, this one included: with
\* another one left, the release waits for that one.
Count(w) ==
    /\ At(w, "count")
    /\ Goto(w, IF Cardinality(Unfinished) > 1 THEN "ok" ELSE "inspect")
    /\ UNCHANGED <<table, review, queue, upload, publish, manage, scanned, reindexed>>

\* Mutation: a status the column does not have.
InspectQuarantined(w) ==
    /\ At(w, "inspect")
    /\ scan' = [scan EXCEPT ![w] = [pc |-> "flags",
                                    verdict |-> IF open # {} THEN "quarantined" ELSE "published"]]
    /\ UNCHANGED <<table, review, queue, upload, publish, manage, scanned, reindexed>>

\* has_blocking
Inspect(w) ==
    /\ At(w, "inspect")
    /\ scan' = [scan EXCEPT ![w] = [pc |-> "flags",
                                    verdict |-> IF open # {} THEN "quarantine" ELSE "published"]]
    /\ UNCHANGED <<table, review, queue, upload, publish, manage, scanned, reindexed>>

\* is_yanked, is_deprecated and new_status
ReadFlags(w) ==
    /\ At(w, "flags")
    /\ scan' = [scan EXCEPT ![w] =
                   [pc |-> "finalize",
                    verdict |-> IF scan[w].verdict = "quarantine" THEN "quarantine"
                                ELSE IF release.yanked THEN "yanked"
                                ELSE IF release.deprecated THEN "deprecated"
                                ELSE "published"]]
    /\ UNCHANGED <<table, review, queue, upload, publish, manage, scanned, reindexed>>

\* Mutations: the UPDATE without AND status = 'scanning'; the release is
\* finalized and its package not reindexed.
FinalizeAnyStatus(w) ==
    /\ At(w, "finalize")
    /\ release' = [release EXCEPT !.status = scan[w].verdict]
    /\ Goto(w, "reindex")
    /\ UNCHANGED <<artifacts, objects, review, queue, upload, publish, manage, scanned, reindexed>>

FinalizeOnly(w) ==
    /\ At(w, "finalize")
    /\ release' = IF release.status = "scanning" THEN [release EXCEPT !.status = scan[w].verdict]
                  ELSE release
    /\ Goto(w, "ok")
    /\ UNCHANGED <<artifacts, objects, review, queue, upload, publish, manage, scanned, reindexed>>

\* UPDATE releases ... WHERE id = $1 AND status = 'scanning'
Finalize(w) ==
    /\ At(w, "finalize")
    /\ IF release.status = "scanning"
       THEN /\ release' = [release EXCEPT !.status = scan[w].verdict]
            /\ Goto(w, "reindex")
       ELSE Goto(w, "ok") /\ UNCHANGED release
    /\ UNCHANGED <<artifacts, objects, review, queue, upload, publish, manage, scanned, reindexed>>

Reindex(w) ==
    /\ At(w, "reindex")
    /\ reindexed' = TRUE
    /\ Goto(w, "ok")
    /\ UNCHANGED <<table, review, queue, upload, publish, manage, scanned>>

\* A statement of the handler fails and it returns Err.
HandlerFails(w) ==
    /\ "handler" \in Failures
    /\ scan[w].pc \in {"count", "inspect", "flags", "finalize", "reindex"}
    /\ Goto(w, "err")
    /\ UNCHANGED <<table, review, queue, upload, publish, manage, scanned, reindexed>>

\* The worker records the outcome; a failed job waits for its retry or is dead.
Record(w) ==
    /\ \E j \in InHand(w) :
          \/ At(w, "ok") /\ Queue!Settle(w, j, "completed")
          \/ At(w, "err") /\ \E outcome \in {"waiting", "dead"} : Queue!Settle(w, j, outcome)
    /\ scan' = [scan EXCEPT ![w] = NoScan]
    /\ UNCHANGED <<table, review, file, upload, publish, manage, scanned, reindexed>>

\* The worker's process ends, or the outcome cannot be recorded.
WorkerFails(w) ==
    /\ "worker" \in Failures
    /\ ~At(w, "idle")
    /\ Queue!Lose(InHand(w))
    /\ scan' = [scan EXCEPT ![w] = NoScan]
    /\ UNCHANGED <<table, review, file, upload, publish, manage, scanned, reindexed>>

\* What the queue does by itself and by its operators.
QueueStep ==
    /\ \E j \in Job : Queue!Reclaim({j}) \/ Queue!Retry(j) \/ Queue!Discard({j})
    /\ UNCHANGED <<table, review, file, handlers, scanned, reindexed>>

-----------------------------------------------------------------------------
UploadStep(u) == UploadStore(u) \/ UploadInsert(u) \/ UploadEnqueue(u)
PublishStep(p) == PublishList(p) \/ PublishEnqueue(p)
ScanStep(w) ==
    \/ Scan(w) \/ Count(w) \/ Inspect(w) \/ ReadFlags(w) \/ Finalize(w) \/ Reindex(w)
    \/ Record(w)

Next ==
    \/ CreateRelease
    \/ \E u \in Uploader : UploadBegin(u) \/ UploadStep(u)
    \/ \E p \in Publisher : PublishCommit(p) \/ PublishStep(p)
    \/ \E m \in Manager : ManageRead(m) \/ ManageWrite(m)
    \/ RequestFails
    \/ \E f \in Filename : ReviewFinding(f)
    \/ \E w \in Worker : Claim(w) \/ ScanStep(w) \/ HandlerFails(w) \/ WorkerFails(w)
    \/ QueueStep

Spec == Init /\ [][Next]_vars

\* Requests that have begun and jobs that are due are worked on.
FairSpec ==
    /\ Spec
    /\ \A u \in Uploader : WF_vars(UploadStep(u))
    /\ \A p \in Publisher : WF_vars(PublishStep(p))
    /\ \A w \in Worker : WF_vars(Claim(w)) /\ WF_vars(ScanStep(w))

-----------------------------------------------------------------------------
(* Properties.                                                             *)

TypeOK ==
    /\ release \in Release
    /\ artifacts \in [Filename -> Content \cup {None}]
    /\ objects \subseteq Filename \X Content
    /\ found \subseteq Filename /\ open \subseteq found
    /\ stage \in [Job -> Queue!Stage]
    /\ owner \in [Job -> Worker \cup {None}]
    /\ file \in [Job -> Filename \cup {None}]
    /\ scan \in [Worker -> [pc : {"idle", "scan", "count", "inspect", "flags", "finalize",
                                  "reindex", "ok", "err"},
                            verdict : Readable \cup {"quarantine"}]]
    /\ upload \in [Uploader -> [pc : {"idle", "store", "insert", "enqueue"},
                                file : Filename \cup {None}, content : Content \cup {None},
                                seen : ReleaseStatus]]
    /\ publish \in [Publisher -> [pc : {"idle", "list", "enqueue"}, todo : SUBSET Filename]]
    /\ manage \in [Manager -> [pc : {"idle", "yank", "unyank", "deprecate", "undeprecate"},
                               flag : BOOLEAN]]
    /\ scanned \subseteq Filename
    /\ reindexed \in BOOLEAN

\* A listed artifact can be fetched: its object is in the store under the key of
\* its row, whatever requests race for the name and wherever one of them stops.
StoredBeforeListed == \A f \in Listed : <<f, artifacts[f]>> \in objects

\* README: "artifact content is never overwritten": a listed file keeps its
\* content, also when two uploads found the name free.
ContentIsImmutable ==
    [][\A f \in Listed : artifacts'[f] = artifacts[f]]_vars

\* What the public has seen does not disappear: no late, repeated or delayed scan
\* and no management request takes a readable release back.
NeverUnpublished ==
    [][release.status \in Readable => release'.status \in Readable]_vars

\* The status shown to readers agrees with the flags native clients are served
\* by.  It holds when management requests of a release come one at a time.
FlagsMatchStatus ==
    /\ release.status = "yanked" => release.yanked
    /\ release.status = "deprecated" => release.deprecated
    /\ release.status \notin {"yanked", "deprecated"} => ~release.yanked /\ ~release.deprecated

\* README: "Publish pipeline -- quarantine -> scan -> publish (never skippable)":
\* every artifact of a readable release has been scanned to the end.  It holds for a
\* release of one file; a second one may be skipped (ReleaseSkipped.cfg).
ScannedBeforeReadable ==
    release.status \in Readable => Listed \subseteq scanned

\* A release that became readable is in the search index or about to be: the scan
\* that finalized it enqueues the reindexing of its package.
FinalizedIsReindexed ==
    release.status \in Readable => reindexed \/ \E w \in Worker : At(w, "reindex")

\* scanners.rs, "waiting for remaining scan jobs before finalizing release": the
\* remaining jobs do finalize it, and scanning comes to an end.
ScanningEnds == release.status = "scanning" ~> release.status # "scanning"

=============================================================================
