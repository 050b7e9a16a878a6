---------------------------- MODULE ReleaseProofs ----------------------------
(***************************************************************************)
(* What holds of a release for every number of files, contents, scan jobs, *)
(* workers and concurrent requests, and with every kind of failure.        *)
(***************************************************************************)
EXTENDS ReleasePipeline, TLAPS

\* A running upload names a file and its content, and has stored the object
\* before it inserts the row.
UploadsAreStored ==
    \A u \in Uploader :
        /\ upload[u].pc # "idle" => upload[u].file \in Filename /\ upload[u].content \in Content
        /\ upload[u].pc = "insert" => <<upload[u].file, upload[u].content>> \in objects

\* Flags are set, and management requests under way, on readable releases only.
ManagedIsReadable ==
    /\ release.yanked \/ release.deprecated => release.status \in Readable
    /\ \A m \in Manager : manage[m].pc # "idle" => release.status \in Readable

IInv ==
    /\ TypeOK
    /\ UploadsAreStored
    /\ StoredBeforeListed
    /\ ManagedIsReadable

\* The types of the rows a handler may change, by the part of the state.
QueueType ==
    /\ stage \in [Job -> Queue!Stage]
    /\ owner \in [Job -> Worker \cup {None}]
    /\ file \in [Job -> Filename \cup {None}]

Uploads == [pc : {"idle", "store", "insert", "enqueue"}, file : Filename \cup {None},
            content : Content \cup {None}, seen : ReleaseStatus]
Publishes == [pc : {"idle", "list", "enqueue"}, todo : SUBSET Filename]
Managements == [pc : {"idle", "yank", "unyank", "deprecate", "undeprecate"}, flag : BOOLEAN]
Scans == [pc : {"idle", "scan", "count", "inspect", "flags", "finalize", "reindex", "ok", "err"},
          verdict : Readable \cup {"quarantine"}]

LEMMA Types ==
    TypeOK <=> /\ release \in Release
               /\ artifacts \in [Filename -> Content \cup {None}]
               /\ objects \subseteq Filename \X Content
               /\ found \subseteq Filename /\ open \subseteq found
               /\ QueueType
               /\ scan \in [Worker -> Scans]
               /\ upload \in [Uploader -> Uploads]
               /\ publish \in [Publisher -> Publishes]
               /\ manage \in [Manager -> Managements]
               /\ scanned \subseteq Filename
               /\ reindexed \in BOOLEAN
  BY DEF TypeOK, QueueType, Uploads, Publishes, Managements, Scans

-----------------------------------------------------------------------------
(* The queue.                                                              *)

LEMMA MoveType ==
    ASSUME QueueType, NEW S, NEW from, NEW to \in Queue!Stage, NEW w \in Worker \cup {None},
           Queue!Move(S, from, to, w)
    PROVE  /\ stage' \in [Job -> Queue!Stage]
           /\ owner' \in [Job -> Worker \cup {None}]
  BY DEF QueueType, Queue!Move

LEMMA EnqueueType ==
    ASSUME QueueType, NEW f \in Filename \cup {None}, EnqueueScan(f)
    PROVE  QueueType'
  <1>1. PICK j : Queue!Move({j}, {"new"}, "waiting", None) /\ file' = [file EXCEPT ![j] = f]
    BY DEF EnqueueScan, Queue!Submit
  <1>2. "waiting" \in Queue!Stage
    BY DEF Queue!Stage
  <1>3. file' \in [Job -> Filename \cup {None}]
    BY <1>1 DEF QueueType
  <1> QED BY <1>1, <1>2, <1>3, MoveType DEF QueueType

-----------------------------------------------------------------------------
LEMMA InitIInv == Init => IInv
  <1> SUFFICES ASSUME Init PROVE IInv
    OBVIOUS
  <1>1. release \in Release
    BY DEF Init, Release, ReleaseStatus
  <1>2. QueueType
    BY DEF Init, QueueType, Queue!ContractInit, Queue!Stage
  <1>3. NoScan \in Scans /\ NoUpload \in Uploads /\ NoPublish \in Publishes /\ NoManage \in Managements
    BY DEF NoScan, Scans, Readable, NoUpload, Uploads, ReleaseStatus, NoPublish, Publishes,
           NoManage, Managements
  <1>4. /\ scan \in [Worker -> Scans] /\ upload \in [Uploader -> Uploads]
        /\ publish \in [Publisher -> Publishes] /\ manage \in [Manager -> Managements]
    BY <1>3 DEF Init
  <1>5. /\ artifacts \in [Filename -> Content \cup {None}]
        /\ objects \subseteq Filename \X Content
        /\ found \subseteq Filename /\ open \subseteq found
        /\ scanned \subseteq Filename /\ reindexed \in BOOLEAN
    BY DEF Init
  <1>6. TypeOK
    BY <1>1, <1>2, <1>4, <1>5, Types
  <1>7. UploadsAreStored
    BY DEF Init, UploadsAreStored, NoUpload
  <1>8. StoredBeforeListed
    BY DEF Init, StoredBeforeListed, Listed
  <1>9. ManagedIsReadable
    BY DEF Init, ManagedIsReadable, NoManage
  <1> QED BY <1>6, <1>7, <1>8, <1>9 DEF IInv

-----------------------------------------------------------------------------
(* One step per action.  First what is left alone by most of them.         *)

LEMMA TableKept ==
    ASSUME IInv, UNCHANGED <<release, artifacts, objects, upload, manage>>
    PROVE  /\ UploadsAreStored' /\ StoredBeforeListed' /\ ManagedIsReadable'
  BY DEF IInv, UploadsAreStored, StoredBeforeListed, Listed, ManagedIsReadable

LEMMA CreateKeeps ==
    ASSUME IInv, CreateRelease
    PROVE  IInv'
  <1>1. /\ release \in Release /\ release.status = "absent"
        /\ release' = [release EXCEPT !.status = "quarantine"]
        /\ UNCHANGED <<artifacts, objects, review, queue, handlers, scanned, reindexed>>
    BY Types DEF IInv, CreateRelease
  <1>2. release' \in Release
    BY <1>1 DEF Release, ReleaseStatus
  <1>3. TypeOK'
    BY <1>1, <1>2 DEF IInv, TypeOK, review, queue, handlers
  <1>4. ManagedIsReadable'
    BY <1>1 DEF IInv, ManagedIsReadable, Release, Readable, handlers
  <1>5. UploadsAreStored' /\ StoredBeforeListed'
    BY <1>1 DEF IInv, UploadsAreStored, StoredBeforeListed, Listed, handlers
  <1> QED BY <1>3, <1>4, <1>5 DEF IInv

LEMMA UploadBeginKeeps ==
    ASSUME IInv, NEW u \in Uploader, UploadBegin(u)
    PROVE  IInv'
  <1>1. upload \in [Uploader -> Uploads] /\ release \in Release
    BY Types DEF IInv
  <1>2. PICK f \in Filename, c \in Content :
            upload' = [upload EXCEPT ![u] = [pc |-> "store", file |-> f, content |-> c,
                                             seen |-> release.status]]
    BY DEF UploadBegin
  <1>3. UNCHANGED <<table, review, queue, scan, publish, manage, scanned, reindexed>>
    BY DEF UploadBegin
  <1>4. [pc |-> "store", file |-> f, content |-> c, seen |-> release.status] \in Uploads
    BY <1>1 DEF Uploads, Release
  <1>5. upload' \in [Uploader -> Uploads]
    BY <1>1, <1>2, <1>4
  <1>6. TypeOK'
    BY <1>3, <1>5 DEF IInv, TypeOK, Uploads, table, review, queue
  <1>7. UploadsAreStored'
    BY <1>1, <1>2, <1>3 DEF IInv, UploadsAreStored, table
  <1>8. StoredBeforeListed' /\ ManagedIsReadable'
    BY <1>3 DEF IInv, StoredBeforeListed, Listed, ManagedIsReadable, table
  <1> QED BY <1>6, <1>7, <1>8 DEF IInv

\* A request that ends, or breaks off.
LEMMA NoUploadStep ==
    ASSUME IInv, NEW u \in Uploader, upload' = [upload EXCEPT ![u] = NoUpload],
           objects \subseteq objects'
    PROVE  upload' \in [Uploader -> Uploads] /\ UploadsAreStored'
  <1>1. upload \in [Uploader -> Uploads]
    BY Types DEF IInv
  <1>2. NoUpload \in Uploads
    BY DEF NoUpload, Uploads, ReleaseStatus
  <1>3. upload' \in [Uploader -> Uploads]
    BY <1>1, <1>2
  <1>4. UploadsAreStored'
    BY <1>1 DEF IInv, UploadsAreStored, NoUpload
  <1> QED BY <1>3, <1>4

LEMMA UploadStoreKeeps ==
    ASSUME IInv, NEW u \in Uploader, UploadStore(u)
    PROVE  IInv'
  <1>1. upload \in [Uploader -> Uploads] /\ objects \subseteq Filename \X Content
    BY Types DEF IInv
  <1>2. upload[u].file \in Filename /\ upload[u].content \in Content
    BY DEF IInv, UploadsAreStored, UploadStore
  <1>3. UNCHANGED <<release, artifacts, review, queue, scan, publish, manage, scanned, reindexed>>
    BY DEF UploadStore
  <1>4. /\ objects' \subseteq Filename \X Content /\ objects \subseteq objects'
        /\ upload' \in [Uploader -> Uploads] /\ UploadsAreStored'
    <2>1. CASE upload[u].file \in Listed
      BY <1>1, <2>1, NoUploadStep DEF UploadStore
    <2>2. CASE upload[u].file \notin Listed
      <3>1. /\ objects' = objects \cup {<<upload[u].file, upload[u].content>>}
            /\ upload' = [upload EXCEPT ![u].pc = "insert"]
        BY <2>2 DEF UploadStore
      <3>2. upload' \in [Uploader -> Uploads]
        BY <1>1, <3>1 DEF Uploads
      <3>3. /\ \A v \in Uploader : v # u => upload'[v] = upload[v]
            /\ upload'[u].file = upload[u].file /\ upload'[u].content = upload[u].content
        BY <1>1, <3>1 DEF Uploads
      <3>4. UploadsAreStored'
        BY <1>2, <3>1, <3>3 DEF IInv, UploadsAreStored
      <3> QED BY <1>1, <1>2, <3>1, <3>2, <3>4
    <2> QED BY <2>1, <2>2
  <1>5. TypeOK'
    BY <1>3, <1>4 DEF IInv, TypeOK, Uploads, review, queue
  <1>6. StoredBeforeListed' /\ ManagedIsReadable'
    BY <1>3, <1>4 DEF IInv, StoredBeforeListed, Listed, ManagedIsReadable
  <1> QED BY <1>4, <1>5, <1>6 DEF IInv

LEMMA UploadInsertKeeps ==
    ASSUME IInv, NEW u \in Uploader, UploadInsert(u)
    PROVE  IInv'
  <1>1. /\ upload \in [Uploader -> Uploads]
        /\ artifacts \in [Filename -> Content \cup {None}]
    BY Types DEF IInv
  <1>2. PICK f \in Filename, c \in Content :
            /\ upload[u].file = f /\ upload[u].content = c
            /\ <<f, c>> \in objects
    BY DEF IInv, UploadsAreStored, UploadInsert
  <1>3. UNCHANGED <<release, objects, review, queue, scan, publish, manage, scanned, reindexed>>
    BY DEF UploadInsert
  <1>4. artifacts' = artifacts \/ artifacts' = [artifacts EXCEPT ![f] = c]
    BY <1>2 DEF UploadInsert, Inserted
  <1>5. artifacts' \in [Filename -> Content \cup {None}]
    BY <1>1, <1>2, <1>4
  <1>6. StoredBeforeListed'
    BY <1>1, <1>2, <1>3, <1>4 DEF IInv, StoredBeforeListed, Listed
  <1>7. upload' \in [Uploader -> Uploads] /\ UploadsAreStored'
    <2>1. CASE upload' = [upload EXCEPT ![u] = NoUpload]
      BY <1>3, <2>1, NoUploadStep
    <2>2. CASE upload' = [upload EXCEPT ![u].pc = "enqueue"]
      <3>1. upload' \in [Uploader -> Uploads]
        BY <1>1, <2>2 DEF Uploads
      <3>2. /\ \A v \in Uploader : v # u => upload'[v] = upload[v]
            /\ upload'[u].file = f /\ upload'[u].content = c /\ upload'[u].pc = "enqueue"
        BY <1>1, <1>2, <2>2 DEF Uploads
      <3>3. UploadsAreStored'
        BY <1>3, <3>2 DEF IInv, UploadsAreStored
      <3> QED BY <3>1, <3>3
    <2> QED BY <2>1, <2>2 DEF UploadInsert
  <1>8. TypeOK'
    BY <1>3, <1>5, <1>7 DEF IInv, TypeOK, Uploads, review, queue
  <1>9. ManagedIsReadable'
    BY <1>3 DEF IInv, ManagedIsReadable
  <1> QED BY <1>6, <1>7, <1>8, <1>9 DEF IInv

LEMMA UploadEnqueueKeeps ==
    ASSUME IInv, NEW u \in Uploader, UploadEnqueue(u)
    PROVE  IInv'
  <1>1. QueueType /\ upload[u].file \in Filename
    BY Types DEF IInv, UploadsAreStored, UploadEnqueue
  <1>2. UNCHANGED <<table, review, scan, publish, manage, scanned, reindexed>>
    BY DEF UploadEnqueue
  <1>3. QueueType'
    BY <1>1, EnqueueType DEF UploadEnqueue
  <1>4. upload' \in [Uploader -> Uploads] /\ UploadsAreStored'
    BY <1>2, NoUploadStep DEF UploadEnqueue, table
  <1>5. TypeOK'
    BY <1>2, <1>3, <1>4 DEF IInv, TypeOK, Uploads, QueueType, table, review
  <1>6. StoredBeforeListed' /\ ManagedIsReadable'
    BY <1>2 DEF IInv, StoredBeforeListed, Listed, ManagedIsReadable, table
  <1> QED BY <1>4, <1>5, <1>6 DEF IInv

LEMMA PublishCommitKeeps ==
    ASSUME IInv, NEW p \in Publisher, PublishCommit(p)
    PROVE  IInv'
  <1>1. /\ release \in Release /\ release.status = "quarantine"
        /\ release' = [release EXCEPT !.status = "scanning"]
        /\ publish \in [Publisher -> Publishes] /\ publish' = [publish EXCEPT ![p].pc = "list"]
        /\ UNCHANGED <<artifacts, objects, review, queue, scan, upload, manage, scanned, reindexed>>
    BY Types DEF IInv, PublishCommit
  <1>2. release' \in Release /\ publish' \in [Publisher -> Publishes]
    BY <1>1 DEF Release, ReleaseStatus, Publishes
  <1>3. TypeOK'
    BY <1>1, <1>2 DEF IInv, TypeOK, Publishes, review, queue
  <1>4. ManagedIsReadable'
    BY <1>1 DEF IInv, ManagedIsReadable, Release, Readable
  <1>5. UploadsAreStored' /\ StoredBeforeListed'
    BY <1>1 DEF IInv, UploadsAreStored, StoredBeforeListed, Listed
  <1> QED BY <1>3, <1>4, <1>5 DEF IInv

LEMMA PublishStepKeeps ==
    ASSUME IInv, NEW p \in Publisher, PublishStep(p)
    PROVE  IInv'
  <1>1. publish \in [Publisher -> Publishes] /\ QueueType
    BY Types DEF IInv
  <1>2. UNCHANGED <<table, review, scan, upload, manage, scanned, reindexed>>
    BY DEF PublishStep, PublishList, PublishEnqueue, queue
  <1>3. QueueType' /\ publish' \in [Publisher -> Publishes]
    <2>1. CASE PublishList(p)
      <3>1. [pc |-> "enqueue", todo |-> Listed] \in Publishes
        BY DEF Publishes, Listed
      <3> QED BY <1>1, <2>1, <3>1 DEF PublishList, QueueType, queue
    <2>2. CASE PublishEnqueue(p)
      <3> DEFINE after(f) == IF publish[p].todo = {f} THEN NoPublish
                             ELSE [pc |-> "enqueue", todo |-> publish[p].todo \ {f}]
      <3>1. PICK f \in publish[p].todo :
             EnqueueScan(f) /\ publish' = [publish EXCEPT ![p] = after(f)]
        BY <2>2 DEF PublishEnqueue
      <3>2. f \in Filename
        BY <1>1, <3>1 DEF Publishes
      <3>3. after(f) \in Publishes
        BY <1>1 DEF NoPublish, Publishes
      <3> HIDE DEF after
      <3>4. publish' \in [Publisher -> Publishes]
        BY <1>1, <3>1, <3>3
      <3> QED BY <1>1, <3>1, <3>2, <3>4, EnqueueType
    <2> QED BY <2>1, <2>2 DEF PublishStep
  <1>4. TypeOK'
    BY <1>2, <1>3 DEF IInv, TypeOK, Publishes, QueueType, table, review
  <1>5. UploadsAreStored' /\ StoredBeforeListed' /\ ManagedIsReadable'
    BY <1>2, TableKept DEF table
  <1> QED BY <1>4, <1>5 DEF IInv

LEMMA RequestFailsKeeps ==
    ASSUME IInv, RequestFails
    PROVE  IInv'
  <1>1. /\ upload \in [Uploader -> Uploads]
        /\ publish \in [Publisher -> Publishes] /\ manage \in [Manager -> Managements]
    BY Types DEF IInv
  <1>2. UNCHANGED <<table, review, queue, scan, scanned, reindexed>>
    BY DEF RequestFails
  <1>3. /\ upload' \in [Uploader -> Uploads] /\ UploadsAreStored'
    <2>1. CASE UNCHANGED upload
      BY <1>1, <1>2, <2>1 DEF IInv, UploadsAreStored, table
    <2>2. CASE \E u \in Uploader : upload' = [upload EXCEPT ![u] = NoUpload]
      BY <1>2, <2>2, NoUploadStep DEF table
    <2> QED BY <2>1, <2>2 DEF RequestFails
  <1>4. NoPublish \in Publishes /\ NoManage \in Managements /\ NoManage.pc = "idle"
    BY DEF NoPublish, Publishes, NoManage, Managements
  <1>5. publish' \in [Publisher -> Publishes]
    BY <1>1, <1>4 DEF RequestFails
  <1>6. /\ manage' \in [Manager -> Managements]
        /\ \A m \in Manager : manage'[m] = manage[m] \/ manage'[m] = NoManage
    BY <1>1, <1>4 DEF RequestFails
  <1>7. ManagedIsReadable'
    BY <1>2, <1>4, <1>6 DEF IInv, ManagedIsReadable, table
  <1>8. StoredBeforeListed'
    BY <1>2 DEF IInv, StoredBeforeListed, Listed, table
  <1>9. TypeOK'
    BY <1>2, <1>3, <1>5, <1>6 DEF IInv, TypeOK, Uploads, Publishes, Managements,
                                  table, review, queue
  <1> QED BY <1>3, <1>7, <1>8, <1>9 DEF IInv

LEMMA ManageReadKeeps ==
    ASSUME IInv, NEW m \in Manager, ManageRead(m)
    PROVE  IInv'
  <1>1. manage \in [Manager -> Managements] /\ release \in Release
    BY Types DEF IInv
  <1>2. UNCHANGED <<table, review, queue, scan, upload, publish, scanned, reindexed>>
    BY DEF ManageRead
  <1>3. release.status \in Readable
    BY <1>1 DEF ManageRead, IInv, ManagedIsReadable, Release, ReleaseStatus
  <1>4. PICK new \in Managements : manage' = [manage EXCEPT ![m] = new]
    <2>1. CASE \E op \in {"yank", "deprecate"} :
                  manage' = [manage EXCEPT ![m] = [pc |-> op, flag |-> FALSE]]
      BY <2>1 DEF Managements
    <2>2. CASE manage' = [manage EXCEPT ![m] = [pc |-> "unyank", flag |-> release.deprecated]]
      BY <1>1, <2>2 DEF Managements, Release
    <2>3. CASE manage' = [manage EXCEPT ![m] = [pc |-> "undeprecate", flag |-> release.yanked]]
      BY <1>1, <2>3 DEF Managements, Release
    <2> QED BY <2>1, <2>2, <2>3 DEF ManageRead
  <1>5. manage' \in [Manager -> Managements]
    BY <1>1, <1>4
  <1>6. TypeOK'
    BY <1>2, <1>5 DEF IInv, TypeOK, Managements, table, review, queue
  <1>7. ManagedIsReadable'
    BY <1>2, <1>3 DEF IInv, ManagedIsReadable, table
  <1>8. UploadsAreStored' /\ StoredBeforeListed'
    BY <1>2 DEF IInv, UploadsAreStored, StoredBeforeListed, Listed, table
  <1> QED BY <1>6, <1>7, <1>8 DEF IInv

LEMMA ManageWriteKeeps ==
    ASSUME IInv, NEW m \in Manager, ManageWrite(m)
    PROVE  IInv'
  <1>1. manage \in [Manager -> Managements] /\ release \in Release
    BY Types DEF IInv
  <1>2. UNCHANGED <<artifacts, objects, review, queue, scan, upload, publish, scanned, reindexed>>
    BY DEF ManageWrite
  <1>3. release' \in Release /\ release'.status \in Readable
    <2>1. manage[m].pc \in {"yank", "unyank", "deprecate", "undeprecate"}
      BY <1>1 DEF ManageWrite, Managements
    <2> QED BY <1>1, <2>1 DEF ManageWrite, Managed, Release, ReleaseStatus, Readable
  <1>4. NoManage \in Managements
    BY DEF NoManage, Managements
  <1>5. manage' \in [Manager -> Managements]
    BY <1>1, <1>4 DEF ManageWrite
  <1>6. TypeOK'
    BY <1>2, <1>3, <1>5 DEF IInv, TypeOK, Managements, review, queue
  <1>7. ManagedIsReadable'
    BY <1>3 DEF ManagedIsReadable
  <1>8. UploadsAreStored' /\ StoredBeforeListed'
    BY <1>2 DEF IInv, UploadsAreStored, StoredBeforeListed, Listed
  <1> QED BY <1>6, <1>7, <1>8 DEF IInv

-----------------------------------------------------------------------------
(* The scan, the review and the queue.                                     *)

\* A step of a worker that changes neither rows nor findings.
LEMMA ScanTypes ==
    ASSUME IInv, UNCHANGED <<table, review, upload, publish, manage, scanned>>,
           QueueType', scan' \in [Worker -> Scans], reindexed' \in BOOLEAN
    PROVE  IInv'
  <1>1. TypeOK'
    BY DEF IInv, TypeOK, QueueType, Scans, table, review
  <1>2. UploadsAreStored' /\ StoredBeforeListed' /\ ManagedIsReadable'
    BY TableKept DEF table
  <1> QED BY <1>1, <1>2 DEF IInv

\* A worker that goes on to another statement of the handler.
LEMMA GotoType ==
    ASSUME IInv, NEW w \in Worker,
           NEW pc \in {"idle", "scan", "count", "inspect", "flags", "finalize", "reindex",
                       "ok", "err"},
           Goto(w, pc)
    PROVE  scan' \in [Worker -> Scans]
  <1>1. scan \in [Worker -> Scans]
    BY Types DEF IInv
  <1> QED BY <1>1 DEF Goto, Scans

LEMMA ReviewKeeps ==
    ASSUME IInv, NEW f \in Filename, ReviewFinding(f)
    PROVE  IInv'
  <1>1. /\ UNCHANGED <<table, found, queue, handlers, scanned, reindexed>>
        /\ open' \subseteq found
    BY DEF ReviewFinding, IInv, TypeOK
  <1>2. TypeOK'
    BY <1>1 DEF IInv, TypeOK, table, queue, handlers
  <1>3. UploadsAreStored' /\ StoredBeforeListed' /\ ManagedIsReadable'
    BY <1>1, TableKept DEF table, handlers
  <1> QED BY <1>2, <1>3 DEF IInv

LEMMA ClaimKeeps ==
    ASSUME IInv, NEW w \in Worker, Claim(w)
    PROVE  IInv'
  <1>1. QueueType
    BY Types DEF IInv
  <1>2. PICK j \in Job : Queue!Move({j}, {"waiting"}, "taken", w)
    BY DEF Claim, Queue!Take
  <1>3. "taken" \in Queue!Stage
    BY DEF Queue!Stage
  <1>4. QueueType'
    BY <1>1, <1>2, <1>3, MoveType DEF QueueType, Claim
  <1>5. scan' \in [Worker -> Scans]
    BY GotoType DEF Claim
  <1>6. UNCHANGED <<table, review, upload, publish, manage, scanned, reindexed>>
    BY DEF Claim
  <1> QED BY <1>4, <1>5, <1>6, ScanTypes DEF IInv, TypeOK

LEMMA ScanKeeps ==
    ASSUME IInv, NEW w \in Worker, Scan(w)
    PROVE  IInv'
  <1>1. UNCHANGED <<table, queue, upload, publish, manage, reindexed>>
    BY DEF Scan
  <1>2. scan' \in [Worker -> Scans]
    BY GotoType DEF Scan, FetchFails
  <1>3. /\ found' \subseteq Filename /\ open' \subseteq found' /\ scanned' \subseteq Filename
    <2>1. /\ objects \subseteq Filename \X Content
          /\ found \subseteq Filename /\ open \subseteq found /\ scanned \subseteq Filename
      BY Types DEF IInv
    <2>2. CASE UNCHANGED <<scanned, found, open>>
      BY <2>1, <2>2
    <2>3. CASE \E f \in Filename :
                  /\ scanned' = scanned \cup {f}
                  /\ \/ found' = found /\ open' = open
                     \/ found' = found \cup {f} /\ open' = open \cup {f}
      BY <2>1, <2>3
    <2>4. \/ UNCHANGED <<scanned, found, open>>
          \/ \E j \in InHand(w) :
                LET f == file[j]
                IN  /\ <<f, artifacts[f]>> \in objects
                    /\ scanned' = scanned \cup {f}
                    /\ found' = IF artifacts[f] \in Blocking THEN found \cup {f} ELSE found
                    /\ open' = IF artifacts[f] \in Blocking THEN open \cup {f} ELSE open
      BY DEF Scan
    <2> QED BY <2>1, <2>2, <2>3, <2>4
  <1>4. TypeOK'
    BY <1>1, <1>2, <1>3 DEF IInv, TypeOK, Scans, table, queue
  <1>5. UploadsAreStored' /\ StoredBeforeListed' /\ ManagedIsReadable'
    BY <1>1, TableKept DEF table
  <1> QED BY <1>4, <1>5 DEF IInv

\* The statements of the handler that only decide how it goes on.
LEMMA DecideKeeps ==
    ASSUME IInv, NEW w \in Worker,
           \/ Count(w) \/ Inspect(w) \/ ReadFlags(w) \/ Reindex(w) \/ HandlerFails(w)
    PROVE  IInv'
  <1>1. /\ UNCHANGED <<table, review, queue, upload, publish, manage, scanned>>
        /\ reindexed' \in BOOLEAN
    BY DEF Count, Inspect, ReadFlags, Reindex, HandlerFails, IInv, TypeOK
  <1>2. QueueType'
    BY <1>1, Types DEF IInv, QueueType, queue
  <1>3. scan \in [Worker -> Scans]
    BY Types DEF IInv
  <1>4. scan' \in [Worker -> Scans]
    <2>1. CASE Count(w) \/ Reindex(w) \/ HandlerFails(w)
      BY <2>1, GotoType DEF Count, Reindex, HandlerFails
    <2>2. CASE Inspect(w) \/ ReadFlags(w)
      <3>1. PICK pc \in {"flags", "finalize"}, verdict \in Readable \cup {"quarantine"} :
                scan' = [scan EXCEPT ![w] = [pc |-> pc, verdict |-> verdict]]
        BY <2>2 DEF Inspect, ReadFlags, Readable
      <3>2. [pc |-> pc, verdict |-> verdict] \in Scans
        BY DEF Scans
      <3> QED BY <1>3, <3>1, <3>2
    <2> QED BY <2>1, <2>2
  <1> QED BY <1>1, <1>2, <1>4, ScanTypes

LEMMA FinalizeKeeps ==
    ASSUME IInv, NEW w \in Worker, Finalize(w)
    PROVE  IInv'
  <1>1. release \in Release /\ scan \in [Worker -> Scans]
    BY Types DEF IInv
  <1>2. UNCHANGED <<artifacts, objects, review, queue, upload, publish, manage, scanned, reindexed>>
    BY DEF Finalize
  <1>3. scan' \in [Worker -> Scans]
    BY GotoType DEF Finalize
  <1>4. CASE release.status = "scanning"
    <2>1. release' = [release EXCEPT !.status = scan[w].verdict]
      BY <1>4 DEF Finalize
    <2>2. scan[w].verdict \in ReleaseStatus
      BY <1>1 DEF Scans, ReleaseStatus
    <2>3. release' \in Release
      BY <1>1, <2>1, <2>2 DEF Release
    <2>4. ~release.yanked /\ ~release.deprecated /\ \A m \in Manager : manage[m].pc = "idle"
      BY <1>4 DEF IInv, ManagedIsReadable, Readable
    <2>5. ManagedIsReadable'
      BY <1>1, <1>2, <2>1, <2>4 DEF ManagedIsReadable, Release
    <2>6. TypeOK'
      BY <1>2, <1>3, <2>3 DEF IInv, TypeOK, Scans, review, queue
    <2>7. UploadsAreStored' /\ StoredBeforeListed'
      BY <1>2 DEF IInv, UploadsAreStored, StoredBeforeListed, Listed
    <2> QED BY <2>5, <2>6, <2>7 DEF IInv
  <1>5. CASE release.status # "scanning"
    <2>1. UNCHANGED release
      BY <1>5 DEF Finalize
    <2>2. QueueType' /\ reindexed' \in BOOLEAN
      BY <1>2, Types DEF IInv, QueueType, queue
    <2> QED BY <1>2, <1>3, <2>1, <2>2, ScanTypes DEF table
  <1> QED BY <1>4, <1>5

\* The worker settles its job, or is gone.
LEMMA EndKeeps ==
    ASSUME IInv, NEW w \in Worker, Record(w) \/ WorkerFails(w)
    PROVE  IInv'
  <1>1. scan \in [Worker -> Scans] /\ QueueType /\ NoScan \in Scans
    BY Types DEF IInv, NoScan, Scans, Readable
  <1>2. UNCHANGED <<table, review, file, upload, publish, manage, scanned, reindexed>>
    BY DEF Record, WorkerFails
  <1>3. scan' \in [Worker -> Scans]
    BY <1>1 DEF Record, WorkerFails
  <1>4. {"completed", "waiting", "dead", "orphaned"} \subseteq Queue!Stage
    BY DEF Queue!Stage
  <1>5. PICK to \in {"completed", "waiting", "dead", "orphaned"} :
            \E S, from : Queue!Move(S, from, to, None)
    BY DEF Record, WorkerFails, Queue!Settle, Queue!Lose
  <1>6. QueueType'
    BY <1>1, <1>2, <1>4, <1>5, MoveType DEF QueueType
  <1> QED BY <1>2, <1>3, <1>6, ScanTypes DEF IInv, TypeOK

LEMMA QueueStepKeeps ==
    ASSUME IInv, QueueStep
    PROVE  IInv'
  <1>1. scan \in [Worker -> Scans] /\ QueueType
    BY Types DEF IInv
  <1>2. UNCHANGED <<table, review, file, handlers, scanned, reindexed>>
    BY DEF QueueStep
  <1>3. {"waiting", "deleted"} \subseteq Queue!Stage
    BY DEF Queue!Stage
  <1>4. PICK to \in {"waiting", "deleted"} : \E S, from : Queue!Move(S, from, to, None)
    BY DEF QueueStep, Queue!Reclaim, Queue!Retry, Queue!Discard
  <1>5. QueueType'
    BY <1>1, <1>2, <1>3, <1>4, MoveType DEF QueueType
  <1> QED BY <1>1, <1>2, <1>5, ScanTypes DEF handlers, IInv, TypeOK

-----------------------------------------------------------------------------
THEOREM InductiveInvariant == Spec => []IInv
  <1>1. Init => IInv
    BY InitIInv
  <1>2. IInv /\ [Next]_vars => IInv'
    <2> SUFFICES ASSUME IInv, [Next]_vars PROVE IInv'
      OBVIOUS
    <2>1. CASE UNCHANGED vars
      <3>1. TypeOK'
        BY <2>1 DEF IInv, TypeOK, vars, table, review, queue, handlers
      <3>2. UploadsAreStored' /\ StoredBeforeListed' /\ ManagedIsReadable'
        BY <2>1, TableKept DEF vars, table, handlers
      <3> QED BY <3>1, <3>2 DEF IInv
    <2>2. CASE CreateRelease \/ RequestFails \/ QueueStep
      BY <2>2, CreateKeeps, RequestFailsKeeps, QueueStepKeeps
    <2>3. CASE \E u \in Uploader : UploadBegin(u) \/ UploadStep(u)
      BY <2>3, UploadBeginKeeps, UploadStoreKeeps, UploadInsertKeeps, UploadEnqueueKeeps
         DEF UploadStep
    <2>4. CASE \E p \in Publisher : PublishCommit(p) \/ PublishStep(p)
      BY <2>4, PublishCommitKeeps, PublishStepKeeps
    <2>5. CASE \E m \in Manager : ManageRead(m) \/ ManageWrite(m)
      BY <2>5, ManageReadKeeps, ManageWriteKeeps
    <2>6. CASE \E f \in Filename : ReviewFinding(f)
      BY <2>6, ReviewKeeps
    <2>7. CASE \E w \in Worker : Claim(w) \/ ScanStep(w) \/ HandlerFails(w) \/ WorkerFails(w)
      BY <2>7, ClaimKeeps, ScanKeeps, DecideKeeps, FinalizeKeeps, EndKeeps DEF ScanStep
    <2> QED BY <2>1, <2>2, <2>3, <2>4, <2>5, <2>6, <2>7 DEF Next
  <1> QED BY <1>1, <1>2, PTL DEF Spec

\* Every row, and every handler under way, has its type.
THEOREM TypeCorrect == Spec => []TypeOK
  <1>1. IInv => TypeOK
    BY DEF IInv
  <1> QED BY <1>1, InductiveInvariant, PTL

\* The object of a listed artifact is in the store, however many uploads race for
\* its name and wherever they break off.
THEOREM ListedIsStored == Spec => []StoredBeforeListed
  <1>1. IInv => StoredBeforeListed
    BY DEF IInv
  <1> QED BY <1>1, InductiveInvariant, PTL

\* No step changes the content of a row of artifacts.
LEMMA StaysListed == TypeOK /\ [Next]_vars => \A f \in Listed : artifacts'[f] = artifacts[f]
  <1> SUFFICES ASSUME TypeOK, [Next]_vars, NEW f \in Listed
               PROVE  artifacts'[f] = artifacts[f]
    OBVIOUS
  <1>1. CASE \E u \in Uploader : UploadInsert(u)
    BY <1>1 DEF TypeOK, UploadInsert, Inserted, Listed
  <1>2. CASE UNCHANGED artifacts
    BY <1>2
  <1>3. (\E u \in Uploader : UploadInsert(u)) \/ UNCHANGED artifacts
    BY DEF Next, vars, table, CreateRelease, UploadBegin, UploadStep, UploadStore,
           UploadEnqueue, PublishCommit, PublishStep, PublishList, PublishEnqueue,
           ManageRead, ManageWrite, RequestFails, ReviewFinding, Claim, ScanStep, Scan,
           Count, Inspect, ReadFlags, Finalize, Reindex, Record, HandlerFails,
           WorkerFails, QueueStep
  <1> QED BY <1>1, <1>2, <1>3

\* The content of a listed artifact stays what it was, whatever is uploaded.
THEOREM ContentStays == Spec => ContentIsImmutable
  <1>1. TypeOK /\ [Next]_vars => [\A f \in Listed : artifacts'[f] = artifacts[f]]_vars
    BY StaysListed
  <1> QED BY <1>1, TypeCorrect, PTL DEF Spec, ContentIsImmutable

\* A readable release stays readable: late and repeated scans find it no longer in
\* scanning, and what management requests write is readable.
THEOREM ReadableStays == Spec => NeverUnpublished
  <1>1. IInv /\ [Next]_vars => [release.status \in Readable => release'.status \in Readable]_vars
    <2> SUFFICES ASSUME IInv, [Next]_vars, release.status \in Readable
                 PROVE  release'.status \in Readable
      OBVIOUS
    <2>1. CASE \E m \in Manager : ManageWrite(m)
      <3>1. PICK m \in Manager : ManageWrite(m)
        BY <2>1
      <3>2. manage[m].pc \in {"yank", "unyank", "deprecate", "undeprecate"} /\ release \in Release
        BY <3>1, Types DEF IInv, ManageWrite, Managements
      <3> QED BY <3>1, <3>2 DEF ManageWrite, Managed, Release, Readable
    <2>2. CASE UNCHANGED release
      BY <2>2
    <2>3. CASE \E w \in Worker : Finalize(w)
      BY <2>3 DEF Finalize, Readable
    <2>4. \/ \E m \in Manager : ManageWrite(m)
          \/ UNCHANGED release
          \/ \E w \in Worker : Finalize(w)
      BY DEF Next, vars, table, CreateRelease, UploadBegin, UploadStep, UploadStore,
             UploadInsert, UploadEnqueue, PublishCommit, PublishStep, PublishList,
             PublishEnqueue, ManageRead, RequestFails, ReviewFinding, Claim, ScanStep, Scan,
             Count, Inspect, ReadFlags, Reindex, Record, HandlerFails, WorkerFails,
             QueueStep, Readable
    <2> QED BY <2>1, <2>2, <2>3, <2>4
  <1> QED BY <1>1, InductiveInvariant, PTL DEF Spec, NeverUnpublished

-----------------------------------------------------------------------------
(* What holds as long as the requests of the kind that could disturb it come *)
(* one at a time, or as long as nothing fails.                               *)

\* The steps that write the release's own row.
RowSteps ==
    \/ CreateRelease
    \/ \E p \in Publisher : PublishCommit(p)
    \/ \E m \in Manager : ManageWrite(m)
    \/ \E w \in Worker : Finalize(w)

\* Only these write the row.
LEMMA RowWriters == [Next]_vars => RowSteps \/ UNCHANGED release
  BY DEF RowSteps, Next, vars, table, UploadBegin, UploadStep, UploadStore, UploadInsert,
         UploadEnqueue, PublishStep, PublishList, PublishEnqueue, ManageRead, RequestFails,
         ReviewFinding, Claim, ScanStep, Scan, Count, Inspect, ReadFlags, Reindex, Record,
         HandlerFails, WorkerFails, QueueStep

\* A management request goes by the flag it has read, and a scan that has seen a
\* flag comes too late to change the status.
FlagsFit ==
    /\ FlagsMatchStatus
    /\ \A m \in Manager :
          /\ manage[m].pc = "unyank" => release.yanked /\ manage[m].flag = release.deprecated
          /\ manage[m].pc = "undeprecate" => release.deprecated /\ manage[m].flag = release.yanked
    /\ \A w \in Worker : At(w, "finalize") /\ scan[w].verdict \in {"yanked", "deprecated"} =>
                            release.status \in Readable

\* Management requests come one at a time; the release has one file.
OneManagement == \A m, n \in Manager : manage[m].pc # "idle" /\ manage[n].pc # "idle" => m = n
OneFile == \A f, g \in Listed : f = g

\* A scan that is past its scanners has scanned a file, the only one there is.
ListedAndScanned == Listed # {} /\ Listed \subseteq scanned
OnlyFileIsScanned ==
    /\ release.status \in Readable => ListedAndScanned
    /\ \A w \in Worker : scan[w].pc \in {"count", "inspect", "flags", "finalize", "reindex", "ok"} =>
                            ListedAndScanned

\* Where a worker is in its handler is changed by its own steps only.
LEMMA ScanMoves ==
    ASSUME IInv, [Next]_vars, NEW w \in Worker
    PROVE  scan'[w] = scan[w] \/ Claim(w) \/ ScanStep(w) \/ HandlerFails(w) \/ WorkerFails(w)
  <1>1. scan \in [Worker -> Scans]
    BY Types DEF IInv
  <1>2. ASSUME NEW v \in Worker, Claim(v) \/ ScanStep(v) \/ HandlerFails(v) \/ WorkerFails(v), v # w
        PROVE  scan'[w] = scan[w]
    BY <1>1, <1>2 DEF Claim, ScanStep, Scan, FetchFails, Count, Inspect, ReadFlags, Finalize,
                      Reindex, Record, HandlerFails, WorkerFails, Goto
  <1>3. \/ UNCHANGED scan
        \/ \E v \in Worker : Claim(v) \/ ScanStep(v) \/ HandlerFails(v) \/ WorkerFails(v)
    BY DEF Next, vars, handlers, CreateRelease, UploadBegin, UploadStep, UploadStore, UploadInsert,
           UploadEnqueue, PublishCommit, PublishStep, PublishList, PublishEnqueue, ManageRead,
           ManageWrite, RequestFails, ReviewFinding, QueueStep
  <1> QED BY <1>2, <1>3

\* What a management request writes has flags and status that agree, if it goes
\* by the flag as it is.
LEMMA ManagedFits ==
    ASSUME release \in Release, FlagsMatchStatus, NEW op \in {"yank", "unyank", "deprecate", "undeprecate"},
           NEW flag \in BOOLEAN, release' = Managed(op, flag),
           op = "unyank" => release.yanked /\ flag = release.deprecated,
           op = "undeprecate" => release.deprecated /\ flag = release.yanked
    PROVE  FlagsMatchStatus'
  <1>1. CASE op = "yank"
    BY <1>1 DEF Managed, Release, FlagsMatchStatus
  <1>2. CASE op = "deprecate"
    BY <1>2 DEF Managed, Release, FlagsMatchStatus
  <1>3. CASE op = "unyank"
    BY <1>3 DEF Managed, Release, FlagsMatchStatus
  <1>4. CASE op = "undeprecate"
    BY <1>4 DEF Managed, Release, FlagsMatchStatus
  <1> QED BY <1>1, <1>2, <1>3, <1>4

\* Finalizing a release that is still in scanning: no flag is set, and none has
\* been seen.
LEMMA FinalizeFits ==
    ASSUME IInv, FlagsFit, NEW w \in Worker, Finalize(w)
    PROVE  FlagsMatchStatus' /\ (release.status \in Readable => release'.status \in Readable)
  <1>1. release \in Release /\ scan \in [Worker -> Scans]
    BY Types DEF IInv
  <1>2. CASE release.status # "scanning"
    BY <1>2 DEF Finalize, FlagsFit, FlagsMatchStatus
  <1>3. CASE release.status = "scanning"
    <2>1. ~release.yanked /\ ~release.deprecated
      BY <1>3 DEF FlagsFit, FlagsMatchStatus
    <2>2. release' = [release EXCEPT !.status = scan[w].verdict] /\ At(w, "finalize")
      BY <1>3 DEF Finalize
    <2>3. scan[w].verdict \notin {"yanked", "deprecated"}
      BY <1>3, <2>2 DEF FlagsFit, Readable
    <2> QED BY <1>1, <1>3, <2>1, <2>2, <2>3 DEF FlagsMatchStatus, Release, Readable
  <1> QED BY <1>2, <1>3

\* Flags and status agree however uploads, publications, scans and failures
\* interleave, as long as yank, unyank, deprecate and undeprecate of a release come
\* one at a time: each writes the status from the other flag as it has read it
\* (packages.rs, unyank_release and undeprecate_release).
THEOREM FlagsAndStatusAgree == Spec /\ []OneManagement => []FlagsMatchStatus
  <1>1. Init => FlagsFit
    BY DEF Init, FlagsFit, FlagsMatchStatus, NoManage, NoScan, At
  <1>2. IInv /\ IInv' /\ OneManagement /\ OneManagement' /\ FlagsFit /\ [Next]_vars => FlagsFit'
    <2> SUFFICES ASSUME IInv, IInv', OneManagement, OneManagement', FlagsFit, [Next]_vars
                 PROVE  FlagsFit'
      OBVIOUS
    <2>1. /\ release \in Release /\ scan \in [Worker -> Scans] /\ manage \in [Manager -> Managements]
          /\ release' \in Release
      BY Types DEF IInv, TypeOK
    <2>2. \A m \in Manager : manage[m].pc # "idle" => release.status \in Readable
      BY DEF IInv, ManagedIsReadable
    <2>3. FlagsMatchStatus'
      <3>1. CASE UNCHANGED release
        BY <3>1 DEF FlagsFit, FlagsMatchStatus
      <3>2. CASE CreateRelease \/ \E p \in Publisher : PublishCommit(p)
        BY <2>1, <3>2 DEF CreateRelease, PublishCommit, FlagsFit, FlagsMatchStatus, Release
      <3>3. ASSUME NEW m \in Manager, ManageWrite(m) PROVE FlagsMatchStatus'
        <4>1. manage[m].pc \in {"yank", "unyank", "deprecate", "undeprecate"} /\ manage[m].flag \in BOOLEAN
          BY <2>1, <3>3 DEF ManageWrite, Managements
        <4> QED BY <2>1, <3>3, <4>1, ManagedFits DEF ManageWrite, FlagsFit
      <3>4. ASSUME NEW w \in Worker, Finalize(w) PROVE FlagsMatchStatus'
        BY <3>4, FinalizeFits
      <3> QED BY <3>1, <3>2, <3>3, <3>4, RowWriters DEF RowSteps
    <2>4. ASSUME NEW m \in Manager
          PROVE  /\ manage'[m].pc = "unyank" => release'.yanked /\ manage'[m].flag = release'.deprecated
                 /\ manage'[m].pc = "undeprecate" => release'.deprecated /\ manage'[m].flag = release'.yanked
      <3>1. CASE \E n \in Manager : ManageRead(n)
        <4>0. PICK n \in Manager : ManageRead(n)
          BY <3>1
        <4>1. manage'[n].pc # "idle" /\ release' = release
          BY <2>1, <4>0 DEF ManageRead, table
        <4>2. \/ manage'[n] = [pc |-> "yank", flag |-> FALSE]
              \/ manage'[n] = [pc |-> "deprecate", flag |-> FALSE]
              \/ release.yanked /\ manage'[n] = [pc |-> "unyank", flag |-> release.deprecated]
              \/ release.deprecated /\ manage'[n] = [pc |-> "undeprecate", flag |-> release.yanked]
          BY <2>1, <4>0 DEF ManageRead
        <4>3. m = n \/ manage'[m].pc = "idle"
          BY <4>1 DEF OneManagement
        <4> QED BY <4>1, <4>2, <4>3
      <3>2. CASE manage'[m].pc = "idle"
        BY <3>2
      <3>3. CASE manage'[m] = manage[m] /\ ~\E n \in Manager : ManageWrite(n)
        <4>1. manage[m].pc # "idle" => /\ release'.yanked = release.yanked
                                       /\ release'.deprecated = release.deprecated
          BY <2>1, <2>2, <3>3, RowWriters DEF RowSteps, CreateRelease, PublishCommit, Finalize,
                                              Readable, Release
        <4> QED BY <3>3, <4>1 DEF FlagsFit
      <3>4. \/ \E n \in Manager : ManageRead(n)
            \/ manage'[m].pc = "idle"
            \/ manage'[m] = manage[m] /\ ~\E n \in Manager : ManageWrite(n)
        <4>1. ASSUME NEW n \in Manager, ManageWrite(n) PROVE manage'[m].pc = "idle"
          BY <2>1, <4>1 DEF ManageWrite, NoManage, OneManagement
        <4>2. CASE RequestFails
          BY <2>1, <4>1, <4>2 DEF RequestFails, NoManage
        <4>3. CASE UNCHANGED manage
          BY <4>1, <4>3
        <4>4. \/ RequestFails \/ UNCHANGED manage
              \/ \E n \in Manager : ManageRead(n) \/ ManageWrite(n)
          BY DEF Next, vars, handlers, CreateRelease, UploadBegin, UploadStep, UploadStore,
                 UploadInsert, UploadEnqueue, PublishCommit, PublishStep, PublishList,
                 PublishEnqueue, ReviewFinding, Claim, ScanStep, Scan, Count, Inspect,
                 ReadFlags, Finalize, Reindex, Record, HandlerFails, WorkerFails, QueueStep
        <4> QED BY <4>1, <4>2, <4>3, <4>4
      <3> QED BY <3>1, <3>2, <3>3, <3>4
    <2>5. release.status \in Readable => release'.status \in Readable
      <3>1. ASSUME NEW m \in Manager, ManageWrite(m) PROVE release'.status \in Readable
        <4>1. manage[m].pc \in {"yank", "unyank", "deprecate", "undeprecate"}
          BY <2>1, <3>1 DEF ManageWrite, Managements
        <4> QED BY <2>1, <3>1, <4>1 DEF ManageWrite, Managed, Release, Readable
      <3> QED BY <3>1, FinalizeFits, RowWriters DEF RowSteps, CreateRelease, PublishCommit, Readable
    <2>6. ASSUME NEW w \in Worker, scan'[w].pc = "finalize", scan'[w].verdict \in {"yanked", "deprecated"}
          PROVE  release'.status \in Readable
      <3>1. CASE scan'[w] = scan[w]
        BY <2>5, <2>6, <3>1 DEF FlagsFit, At
      <3>2. CASE ReadFlags(w)
        <4>1. release.yanked \/ release.deprecated
          BY <2>1, <2>6, <3>2 DEF ReadFlags, Scans
        <4> QED BY <2>5, <4>1 DEF IInv, ManagedIsReadable
      <3>3. scan'[w] = scan[w] \/ ReadFlags(w) \/ scan'[w].pc # "finalize"
        <4>1. CASE Claim(w) \/ Count(w) \/ Finalize(w) \/ Reindex(w) \/ HandlerFails(w)
          <5>1. PICK pc \in {"scan", "ok", "inspect", "reindex", "err"} : Goto(w, pc)
            BY <4>1 DEF Claim, Count, Finalize, Reindex, HandlerFails
          <5> QED BY <2>1, <5>1 DEF Goto, Scans
        <4>2. CASE Scan(w)
          <5>1. Goto(w, "count") \/ Goto(w, "err")
            BY <4>2 DEF Scan, FetchFails
          <5> QED BY <2>1, <5>1 DEF Goto, Scans
        <4>3. CASE Inspect(w)
          BY <2>1, <4>3 DEF Inspect
        <4>4. CASE Record(w) \/ WorkerFails(w)
          BY <2>1, <4>4 DEF Record, WorkerFails, NoScan
        <4> QED BY <4>1, <4>2, <4>3, <4>4, ScanMoves DEF ScanStep
      <3> QED BY <2>6, <3>1, <3>2, <3>3
    <2> QED BY <2>3, <2>4, <2>6 DEF FlagsFit, At
  <1>3. FlagsFit => FlagsMatchStatus
    BY DEF FlagsFit
  <1> QED BY <1>1, <1>2, <1>3, InductiveInvariant, PTL DEF Spec

\* With one file, no release becomes readable before it is scanned, however often
\* its scan is repeated, fails or is lost, by any number of workers
\* (ScanArtifactHandler::handle returns the error of the fetch before it looks at
\* the release).  A scanner's own failure is only logged, and is left out.
THEOREM OneFileIsScannedFirst ==
    ASSUME "scanner" \notin Failures
    PROVE  Spec /\ []OneFile => []ScannedBeforeReadable
  <1>1. Init => OnlyFileIsScanned
    BY DEF Init, OnlyFileIsScanned, NoScan, Readable
  <1>2. IInv /\ OneFile' /\ OnlyFileIsScanned /\ [Next]_vars => OnlyFileIsScanned'
    <2> SUFFICES ASSUME IInv, OneFile', OnlyFileIsScanned, [Next]_vars PROVE OnlyFileIsScanned'
      OBVIOUS
    <2>1. /\ release \in Release /\ scan \in [Worker -> Scans] /\ manage \in [Manager -> Managements]
          /\ objects \subseteq Filename \X Content
      BY Types DEF IInv
    <2>2. ASSUME NEW w \in Worker, Scan(w), scan'[w].pc # "err" PROVE ListedAndScanned'
      <3>1. ~Goto(w, "err")
        BY <2>1, <2>2 DEF Goto, Scans
      <3>2. PICK j \in InHand(w) :
               \/ <<file[j], artifacts[file[j]]>> \in objects /\ scanned' = scanned \cup {file[j]}
               \/ "scanner" \in Failures
               \/ FetchFails(w)
        BY <2>2 DEF Scan
      <3>3. PICK f : <<f, artifacts[f]>> \in objects /\ scanned' = scanned \cup {f}
        BY <3>1, <3>2 DEF FetchFails
      <3>4. f \in Listed /\ artifacts' = artifacts
        BY <2>1, <2>2, <3>3, PipelineAssumption DEF Scan, Listed, table
      <3> QED BY <3>3, <3>4 DEF ListedAndScanned, OneFile, Listed
    <2>3. ListedAndScanned => ListedAndScanned'
      <3>1. ASSUME NEW w \in Worker, Scan(w) PROVE scanned \subseteq scanned'
        BY <3>1 DEF Scan
      <3>2. UNCHANGED scanned \/ \E w \in Worker : Scan(w)
        BY DEF Next, vars, CreateRelease, UploadBegin, UploadStep, UploadStore, UploadInsert,
               UploadEnqueue, PublishCommit, PublishStep, PublishList, PublishEnqueue, ManageRead,
               ManageWrite, RequestFails, ReviewFinding, Claim, ScanStep, Count, Inspect, ReadFlags,
               Finalize, Reindex, Record, HandlerFails, WorkerFails, QueueStep
      <3>3. scanned \subseteq scanned'
        BY <3>1, <3>2
      <3>4. \A f \in Listed : artifacts'[f] = artifacts[f]
        BY StaysListed DEF IInv
      <3> QED BY <3>3, <3>4 DEF ListedAndScanned, OneFile, Listed
    <2>4. ASSUME release'.status \in Readable PROVE ListedAndScanned'
      <3>1. ASSUME NEW m \in Manager, ManageWrite(m) PROVE release.status \in Readable
        BY <3>1 DEF ManageWrite, IInv, ManagedIsReadable
      <3>2. ASSUME NEW w \in Worker, Finalize(w) PROVE ListedAndScanned
        BY <3>2 DEF Finalize, At, OnlyFileIsScanned
      <3>3. CASE CreateRelease \/ \E p \in Publisher : PublishCommit(p)
        BY <2>1, <2>4, <3>3 DEF CreateRelease, PublishCommit, Release, Readable
      <3> QED BY <2>3, <2>4, <3>1, <3>2, <3>3, RowWriters DEF RowSteps, OnlyFileIsScanned
    <2>5. ASSUME NEW w \in Worker, scan'[w].pc \in {"count", "inspect", "flags", "finalize", "reindex", "ok"}
          PROVE  ListedAndScanned'
      <3>1. CASE scan'[w] = scan[w]
        BY <2>3, <2>5, <3>1 DEF OnlyFileIsScanned
      <3>2. CASE Scan(w)
        BY <2>2, <2>5, <3>2
      <3>3. CASE Count(w) \/ Inspect(w) \/ ReadFlags(w) \/ Finalize(w) \/ Reindex(w)
        BY <2>3, <3>3 DEF OnlyFileIsScanned, Count, Inspect, ReadFlags, Finalize, Reindex, At
      <3>4. CASE Claim(w) \/ Record(w) \/ HandlerFails(w) \/ WorkerFails(w)
        BY <2>1, <2>5, <3>4 DEF Claim, Record, HandlerFails, WorkerFails, Goto, NoScan, Scans
      <3> QED BY <3>1, <3>2, <3>3, <3>4, ScanMoves DEF ScanStep
    <2> QED BY <2>4, <2>5 DEF OnlyFileIsScanned
  <1>3. IInv /\ OnlyFileIsScanned => ScannedBeforeReadable
    BY DEF OnlyFileIsScanned, ListedAndScanned, ScannedBeforeReadable
  <1> QED BY <1>1, <1>2, <1>3, InductiveInvariant, PTL DEF Spec

\* Of any number of scans that count, inspect and finalize at once, the one whose
\* UPDATE finds the release in scanning is the one that goes on to enqueue the
\* reindexing, and nobody else makes a release readable.  A handler that breaks off
\* between the two statements leaves the package unindexed; that is left out.
THEOREM ReadableIsIndexed ==
    ASSUME "handler" \notin Failures, "worker" \notin Failures
    PROVE  Spec => []FinalizedIsReindexed
  <1>1. Init => FinalizedIsReindexed
    BY DEF Init, FinalizedIsReindexed, Readable
  <1>2. IInv /\ FinalizedIsReindexed /\ [Next]_vars => FinalizedIsReindexed'
    <2> SUFFICES ASSUME IInv, FinalizedIsReindexed, [Next]_vars, release'.status \in Readable
                 PROVE  reindexed' \/ \E w \in Worker : scan'[w].pc = "reindex"
      BY DEF FinalizedIsReindexed, At
    <2>1. release \in Release /\ scan \in [Worker -> Scans] /\ manage \in [Manager -> Managements]
      BY Types DEF IInv
    <2>2. reindexed => reindexed'
      BY DEF Next, vars, CreateRelease, UploadBegin, UploadStep, UploadStore, UploadInsert,
             UploadEnqueue, PublishCommit, PublishStep, PublishList, PublishEnqueue, ManageRead,
             ManageWrite, RequestFails, ReviewFinding, Claim, ScanStep, Scan, Count, Inspect,
             ReadFlags, Finalize, Reindex, Record, HandlerFails, WorkerFails, QueueStep
    <2>3. ASSUME NEW w \in Worker, scan[w].pc = "reindex"
          PROVE  reindexed' \/ scan'[w].pc = "reindex"
      <3>1. CASE Reindex(w)
        BY <3>1 DEF Reindex
      <3>2. ~Claim(w) /\ ~HandlerFails(w) /\ ~WorkerFails(w) /\ (ScanStep(w) => Reindex(w))
        BY <2>3 DEF Claim, HandlerFails, WorkerFails, ScanStep, Scan, Count, Inspect, ReadFlags,
                    Finalize, Record, At
      <3> QED BY <2>3, <3>1, <3>2, ScanMoves
    <2>4. CASE release.status \in Readable
      BY <2>2, <2>3, <2>4 DEF FinalizedIsReindexed, At
    <2>5. CASE release.status \notin Readable
      <3>1. ASSUME NEW m \in Manager, ManageWrite(m) PROVE FALSE
        BY <2>5, <3>1 DEF ManageWrite, IInv, ManagedIsReadable
      <3>2. ~CreateRelease /\ ~\E p \in Publisher : PublishCommit(p)
        BY <2>1 DEF CreateRelease, PublishCommit, Release, Readable
      <3>3. PICK w \in Worker : Finalize(w) /\ release' # release
        BY <2>5, <3>1, <3>2, RowWriters DEF RowSteps
      <3>4. Goto(w, "reindex")
        BY <3>3 DEF Finalize
      <3>5. scan'[w].pc = "reindex"
        BY <2>1, <3>4 DEF Goto, Scans
      <3> QED BY <3>5
    <2> QED BY <2>4, <2>5
  <1> QED BY <1>1, <1>2, InductiveInvariant, PTL DEF Spec
=============================================================================
