------------------------------ MODULE OciProofs ------------------------------
(* What OciBlobs promises, for any blobs, manifests, requests, clean-up    *)
(* jobs, batch size and failures: its inductive invariant, and the         *)
(* theorems that rest on it.                                               *)
EXTENDS OciBlobs, FiniteSetTheorems, TLAPS

(* A manifest that names a blob twice violates the key of its references   *)
(* and is answered with an error; the safety of the others is what counts. *)
LayersOnce ==
    \A m \in Manifest : \A i, j \in DOMAIN Layers[m] : Layers[m][i] = Layers[m][j] => i = j

Index(m) == 1 .. Len(Layers[m])

(* The steps of the requests.                                              *)
UploadSteps == {"record", "schedule"}
DropSteps == {"drop object", "drop row"}
PutSteps == {"check", "release", "revive", "store", "list", "clear", "refer", "publish", "tag"}
DeleteSteps == {"untag", "unrefer", "unlist", "remove", "retire", "sweep"}

Request == [pc : {"idle"} \cup UploadSteps \cup DropSteps \cup PutSteps \cup DeleteSteps,
            blob : Blob \cup {None}, manifest : Manifest \cup {None}, at : Nat]

RequestOK(r) ==
    /\ r.blob \in Blob <=> r.pc \in UploadSteps \cup DropSteps
    /\ r.manifest \in Manifest <=> r.pc \in PutSteps \cup DeleteSteps
    /\ r.pc \in {"check", "refer"} => r.at \in Index(r.manifest)

Batch == [todo : SUBSET Blob, current : Blob \cup {None}, full : BOOLEAN]

Requests == client \in [Client -> Request] /\ \A c \in Client : RequestOK(client[c])

Sweeps ==
    /\ sweep \in [Sweeper -> Batch]
    /\ \A s \in Sweeper : sweep[s].current \in sweep[s].todo \cup {None}

(* TypeOK but for the history.                                             *)
Rows ==
    /\ stored \subseteq Blob
    /\ inventory \in [Blob -> {"absent", "fresh", "aged"}]
    /\ status \in [Manifest -> Status]
    /\ kept \subseteq Manifest /\ listed \subseteq Manifest
    /\ refs \in [Manifest -> SUBSET Blob]
    /\ \A m \in Manifest : refs[m] \subseteq BlobsOf(m)
    /\ tag \in Manifest \cup {None}
    /\ due \in BOOLEAN /\ later \subseteq Blob

Types == Rows /\ Requests /\ Sweeps

(* Whatever is used and removed at once counts as disturbed.               *)
Apart == Used \cap Removed \subseteq disturbed

(* A request is at one of `steps` with the manifest.                       *)
Working(m, steps) == \E c \in Client : client[c].manifest = m /\ client[c].pc \in steps

(* A request that will publish the manifest: no reference that is there    *)
(* already can stop it.                                                    *)
Closer(c, m) ==
    /\ client[c].manifest = m
    /\ \/ client[c].pc \in {"store", "clear", "publish"}
       \/ client[c].pc = "list" /\ m \notin listed
       \/ /\ client[c].pc = "refer"
          /\ \A l \in Index(m) : l >= client[c].at => Layers[m][l] \notin refs[m]

(* A request that will insert the reference to the k-th blob.              *)
Inserter(c, m, k) ==
    /\ client[c].manifest = m
    /\ \/ client[c].pc \in {"store", "clear"}
       \/ client[c].pc = "list" /\ m \notin listed
       \/ /\ client[c].pc = "refer" /\ client[c].at <= k
          /\ \A l \in Index(m) : l >= client[c].at /\ l <= k => Layers[m][l] \notin refs[m]

Closable(m) == status[m] = "published" \/ \E c \in Client : Closer(c, m)
Inserted(m, k) == Layers[m][k] \in refs[m] \/ \E c \in Client : Inserter(c, m, k)

(* The row, the object, the tag and the references of a manifest.          *)
ManifestOK(m) ==
    /\ m \in listed => m \in kept /\ Closable(m)
    /\ tag = m => m \in listed
    /\ status[m] = "published" =>
          /\ ~Working(m, {"remove", "retire"}) => m \in listed
          /\ ~Working(m, {"unlist", "remove", "retire"}) => \A k \in Index(m) : Inserted(m, k)
    /\ \A c \in Client : client[c].manifest = m =>
          /\ client[c].pc = "list" => m \in kept
          /\ client[c].pc \in {"clear", "refer", "publish", "tag"} => m \in listed
          /\ client[c].pc = "refer" => \A k \in Index(m) : k >= client[c].at \/ Inserted(m, k)
          /\ client[c].pc = "publish" => \A k \in Index(m) : Inserted(m, k)
          /\ client[c].pc \in DeleteSteps \ {"untag"} => tag # m
          /\ client[c].pc \in {"remove", "retire", "sweep"} => m \notin listed

(* A blob that a deletion or a clean-up has in hand, or an upload.         *)
BeingDropped(b) == \E c \in Client : client[c].pc \in DropSteps /\ client[c].blob = b
BeingSwept(b) == \E s \in Sweeper : b \in sweep[s].todo
BeingUploaded(b) == \E c \in Client : client[c].pc \in UploadSteps /\ client[c].blob = b

(* The blobs of a manifest are there as long as it is published, and from  *)
(* the check to the end of a push.                                         *)
LayersOK(m) ==
    \A k \in Index(m) : Layers[m][k] \notin disturbed =>
        /\ status[m] = "published" /\ ~Working(m, {"unlist", "remove", "retire"}) =>
              Layers[m][k] \in stored /\ ~BeingDropped(Layers[m][k]) /\ ~BeingSwept(Layers[m][k])
        /\ \A c \in Client : client[c].manifest = m =>
              /\ client[c].pc \in PutSteps \ {"check"} => Layers[m][k] \in stored
              /\ client[c].pc = "check" /\ k < client[c].at => Layers[m][k] \in stored

(* A clean-up that will find the blob if it may be removed.                *)
CleanupComes(b) ==
    \/ b \in later \/ due \/ BeingSwept(b) \/ BeingDropped(b)
    \/ \E s \in Sweeper : sweep[s].full

(* Or a deletion that will schedule one, or a manifest that refers to the  *)
(* blob and is published, or will be.                                      *)
Retired(b) == \E m \in Manifest : b \in BlobsOf(m) /\ Working(m, {"unlist", "remove", "retire", "sweep"})
Secured(b) == \E m \in Manifest : \E k \in Index(m) :
                 Layers[m][k] = b /\ Closable(m) /\ Inserted(m, k)

BlobOK(b) ==
    /\ \A c \in Client : client[c].blob = b =>
          /\ client[c].pc = "schedule" => inventory[b] = "fresh"
          /\ client[c].pc = "drop row" => b \notin stored
    /\ \A s \in Sweeper : sweep[s].current = b => b \notin stored
    /\ ~BeingUploaded(b) =>
          /\ inventory[b] = "fresh" => b \in later
          /\ b \in stored => /\ inventory[b] # "absent"
                             /\ CleanupComes(b) \/ Retired(b) \/ Secured(b)

IInv ==
    /\ Types /\ disturbed \subseteq Blob \cup Manifest
    /\ Apart
    /\ \A m \in Manifest \ disturbed : ManifestOK(m) /\ LayersOK(m)
    /\ \A b \in Blob \ disturbed : BlobOK(b)

-----------------------------------------------------------------------------
(* The blobs a manifest lists, by their places.                            *)
LEMMA Places ==
    ASSUME NEW m \in Manifest
    PROVE  /\ Len(Layers[m]) \in Nat \ {0}
           /\ Layers[m] \in Seq(Blob)
           /\ Index(m) = DOMAIN Layers[m]
           /\ 1 \in Index(m)
           /\ \A k \in Index(m) : Layers[m][k] \in Blob
           /\ \A b : b \in BlobsOf(m) <=> \E k \in Index(m) : Layers[m][k] = b
  <1>1. Layers[m] \in Seq(Blob) /\ Layers[m] # <<>>
    BY OciAssumption
  <1>2. Len(Layers[m]) \in Nat \ {0}
    BY <1>1
  <1>3. Index(m) = DOMAIN Layers[m]
    BY <1>1 DEF Index
  <1>4. \A k \in Index(m) : Layers[m][k] \in Blob
    BY <1>1 DEF Index
  <1>5. BlobsOf(m) = {Layers[m][k] : k \in DOMAIN Layers[m]}
    BY DEF BlobsOf, ToSet
  <1> QED BY <1>1, <1>2, <1>3, <1>4, <1>5 DEF Index

(* With LayersOnce, another place is another blob.                         *)
LEMMA PlacesOnce ==
    ASSUME LayersOnce, NEW m \in Manifest, NEW i \in Index(m), NEW j \in Index(m),
           Layers[m][i] = Layers[m][j]
    PROVE  i = j
  BY Places DEF LayersOnce

(* What a request is after each of the steps it can take.                  *)
Now(c, r) == /\ client'[c] = r
             /\ \A d \in Client \ {c} : client'[d] = client[d]
             /\ client' \in [Client -> Request]

At1(c, pc) == [pc |-> pc, blob |-> client[c].blob, manifest |-> client[c].manifest, at |-> 1]

(* A request that starts.                                                  *)
LEMMA BeginMoves ==
    ASSUME client \in [Client -> Request], NEW c \in Client,
           NEW pc \in UploadSteps \cup DropSteps \cup PutSteps \cup DeleteSteps,
           NEW b \in Blob \cup {None}, NEW m \in Manifest \cup {None}, Begin(c, pc, b, m)
    PROVE  Now(c, [pc |-> pc, blob |-> b, manifest |-> m, at |-> 1])
  BY DEF Begin, Now, Request

(* A request that goes on to another step.                                 *)
LEMMA GotoMoves ==
    ASSUME client \in [Client -> Request], NEW c \in Client,
           NEW pc \in UploadSteps \cup DropSteps \cup PutSteps \cup DeleteSteps, Goto(c, pc)
    PROVE  Now(c, At1(c, pc))
  <1>1. PICK r : r = [client[c] EXCEPT !.pc = pc, !.at = 1]
    OBVIOUS
  <1>2. client[c] \in Request
    OBVIOUS
  <1>3. r = [pc |-> pc, blob |-> client[c].blob, manifest |-> client[c].manifest, at |-> 1]
    BY <1>1, <1>2 DEF Request
  <1>4. client' = [client EXCEPT ![c] = r]
    BY <1>1 DEF Goto
  <1>5. r \in Request
    BY <1>2, <1>3 DEF Request
  <1> QED BY <1>3, <1>4, <1>5 DEF Now, At1

(* A request that goes on to the next blob.                                *)
LEMMA AdvanceMoves ==
    ASSUME client \in [Client -> Request], NEW c \in Client, Advance(c)
    PROVE  Now(c, [pc |-> client[c].pc, blob |-> client[c].blob,
                   manifest |-> client[c].manifest, at |-> client[c].at + 1])
  <1>1. PICK r : r = [client[c] EXCEPT !.at = @ + 1]
    OBVIOUS
  <1>2. client[c] \in Request
    OBVIOUS
  <1>3. r = [pc |-> client[c].pc, blob |-> client[c].blob,
             manifest |-> client[c].manifest, at |-> client[c].at + 1]
    BY <1>1, <1>2 DEF Request
  <1>4. client' = [client EXCEPT ![c] = r]
    BY <1>1 DEF Advance
  <1>5. r \in Request
    BY <1>2, <1>3 DEF Request
  <1> QED BY <1>3, <1>4, <1>5 DEF Now

(* A request that is done.                                                 *)
LEMMA FinishMoves ==
    ASSUME client \in [Client -> Request], NEW c \in Client, Finish(c)
    PROVE  Now(c, Quiet)
  <1>1. Quiet \in Request
    BY DEF Quiet, Request
  <1> QED BY <1>1 DEF Finish, Now

-----------------------------------------------------------------------------
(* What a request uses and removes, by its step.                           *)
LEMMA UsedAndRemoved ==
    ASSUME client \in [Client -> Request], NEW c \in Client
    PROVE  /\ client[c].pc \in UploadSteps => Uses(c) = {client[c].blob}
           /\ client[c].pc \in PutSteps =>
                Uses(c) = {client[c].manifest} \cup BlobsOf(client[c].manifest)
           /\ client[c].pc \in DeleteSteps =>
                Uses(c) = BlobsOf(client[c].manifest) /\ Removes(c) = {client[c].manifest}
           /\ client[c].pc \in DropSteps => Removes(c) = {client[c].blob}
           /\ client[c].pc \notin PutSteps \cup DeleteSteps \cup UploadSteps => Uses(c) = {}
           /\ client[c].pc \notin DropSteps \cup DeleteSteps => Removes(c) = {}
  <1>1. client[c].pc \in {"idle"} \cup UploadSteps \cup DropSteps \cup PutSteps \cup DeleteSteps
    BY DEF Request
  <1> QED BY <1>1 DEF Uses, Removes, Uploading, Dropping, Deleting, Putting, At, UploadSteps,
             DropSteps, PutSteps, DeleteSteps

(* A manifest that is not disturbed is not put and deleted at once, and a  *)
(* blob that is not disturbed is not removed while a request uses it.      *)
Separated ==
    /\ \A m \in Manifest \ disturbed : Working(m, PutSteps) => ~Working(m, DeleteSteps)
    /\ \A b \in Blob \ disturbed :
          \/ BeingUploaded(b)
          \/ \E m \in Manifest : b \in BlobsOf(m) /\ Working(m, PutSteps \cup DeleteSteps)
          => ~BeingDropped(b) /\ ~BeingSwept(b)

(* Apart, in terms of the requests: outside the history nothing is put and *)
(* deleted at once, and no blob is removed that anybody uses.              *)
LEMMA Separate == Types /\ Apart => Separated
  <1> SUFFICES ASSUME Types, Apart PROVE Separated
    OBVIOUS
  <1>1. client \in [Client -> Request]
    BY DEF Types, Requests
  <1>2. \A c \in Client : client[c].pc \in PutSteps => client[c].manifest \in Used
    BY <1>1, UsedAndRemoved DEF Used
  <1>3. \A c \in Client : client[c].pc \in PutSteps \cup DeleteSteps => BlobsOf(client[c].manifest) \subseteq Used
    BY <1>1, UsedAndRemoved DEF Used
  <1>4. \A c \in Client : client[c].pc \in UploadSteps => client[c].blob \in Used
    BY <1>1, UsedAndRemoved DEF Used
  <1>5. \A c \in Client : client[c].pc \in DeleteSteps => client[c].manifest \in Removed
    BY <1>1, UsedAndRemoved DEF Removed
  <1>6. \A c \in Client : client[c].pc \in DropSteps => client[c].blob \in Removed
    BY <1>1, UsedAndRemoved DEF Removed
  <1>7. ASSUME NEW s \in Sweeper, NEW b \in sweep[s].todo PROVE b \in Removed
    <2>1. b \in UNION {sweep[t].todo : t \in Sweeper}
      BY <1>7
    <2> QED BY <2>1 DEF Removed
  <1>8. \A x \in Used \cap Removed : x \in disturbed
    BY DEF Apart
  <1>9. ASSUME NEW m \in Manifest \ disturbed, Working(m, PutSteps) PROVE ~Working(m, DeleteSteps)
    BY <1>2, <1>5, <1>8, <1>9 DEF Working
  <1>10. ASSUME NEW b \in Blob \ disturbed, b \in Used PROVE ~BeingDropped(b) /\ ~BeingSwept(b)
    BY <1>6, <1>7, <1>8, <1>10 DEF BeingDropped, BeingSwept
  <1>11. ASSUME NEW b \in Blob, BeingUploaded(b) PROVE b \in Used
    BY <1>4, <1>11 DEF BeingUploaded
  <1>12. ASSUME NEW b \in Blob, NEW m \in Manifest, b \in BlobsOf(m), Working(m, PutSteps \cup DeleteSteps)
         PROVE  b \in Used
    BY <1>3, <1>12 DEF Working
  <1> QED BY <1>9, <1>10, <1>11, <1>12 DEF Separated

(* The same of the next state.                                             *)
LEMMA SeparateNext == Types' /\ Apart' => Separated'
  BY Separate, PTL

(* A step that keeps the history keeps what is used and removed at once in *)
(* it, and so does a request that breaks off.                              *)
LEMMA OverlapApart == Overlap => Apart' /\ disturbed \subseteq disturbed'
  BY DEF Overlap, Apart

(* What a request that breaks off has used or was removing counts as       *)
(* disturbed, and so nothing else is used and removed at once.             *)
LEMMA BrokenOffApart ==
    ASSUME Types, Apart, NEW c \in Client, Finish(c), BrokenOff(c), UNCHANGED sweep
    PROVE  /\ Apart'
           /\ disturbed \subseteq disturbed' /\ Uses(c) \subseteq disturbed'
           /\ Removes(c) \subseteq disturbed'
  <1>1. client \in [Client -> Request]
    BY DEF Types, Requests
  <1>2. Now(c, Quiet)
    BY <1>1, FinishMoves
  <1>3. \A d \in Client \ {c} : Uses(d)' = Uses(d) /\ Removes(d)' = Removes(d)
    BY <1>2 DEF Now, Uses, Removes, Uploading, Putting, Deleting, Dropping, At
  <1>4. Uses(c)' = {} /\ Removes(c)' = {}
    BY <1>2 DEF Now, Uses, Removes, Uploading, Putting, Deleting, Dropping, At, Quiet
  <1>5. Used' \subseteq Used
    BY <1>3, <1>4 DEF Used
  <1>6. Removed' \subseteq Removed
    BY <1>3, <1>4 DEF Removed
  <1>7. disturbed \subseteq disturbed'
    BY DEF BrokenOff
  <1>8. Apart'
    BY <1>5, <1>6, <1>7 DEF Apart
  <1> QED BY <1>7, <1>8 DEF BrokenOff

-----------------------------------------------------------------------------
(* Types.                                                                  *)

(* Whatever one request does, the others stay as they are.                 *)
LEMMA RequestTypes ==
    ASSUME Types, NEW c \in Client, NEW r, Now(c, r), RequestOK(r)
    PROVE  Requests'
  BY DEF Types, Requests, Now

(* An upload, finished or cut short, keeps the types.                      *)
LEMMA UploadTypes ==
    ASSUME Types, NEW c \in Client, Upload(c) \/ UploadUndone(c)
    PROVE  Types'
  <1>0. client \in [Client -> Request] /\ None \notin Blob \cup Manifest
    BY OciAssumption DEF Types, Requests
  <1>1. ASSUME UploadObject(c) PROVE Types'
    <2>1. PICK b \in Blob : Begin(c, "record", b, None) /\ stored' = stored \cup {b}
      BY <1>1 DEF UploadObject
    <2> DEFINE r == [pc |-> "record", blob |-> b, manifest |-> None, at |-> 1]
    <2>2. Now(c, r)
      BY <1>0, <2>1, BeginMoves DEF UploadSteps
    <2>3. RequestOK(r)
      BY <1>0 DEF RequestOK, UploadSteps, DropSteps, PutSteps, DeleteSteps
    <2>4. Requests'
      BY <2>2, <2>3, RequestTypes
    <2> QED BY <1>1, <2>1, <2>4 DEF UploadObject, Types, Rows, Sweeps, manifests, jobs
  <1>2. ASSUME UploadRecord(c) PROVE Types'
    <2>1. Now(c, At1(c, "schedule"))
      BY <1>0, <1>2, GotoMoves DEF UploadRecord, UploadSteps
    <2>2. client[c].pc = "record" /\ RequestOK(client[c])
      BY <1>2 DEF UploadRecord, At, Types, Requests
    <2>3. RequestOK(At1(c, "schedule")) /\ client[c].blob \in Blob
      BY <2>2 DEF RequestOK, At1, UploadSteps, DropSteps, PutSteps, DeleteSteps
    <2>4. Requests'
      BY <2>1, <2>3, RequestTypes
    <2> QED BY <1>2, <2>3, <2>4 DEF UploadRecord, Recorded, Types, Rows, Sweeps, manifests, jobs
  <1>3. RequestOK(Quiet)
    BY <1>0 DEF RequestOK, Quiet, UploadSteps, DropSteps, PutSteps, DeleteSteps
  <1>4. ASSUME Finish(c) PROVE Requests'
    <2>1. Now(c, Quiet)
      BY <1>0, <1>4, FinishMoves
    <2> QED BY <2>1, <1>3, RequestTypes
  <1>5. ASSUME UploadUndone(c) PROVE Types'
    BY <1>4, <1>5 DEF UploadUndone, Types, Rows, Sweeps, manifests, jobs
  <1>6. ASSUME UploadSchedule(c) PROVE Types'
    <2>1. client[c].pc = "schedule" /\ RequestOK(client[c])
      BY <1>6 DEF UploadSchedule, At, Types, Requests
    <2>2. client[c].blob \in Blob
      BY <2>1 DEF RequestOK, UploadSteps
    <2> QED BY <1>4, <1>6, <2>2 DEF UploadSchedule, Types, Rows, Sweeps, manifests, blobs
  <1> QED BY <1>1, <1>2, <1>5, <1>6 DEF Upload

(* So does the deletion of a blob, and a request that fails.               *)
LEMMA DropTypes ==
    ASSUME Types, NEW c \in Client, DropBlob(c) \/ RequestFails(c)
    PROVE  Types'
  <1>0. client \in [Client -> Request] /\ None \notin Blob \cup Manifest
    BY OciAssumption DEF Types, Requests
  <1>1. ASSUME DropBegin(c) PROVE Types'
    <2>1. PICK b \in stored : Begin(c, "drop object", b, None)
      BY <1>1 DEF DropBegin
    <2>2. b \in Blob
      BY DEF Types, Rows
    <2> DEFINE r == [pc |-> "drop object", blob |-> b, manifest |-> None, at |-> 1]
    <2>3. Now(c, r)
      BY <1>0, <2>1, <2>2, BeginMoves DEF DropSteps
    <2>4. RequestOK(r)
      BY <1>0, <2>2 DEF RequestOK, UploadSteps, DropSteps, PutSteps, DeleteSteps
    <2>5. Requests'
      BY <2>3, <2>4, RequestTypes
    <2> QED BY <1>1, <2>5 DEF DropBegin, Types, Rows, Sweeps, blobs, manifests, jobs
  <1>2. ASSUME DropObject(c) PROVE Types'
    <2>1. Now(c, At1(c, "drop row"))
      BY <1>0, <1>2, GotoMoves DEF DropObject, DropSteps
    <2>2. client[c].pc = "drop object" /\ RequestOK(client[c])
      BY <1>2 DEF DropObject, At, Types, Requests
    <2>3. RequestOK(At1(c, "drop row"))
      BY <2>2 DEF RequestOK, At1, UploadSteps, DropSteps, PutSteps, DeleteSteps
    <2>4. Requests'
      BY <2>1, <2>3, RequestTypes
    <2> QED BY <1>2, <2>4 DEF DropObject, Types, Rows, Sweeps, manifests, jobs
  <1>3. RequestOK(Quiet)
    BY <1>0 DEF RequestOK, Quiet, UploadSteps, DropSteps, PutSteps, DeleteSteps
  <1>4. ASSUME Finish(c) PROVE Requests'
    <2>1. Now(c, Quiet)
      BY <1>0, <1>4, FinishMoves
    <2> QED BY <2>1, <1>3, RequestTypes
  <1>5. ASSUME DropRow(c) PROVE Types'
    <2>1. client[c].pc = "drop row" /\ RequestOK(client[c])
      BY <1>5 DEF DropRow, At, Types, Requests
    <2>2. client[c].blob \in Blob
      BY <2>1 DEF RequestOK, DropSteps
    <2> QED BY <1>4, <1>5, <2>2 DEF DropRow, Types, Rows, Sweeps, manifests, jobs
  <1>6. ASSUME RequestFails(c) PROVE Types'
    BY <1>4, <1>6 DEF RequestFails, Types, Rows, Sweeps, blobs, manifests, jobs
  <1> QED BY <1>1, <1>2, <1>5, <1>6 DEF DropBlob

(* What a step of a push or a deletion does to the types is what it does   *)
(* to the rows and to the one request.                                     *)
LEMMA PutTypes ==
    ASSUME Types, NEW c \in Client, PutManifest(c)
    PROVE  Types'
  <1> DEFINE m == client[c].manifest
  <1>0. /\ client \in [Client -> Request] /\ None \notin Blob \cup Manifest
        /\ RequestOK(client[c]) /\ client[c] \in Request
    BY OciAssumption DEF Types, Requests
  <1>1. ASSUME client[c].pc \in PutSteps PROVE m \in Manifest /\ client[c].blob \notin Blob
    BY <1>0, <1>1 DEF RequestOK, PutSteps, UploadSteps, DropSteps
  <1>2. ASSUME client[c].pc \in PutSteps, NEW pc \in PutSteps, Goto(c, pc) PROVE Requests'
    <2>1. Now(c, At1(c, pc))
      BY <1>0, <1>2, GotoMoves
    <2>2. 1 \in Index(m)
      BY <1>1, <1>2, Places
    <2>3. RequestOK(At1(c, pc))
      BY <1>1, <1>2, <2>2 DEF RequestOK, At1, UploadSteps, DropSteps, PutSteps, DeleteSteps
    <2> QED BY <2>1, <2>3, RequestTypes
  <1>3. ASSUME client[c].pc \in {"check", "refer"}, Advance(c), ~AtLast(c) PROVE Requests'
    <2>1. Now(c, [pc |-> client[c].pc, blob |-> client[c].blob,
                  manifest |-> client[c].manifest, at |-> client[c].at + 1])
      BY <1>0, <1>3, AdvanceMoves
    <2>2. client[c].at \in Index(m) /\ m \in Manifest /\ client[c].blob \notin Blob
      BY <1>0, <1>1, <1>3 DEF RequestOK, PutSteps
    <2>3. client[c].at + 1 \in Index(m)
      BY <1>3, <2>2, Places DEF AtLast, Index
    <2>4. RequestOK([pc |-> client[c].pc, blob |-> client[c].blob,
                     manifest |-> client[c].manifest, at |-> client[c].at + 1])
      BY <1>3, <2>2, <2>3 DEF RequestOK, UploadSteps, DropSteps, PutSteps, DeleteSteps
    <2> QED BY <2>1, <2>4, RequestTypes
  <1>4. ASSUME Finish(c) PROVE Requests'
    <2>1. Now(c, Quiet)
      BY <1>0, <1>4, FinishMoves
    <2>2. RequestOK(Quiet)
      BY <1>0 DEF RequestOK, Quiet, UploadSteps, DropSteps, PutSteps, DeleteSteps
    <2> QED BY <2>1, <2>2, RequestTypes
  <1>5. ASSUME PutBegin(c) PROVE Types'
    <2>1. PICK n \in Manifest : Begin(c, "check", None, n)
      BY <1>5 DEF PutBegin
    <2> DEFINE r == [pc |-> "check", blob |-> None, manifest |-> n, at |-> 1]
    <2>2. Now(c, r)
      BY <1>0, <2>1, BeginMoves DEF PutSteps
    <2>3. RequestOK(r)
      BY <1>0, <2>1, Places DEF RequestOK, UploadSteps, DropSteps, PutSteps, DeleteSteps
    <2>4. Requests'
      BY <2>2, <2>3, RequestTypes
    <2> QED BY <1>5, <2>4 DEF PutBegin, Types, Rows, Sweeps, blobs, manifests, jobs
  <1>6. ASSUME PutCheck(c) PROVE Types'
    <2>1. client[c].pc = "check"
      BY <1>6 DEF PutCheck, Put, At
    <2>2. Requests'
      BY <1>2, <1>3, <1>4, <1>6, <2>1 DEF PutCheck, PutSteps
    <2> QED BY <1>6, <2>2 DEF PutCheck, Types, Rows, Sweeps, blobs, manifests, jobs
  <1>7. ASSUME PutRelease(c) PROVE Types'
    <2>1. client[c].pc = "release"
      BY <1>7 DEF PutRelease, Put, At
    <2>2. Requests'
      BY <1>2, <1>7, <2>1 DEF PutRelease, PutSteps
    <2>3. status' \in [Manifest -> Status]
      BY <1>7 DEF PutRelease, Types, Rows, Status
    <2> QED BY <1>7, <2>2, <2>3 DEF PutRelease, Types, Rows, Sweeps, blobs, jobs
  <1>8. ASSUME PutRevive(c) PROVE Types'
    <2>1. client[c].pc = "revive"
      BY <1>8 DEF PutRevive, Put, At
    <2>2. Requests'
      BY <1>2, <1>8, <2>1 DEF PutRevive, PutSteps
    <2>3. status' \in [Manifest -> Status]
      BY <1>8 DEF PutRevive, Types, Rows, Status
    <2> QED BY <1>8, <2>2, <2>3 DEF PutRevive, Types, Rows, Sweeps, blobs, jobs
  <1>9. ASSUME PutStore(c) PROVE Types'
    <2>1. client[c].pc = "store"
      BY <1>9 DEF PutStore, Put, At
    <2>2. Requests'
      BY <1>2, <1>9, <2>1 DEF PutStore, PutSteps
    <2> QED BY <1>9, <2>2 DEF PutStore, Types, Rows, Sweeps, blobs, jobs
  <1>10. ASSUME PutList(c) PROVE Types'
    <2>1. client[c].pc = "list"
      BY <1>10 DEF PutList, Put, At
    <2>2. Requests'
      BY <1>2, <1>4, <1>10, <2>1 DEF PutList, PutSteps
    <2> QED BY <1>10, <2>2 DEF PutList, Types, Rows, Sweeps, blobs, jobs
  <1>11. ASSUME PutClear(c) PROVE Types'
    <2>1. client[c].pc = "clear"
      BY <1>11 DEF PutClear, Put, At
    <2>2. Requests'
      BY <1>2, <1>11, <2>1 DEF PutClear, PutSteps
    <2>3. refs' \in [Manifest -> SUBSET Blob] /\ \A n \in Manifest : refs'[n] \subseteq BlobsOf(n)
      BY <1>11 DEF PutClear, Types, Rows
    <2> QED BY <1>11, <2>2, <2>3 DEF PutClear, Types, Rows, Sweeps, blobs, jobs
  <1>12. ASSUME PutRefer(c) PROVE Types'
    <2>1. client[c].pc = "refer"
      BY <1>12 DEF PutRefer, Put, At
    <2>2. Requests'
      BY <1>2, <1>3, <1>4, <1>12, <2>1 DEF PutRefer, PutSteps
    <2>3. m \in Manifest /\ client[c].at \in Index(m)
      BY <1>0, <1>1, <2>1 DEF RequestOK, PutSteps
    <2>4. Layers[m][client[c].at] \in Blob \cap BlobsOf(m)
      BY <2>3, Places
    <2>5. refs' \in [Manifest -> SUBSET Blob] /\ \A n \in Manifest : refs'[n] \subseteq BlobsOf(n)
      BY <1>12, <2>3, <2>4 DEF PutRefer, Put, Types, Rows
    <2> QED BY <1>12, <2>2, <2>5 DEF PutRefer, Types, Rows, Sweeps, blobs, jobs
  <1>13. ASSUME PutPublish(c) PROVE Types'
    <2>1. client[c].pc = "publish"
      BY <1>13 DEF PutPublish, Put, At
    <2>2. Requests'
      BY <1>2, <1>13, <2>1 DEF PutPublish, PutSteps
    <2>3. status' \in [Manifest -> Status]
      BY <1>13 DEF PutPublish, Types, Rows, Status
    <2> QED BY <1>13, <2>2, <2>3 DEF PutPublish, Types, Rows, Sweeps, blobs, jobs
  <1>14. ASSUME PutTag(c) PROVE Types'
    <2>1. Requests'
      BY <1>4, <1>14 DEF PutTag
    <2> QED BY <1>14, <2>1 DEF PutTag, Types, Rows, Sweeps, blobs, jobs
  <1> QED BY <1>5, <1>6, <1>7, <1>8, <1>9, <1>10, <1>11, <1>12, <1>13, <1>14 DEF PutManifest

(* So does the deletion of a manifest or a tag.                            *)
LEMMA DeleteTypes ==
    ASSUME Types, NEW c \in Client, DeleteManifest(c)
    PROVE  Types'
  <1> DEFINE m == client[c].manifest
  <1>0. /\ client \in [Client -> Request] /\ None \notin Blob \cup Manifest
        /\ RequestOK(client[c]) /\ client[c] \in Request
    BY OciAssumption DEF Types, Requests
  <1>1. ASSUME client[c].pc \in DeleteSteps PROVE m \in Manifest /\ client[c].blob \notin Blob
    BY <1>0, <1>1 DEF RequestOK, DeleteSteps, UploadSteps, DropSteps
  <1>2. ASSUME client[c].pc \in DeleteSteps, NEW pc \in DeleteSteps, Goto(c, pc) PROVE Requests'
    <2>1. Now(c, At1(c, pc))
      BY <1>0, <1>2, GotoMoves
    <2>2. RequestOK(At1(c, pc))
      BY <1>1, <1>2 DEF RequestOK, At1, UploadSteps, DropSteps, PutSteps, DeleteSteps
    <2> QED BY <2>1, <2>2, RequestTypes
  <1>3. ASSUME DeleteTag(c) PROVE Types'
    BY <1>3 DEF DeleteTag, Types, Rows, Requests, Sweeps, blobs, jobs
  <1>4. ASSUME DeleteBegin(c) PROVE Types'
    <2>1. PICK n \in Manifest : Begin(c, "untag", None, n)
      BY <1>4 DEF DeleteBegin
    <2> DEFINE r == [pc |-> "untag", blob |-> None, manifest |-> n, at |-> 1]
    <2>2. Now(c, r)
      BY <1>0, <2>1, BeginMoves DEF DeleteSteps
    <2>3. RequestOK(r)
      BY <1>0, <2>1 DEF RequestOK, UploadSteps, DropSteps, PutSteps, DeleteSteps
    <2>4. Requests'
      BY <2>2, <2>3, RequestTypes
    <2> QED BY <1>4, <2>4 DEF DeleteBegin, Types, Rows, Sweeps, blobs, manifests, jobs
  <1>5. ASSUME DeleteUntag(c) PROVE Types'
    <2>1. Requests'
      BY <1>2, <1>5 DEF DeleteUntag, At, DeleteSteps
    <2> QED BY <1>5, <2>1 DEF DeleteUntag, Types, Rows, Sweeps, blobs, jobs
  <1>6. ASSUME DeleteReferences(c) PROVE Types'
    <2>1. Requests'
      BY <1>2, <1>6 DEF DeleteReferences, At, DeleteSteps
    <2>2. refs' \in [Manifest -> SUBSET Blob] /\ \A n \in Manifest : refs'[n] \subseteq BlobsOf(n)
      BY <1>6 DEF DeleteReferences, Types, Rows
    <2> QED BY <1>6, <2>1, <2>2 DEF DeleteReferences, Types, Rows, Sweeps, blobs, jobs
  <1>7. ASSUME DeleteRow(c) PROVE Types'
    <2>1. Requests'
      BY <1>2, <1>7 DEF DeleteRow, At, DeleteSteps
    <2> QED BY <1>7, <2>1 DEF DeleteRow, Types, Rows, Sweeps, blobs, jobs
  <1>8. ASSUME DeleteObject(c) PROVE Types'
    <2>1. Requests'
      BY <1>2, <1>8 DEF DeleteObject, At, DeleteSteps
    <2> QED BY <1>8, <2>1 DEF DeleteObject, Types, Rows, Sweeps, blobs, jobs
  <1>9. ASSUME DeleteRelease(c) PROVE Types'
    <2>1. Requests'
      BY <1>2, <1>9 DEF DeleteRelease, At, DeleteSteps
    <2>2. status' \in [Manifest -> Status]
      BY <1>9 DEF DeleteRelease, Types, Rows, Status
    <2> QED BY <1>9, <2>1, <2>2 DEF DeleteRelease, Types, Rows, Sweeps, blobs, jobs
  <1>10. ASSUME DeleteSchedule(c) PROVE Types'
    <2>1. Now(c, Quiet)
      BY <1>0, <1>10, FinishMoves DEF DeleteSchedule
    <2>2. RequestOK(Quiet)
      BY <1>0 DEF RequestOK, Quiet, UploadSteps, DropSteps, PutSteps, DeleteSteps
    <2>3. Requests'
      BY <2>1, <2>2, RequestTypes
    <2> QED BY <1>10, <2>3 DEF DeleteSchedule, Types, Rows, Sweeps, blobs, manifests
  <1> QED BY <1>3, <1>4, <1>5, <1>6, <1>7, <1>8, <1>9, <1>10 DEF DeleteManifest

(* The clean-up: of the batch it only takes away what it has removed.      *)
LEMMA SweepTypes ==
    ASSUME Types, NEW s \in Sweeper, Sweep(s)
    PROVE  Types'
  <1>0. sweep \in [Sweeper -> Batch] /\ sweep[s] \in Batch /\ None \notin Blob
        /\ sweep[s].current \in sweep[s].todo \cup {None}
    BY OciAssumption DEF Types, Sweeps
  <1>1. ASSUME NEW r \in Batch, r.current \in r.todo \cup {None}, sweep' = [sweep EXCEPT ![s] = r]
        PROVE  Sweeps'
    BY <1>1 DEF Types, Sweeps
  <1>2. Resting \in Batch /\ Resting.current = None
    BY DEF Resting, Batch
  <1>3. ASSUME SweepSelect(s) PROVE Types'
    <2>1. PICK S \in SUBSET Candidates :
             sweep' = [sweep EXCEPT ![s].todo = S, ![s].full = (Cardinality(S) = BatchSize)]
      BY <1>3 DEF SweepSelect
    <2>2. PICK r : r = [sweep[s] EXCEPT !.todo = S, !.full = (Cardinality(S) = BatchSize)]
      OBVIOUS
    <2>3. r = [todo |-> S, current |-> sweep[s].current, full |-> (Cardinality(S) = BatchSize)]
      BY <1>0, <2>2 DEF Batch
    <2>4. sweep[s].current = None
      BY <1>2, <1>3 DEF SweepSelect
    <2>5. S \subseteq Blob
      BY DEF Candidates
    <2>6. r \in Batch /\ r.current = None
      BY <2>3, <2>4, <2>5 DEF Batch
    <2>7. sweep' = [sweep EXCEPT ![s] = r]
      BY <2>1, <2>2
    <2>8. Sweeps'
      BY <1>1, <2>6, <2>7
    <2>9. due' \in BOOLEAN
      BY <1>3 DEF SweepSelect
    <2> QED BY <1>3, <2>8, <2>9 DEF SweepSelect, Types, Rows, Requests, blobs, manifests
  <1>4. ASSUME SweepObject(s) PROVE Types'
    <2>1. PICK b \in sweep[s].todo : stored' = stored \ {b} /\ sweep' = [sweep EXCEPT ![s].current = b]
      BY <1>4 DEF SweepObject
    <2>2. PICK r : r = [sweep[s] EXCEPT !.current = b]
      OBVIOUS
    <2>3. r = [todo |-> sweep[s].todo, current |-> b, full |-> sweep[s].full]
      BY <1>0, <2>2 DEF Batch
    <2>4. b \in Blob
      BY <1>0, <2>1 DEF Batch
    <2>5. r \in Batch /\ r.current \in r.todo
      BY <1>0, <2>1, <2>3, <2>4 DEF Batch
    <2>6. sweep' = [sweep EXCEPT ![s] = r]
      BY <2>1, <2>2
    <2>7. Sweeps'
      BY <1>1, <2>5, <2>6
    <2> QED BY <1>4, <2>1, <2>7 DEF SweepObject, Types, Rows, Requests, manifests, jobs
  <1>5. ASSUME SweepRow(s) PROVE Types'
    <2>1. sweep[s].current \in sweep[s].todo /\ sweep[s].current \in Blob
      BY <1>0, <1>5 DEF SweepRow, Batch
    <2>2. inventory' \in [Blob -> {"absent", "fresh", "aged"}]
      BY <1>5 DEF SweepRow, Types, Rows
    <2>3. CASE sweep[s].todo = {sweep[s].current}
      <3>1. Sweeps'
        BY <1>1, <1>2, <1>5, <2>3 DEF SweepRow
      <3>2. due' \in BOOLEAN
        <4>1. due' = (due \/ More(s))
          BY <1>5, <2>3 DEF SweepRow
        <4> QED BY <4>1
      <3> QED BY <1>5, <2>2, <3>1, <3>2 DEF SweepRow, Types, Rows, Requests, manifests
    <2>4. CASE sweep[s].todo # {sweep[s].current}
      <3>1. PICK r : r = [sweep[s] EXCEPT !.todo = sweep[s].todo \ {sweep[s].current}, !.current = None]
        OBVIOUS
      <3>2. r = [todo |-> sweep[s].todo \ {sweep[s].current}, current |-> None, full |-> sweep[s].full]
        BY <1>0, <3>1 DEF Batch
      <3>3. r \in Batch /\ r.current = None
        BY <1>0, <3>2 DEF Batch
      <3>4. sweep' = [sweep EXCEPT ![s] = r]
        BY <1>5, <2>4, <3>1 DEF SweepRow
      <3>5. Sweeps'
        BY <1>1, <3>3, <3>4
      <3> QED BY <1>5, <2>2, <2>4, <3>5 DEF SweepRow, Types, Rows, Requests, manifests
    <2> QED BY <2>3, <2>4
  <1>6. ASSUME SweepFails(s) PROVE Types'
    <2>1. Sweeps'
      BY <1>1, <1>2, <1>6 DEF SweepFails
    <2> QED BY <1>6, <2>1 DEF SweepFails, Types, Rows, Requests, blobs, manifests
  <1> QED BY <1>3, <1>4, <1>5, <1>6 DEF Sweep

(* So does time.                                                           *)
LEMMA TimeTypes ==
    ASSUME Types, NEW b \in Blob, Age(b) \/ CleanupDue(b)
    PROVE  Types'
  BY DEF Age, CleanupDue, Types, Rows, Requests, Sweeps, blobs, manifests, jobs

(* The registry starts with its types.                                     *)
LEMMA TypesInit == Init => Types
  <1> SUFFICES ASSUME Init PROVE Types
    OBVIOUS
  <1>0. None \notin Blob \cup Manifest
    BY OciAssumption
  <1>1. Rows
    BY DEF Init, Rows, Status
  <1>2. Quiet \in Request /\ RequestOK(Quiet)
    BY <1>0 DEF Quiet, Request, RequestOK, UploadSteps, DropSteps, PutSteps, DeleteSteps
  <1>3. Requests
    BY <1>2 DEF Init, Requests
  <1>4. Resting \in Batch /\ Resting.current = None
    BY DEF Resting, Batch
  <1>5. Sweeps
    BY <1>4 DEF Init, Sweeps
  <1> QED BY <1>1, <1>3, <1>5 DEF Types

(* Every step keeps them.                                                  *)
LEMMA TypesNext == Types /\ [Next]_vars => Types'
  <1> SUFFICES ASSUME Types, [Next]_vars PROVE Types'
    OBVIOUS
  <1>1. CASE UNCHANGED vars
    BY <1>1 DEF vars, blobs, manifests, jobs, Types, Rows, Requests, Sweeps
  <1>2. ASSUME NEW c \in Client, Upload(c) \/ UploadUndone(c) PROVE Types'
    BY <1>2, UploadTypes
  <1>3. ASSUME NEW c \in Client, PutManifest(c) PROVE Types'
    BY <1>3, PutTypes
  <1>4. ASSUME NEW c \in Client, DeleteManifest(c) PROVE Types'
    BY <1>4, DeleteTypes
  <1>5. ASSUME NEW c \in Client, DropBlob(c) \/ RequestFails(c) PROVE Types'
    BY <1>5, DropTypes
  <1>6. ASSUME NEW b \in Blob, Age(b) \/ CleanupDue(b) PROVE Types'
    BY <1>6, TimeTypes
  <1>7. ASSUME NEW s \in Sweeper, Sweep(s) PROVE Types'
    BY <1>7, SweepTypes
  <1> QED BY <1>1, <1>2, <1>3, <1>4, <1>5, <1>6, <1>7 DEF Next

(* Requests use blobs and manifests.                                       *)
UsedOK == Used \subseteq Blob \cup Manifest

(* What the requests use are blobs and manifests.                          *)
LEMMA UsedTypes == Types => UsedOK
  <1> SUFFICES ASSUME Types, NEW c \in Client PROVE Uses(c) \subseteq Blob \cup Manifest
    BY DEF UsedOK, Used
  <1>1. client \in [Client -> Request] /\ RequestOK(client[c])
    BY DEF Types, Requests
  <1>2. CASE client[c].pc \in UploadSteps
    BY <1>1, <1>2, UsedAndRemoved DEF RequestOK
  <1>3. CASE client[c].pc \in PutSteps \cup DeleteSteps
    <2>1. client[c].manifest \in Manifest
      BY <1>1, <1>3 DEF RequestOK
    <2>2. BlobsOf(client[c].manifest) \subseteq Blob
      BY <2>1, Places
    <2> QED BY <1>1, <1>3, <2>1, <2>2, UsedAndRemoved
  <1> QED BY <1>1, <1>2, <1>3, UsedAndRemoved

(* The same of the next state.                                             *)
LEMMA UsedTypesNext == Types' => UsedOK'
  BY UsedTypes, PTL

(* What every step does to the history: it keeps it, and what one request  *)
(* is removing while another one uses it is in it.                         *)
LEMMA HistoryNext ==
    ASSUME Types, Apart, disturbed \subseteq Blob \cup Manifest, [Next]_vars
    PROVE  /\ Apart' /\ Separated' /\ disturbed \subseteq disturbed'
           /\ disturbed' \subseteq Blob \cup Manifest
           /\ \A c \in Client : UploadUndone(c) \/ RequestFails(c) =>
                 Uses(c) \cup Removes(c) \subseteq disturbed'
  <1>1. Types'
    BY TypesNext
  <1>2. ASSUME NEW c \in Client, UploadUndone(c) \/ RequestFails(c)
        PROVE  /\ Apart' /\ disturbed \subseteq disturbed'
               /\ Uses(c) \cup Removes(c) \subseteq disturbed'
               /\ disturbed' \subseteq Blob \cup Manifest
    <2>1. Finish(c) /\ BrokenOff(c) /\ UNCHANGED sweep
      BY <1>2 DEF UploadUndone, RequestFails
    <2>2. Uses(c) \subseteq Blob \cup Manifest
      BY UsedTypes DEF UsedOK, Used
    <2>3. client \in [Client -> Request] /\ RequestOK(client[c])
      BY DEF Types, Requests
    <2>4. Removes(c) \subseteq Blob \cup Manifest
      BY <2>3, UsedAndRemoved DEF RequestOK
    <2>5. disturbed' = disturbed \cup Uses(c) \cup Removes(c)
      BY <2>1 DEF BrokenOff
    <2> QED BY <2>1, <2>2, <2>4, <2>5, BrokenOffApart
  <1>3. ASSUME Overlap PROVE Apart' /\ disturbed \subseteq disturbed' /\ disturbed' \subseteq Blob \cup Manifest
    BY <1>1, <1>3, OverlapApart, UsedTypesNext DEF Overlap, UsedOK
  <1>4. Apart' /\ disturbed \subseteq disturbed' /\ disturbed' \subseteq Blob \cup Manifest
    <2>1. CASE UNCHANGED vars
      <3>1. UNCHANGED <<Used, Removed, disturbed>>
        BY <2>1 DEF vars, Used, Removed, Uses, Removes, Uploading, Putting, Deleting, Dropping, At
      <3> QED BY <3>1 DEF Apart
    <2>2. ASSUME NEW c \in Client, Upload(c) PROVE Overlap
      BY <2>2 DEF Upload, UploadObject, UploadRecord, UploadSchedule
    <2>3. ASSUME NEW c \in Client, PutManifest(c) PROVE Overlap
      BY <2>3 DEF PutManifest, PutBegin, PutCheck, PutRelease, PutRevive, PutStore, PutList,
                  PutClear, PutRefer, PutPublish, PutTag
    <2>4. ASSUME NEW c \in Client, DeleteManifest(c) PROVE Overlap
      BY <2>4 DEF DeleteManifest, DeleteTag, DeleteBegin, DeleteUntag, DeleteReferences, DeleteRow,
                  DeleteObject, DeleteRelease, DeleteSchedule
    <2>5. ASSUME NEW c \in Client, DropBlob(c) PROVE Overlap
      BY <2>5 DEF DropBlob, DropBegin, DropObject, DropRow
    <2>6. ASSUME NEW b \in Blob, Age(b) \/ CleanupDue(b) PROVE Overlap
      BY <2>6 DEF Age, CleanupDue
    <2>7. ASSUME NEW s \in Sweeper, Sweep(s) PROVE Overlap
      BY <2>7 DEF Sweep, SweepSelect, SweepObject, SweepRow, SweepFails
    <2> QED BY <1>2, <1>3, <2>1, <2>2, <2>3, <2>4, <2>5, <2>6, <2>7 DEF Next
  <1>5. Separated'
    BY <1>1, <1>4, SeparateNext
  <1> QED BY <1>2, <1>4, <1>5

-----------------------------------------------------------------------------
(* What the step of a push or of a deletion does to its request.           *)
StepTo(c, pc, m, at) ==
    /\ client'[c] = [pc |-> pc, blob |-> None, manifest |-> m, at |-> at]
    /\ \A d \in Client \ {c} : client'[d] = client[d]

(* How the steps of the manifest requests move the request that takes      *)
(* them.                                                                   *)
LEMMA StepsAre ==
    ASSUME Types, NEW c \in Client
    PROVE  /\ \A m \in Manifest, pc \in {"check", "untag"} : Begin(c, pc, None, m) =>
                client[c].pc = "idle" /\ client[c].manifest = None /\ StepTo(c, pc, m, 1)
           /\ client[c].pc \in PutSteps \cup DeleteSteps =>
                /\ client[c].manifest \in Manifest
                /\ \A pc \in PutSteps \cup DeleteSteps :
                      Goto(c, pc) => StepTo(c, pc, client[c].manifest, 1)
                /\ Advance(c) => StepTo(c, client[c].pc, client[c].manifest, client[c].at + 1)
                /\ Finish(c) => StepTo(c, "idle", None, 0)
                /\ client[c].pc \in {"check", "refer"} => client[c].at \in Index(client[c].manifest)
  <1>0. client \in [Client -> Request] /\ RequestOK(client[c]) /\ client[c] \in Request
    BY DEF Types, Requests
  <1>1. ASSUME NEW m \in Manifest, NEW pc \in {"check", "untag"}, Begin(c, pc, None, m)
        PROVE  client[c].pc = "idle" /\ client[c].manifest = None /\ StepTo(c, pc, m, 1)
    <2>1. Now(c, [pc |-> pc, blob |-> None, manifest |-> m, at |-> 1])
      BY <1>0, <1>1, BeginMoves DEF PutSteps, DeleteSteps
    <2>2. client[c].pc = "idle" /\ client[c].manifest \in Manifest \cup {None}
      BY <1>0, <1>1 DEF Begin, At, Request
    <2>3. client[c].manifest \notin Manifest
      BY <1>0, <2>2 DEF RequestOK, PutSteps, DeleteSteps
    <2> QED BY <2>1, <2>2, <2>3 DEF Now, StepTo
  <1> SUFFICES ASSUME client[c].pc \in PutSteps \cup DeleteSteps
               PROVE  /\ client[c].manifest \in Manifest
                      /\ \A pc \in PutSteps \cup DeleteSteps :
                            Goto(c, pc) => StepTo(c, pc, client[c].manifest, 1)
                      /\ Advance(c) => StepTo(c, client[c].pc, client[c].manifest, client[c].at + 1)
                      /\ Finish(c) => StepTo(c, "idle", None, 0)
                      /\ client[c].pc \in {"check", "refer"} => client[c].at \in Index(client[c].manifest)
    BY <1>1
  <1>2. client[c].manifest \in Manifest
    BY <1>0 DEF RequestOK
  <1>3. client[c].blob = None
    <2>1. client[c].blob \notin Blob
      BY <1>0 DEF RequestOK, PutSteps, DeleteSteps, UploadSteps, DropSteps
    <2> QED BY <1>0, <2>1 DEF Request
  <1>4. ASSUME NEW pc \in PutSteps \cup DeleteSteps, Goto(c, pc)
        PROVE  StepTo(c, pc, client[c].manifest, 1)
    <2>1. Now(c, At1(c, pc))
      BY <1>0, <1>4, GotoMoves
    <2> QED BY <1>3, <2>1 DEF Now, At1, StepTo
  <1>5. ASSUME Advance(c) PROVE StepTo(c, client[c].pc, client[c].manifest, client[c].at + 1)
    BY <1>0, <1>3, <1>5, AdvanceMoves DEF Now, StepTo
  <1>6. ASSUME Finish(c) PROVE StepTo(c, "idle", None, 0)
    BY <1>0, <1>6, FinishMoves DEF Now, StepTo, Quiet
  <1>7. client[c].pc \in {"check", "refer"} => client[c].at \in Index(client[c].manifest)
    BY <1>0 DEF RequestOK
  <1> QED BY <1>2, <1>4, <1>5, <1>6, <1>7

(* The steps of a push, each with where it leaves the request and the rows *)
(* it writes.                                                              *)
LEMMA PutStepsAre ==
    ASSUME Types, NEW c \in Client, PutManifest(c)
    PROVE  \/ /\ PutBegin(c) /\ client[c].pc = "idle" /\ client[c].manifest = None
              /\ \E m \in Manifest : StepTo(c, "check", m, 1)
           \/ \E m \in Manifest : client[c].manifest = m /\
              \/ /\ PutCheck(c) /\ client[c].pc = "check" /\ client[c].at \in Index(m)
                 /\ \/ StepTo(c, "idle", None, 0)
                    \/ /\ Layers[m][client[c].at] \in stored
                       /\ \/ StepTo(c, "release", m, 1) /\ client[c].at = Len(Layers[m])
                          \/ StepTo(c, "check", m, client[c].at + 1)
              \/ /\ PutRelease(c) /\ client[c].pc = "release"
                 /\ StepTo(c, "store", m, 1) \/ StepTo(c, "revive", m, 1)
                 /\ \A n \in Manifest : \/ status'[n] = status[n]
                                        \/ n = m /\ status[n] = "absent" /\ status'[n] = "quarantine"
              \/ /\ PutRevive(c) /\ client[c].pc = "revive" /\ StepTo(c, "store", m, 1)
                 /\ \A n \in Manifest : status'[n] = IF n = m THEN "quarantine" ELSE status[n]
              \/ /\ PutStore(c) /\ client[c].pc = "store"
                 /\ IF m \in listed THEN StepTo(c, "clear", m, 1) /\ kept' = kept
                    ELSE StepTo(c, "list", m, 1) /\ kept' = kept \cup {m}
              \/ /\ PutList(c) /\ client[c].pc = "list" /\ listed' = listed \cup {m}
                 /\ IF m \in listed THEN StepTo(c, "idle", None, 0) ELSE StepTo(c, "clear", m, 1)
              \/ /\ PutClear(c) /\ client[c].pc = "clear" /\ StepTo(c, "refer", m, 1)
                 /\ \A n \in Manifest : refs'[n] = IF n = m THEN {} ELSE refs[n]
              \/ /\ PutRefer(c) /\ client[c].pc = "refer" /\ client[c].at \in Index(m)
                 /\ \A n \in Manifest : refs'[n] = IF n = m THEN refs[n] \cup {Layers[m][client[c].at]}
                                                   ELSE refs[n]
                 /\ IF Layers[m][client[c].at] \in refs[m] THEN StepTo(c, "idle", None, 0)
                    ELSE \/ StepTo(c, "publish", m, 1) /\ client[c].at = Len(Layers[m])
                         \/ StepTo(c, "refer", m, client[c].at + 1)
              \/ /\ PutPublish(c) /\ client[c].pc = "publish" /\ StepTo(c, "tag", m, 1)
                 /\ \A n \in Manifest : status'[n] = IF n = m THEN "published" ELSE status[n]
              \/ /\ PutTag(c) /\ client[c].pc = "tag" /\ StepTo(c, "idle", None, 0)
                 /\ tag' \in {tag, m}
  <1>0. /\ status \in [Manifest -> Status]
        /\ refs \in [Manifest -> SUBSET Blob]
    BY DEF Types, Rows
  <1>1. ASSUME PutBegin(c)
        PROVE  /\ client[c].pc = "idle" /\ client[c].manifest = None
               /\ \E m \in Manifest : StepTo(c, "check", m, 1)
    BY <1>1, StepsAre DEF PutBegin
  <1> DEFINE m == client[c].manifest
  <1>2. ASSUME PutCheck(c)
        PROVE  /\ m \in Manifest /\ client[c].pc = "check" /\ client[c].at \in Index(m)
               /\ \/ StepTo(c, "idle", None, 0)
                  \/ /\ Layers[m][client[c].at] \in stored
                     /\ \/ StepTo(c, "release", m, 1) /\ client[c].at = Len(Layers[m])
                        \/ StepTo(c, "check", m, client[c].at + 1)
    BY <1>2, StepsAre DEF PutCheck, Put, At, Present, AtLast, PutSteps
  <1>3. ASSUME PutRelease(c)
        PROVE  /\ m \in Manifest /\ client[c].pc = "release"
               /\ StepTo(c, "store", m, 1) \/ StepTo(c, "revive", m, 1)
               /\ \A n \in Manifest : \/ status'[n] = status[n]
                                      \/ n = m /\ status[n] = "absent" /\ status'[n] = "quarantine"
    BY <1>0, <1>3, StepsAre DEF PutRelease, Put, At, PutSteps
  <1>4. ASSUME PutRevive(c)
        PROVE  /\ m \in Manifest /\ client[c].pc = "revive" /\ StepTo(c, "store", m, 1)
               /\ \A n \in Manifest : status'[n] = IF n = m THEN "quarantine" ELSE status[n]
    BY <1>0, <1>4, StepsAre DEF PutRevive, Put, At, PutSteps
  <1>5. ASSUME PutStore(c)
        PROVE  /\ m \in Manifest /\ client[c].pc = "store"
               /\ IF m \in listed THEN StepTo(c, "clear", m, 1) /\ kept' = kept
                  ELSE StepTo(c, "list", m, 1) /\ kept' = kept \cup {m}
    BY <1>5, StepsAre DEF PutStore, Put, At, PutSteps
  <1>6. ASSUME PutList(c)
        PROVE  /\ m \in Manifest /\ client[c].pc = "list" /\ listed' = listed \cup {m}
               /\ IF m \in listed THEN StepTo(c, "idle", None, 0) ELSE StepTo(c, "clear", m, 1)
    BY <1>6, StepsAre DEF PutList, Put, At, PutSteps
  <1>7. ASSUME PutClear(c)
        PROVE  /\ m \in Manifest /\ client[c].pc = "clear" /\ StepTo(c, "refer", m, 1)
               /\ \A n \in Manifest : refs'[n] = IF n = m THEN {} ELSE refs[n]
    BY <1>0, <1>7, StepsAre DEF PutClear, Put, At, PutSteps
  <1>8. ASSUME PutRefer(c)
        PROVE  /\ m \in Manifest /\ client[c].pc = "refer" /\ client[c].at \in Index(m)
               /\ \A n \in Manifest : refs'[n] = IF n = m THEN refs[n] \cup {Layers[m][client[c].at]}
                                                 ELSE refs[n]
               /\ IF Layers[m][client[c].at] \in refs[m] THEN StepTo(c, "idle", None, 0)
                  ELSE \/ StepTo(c, "publish", m, 1) /\ client[c].at = Len(Layers[m])
                       \/ StepTo(c, "refer", m, client[c].at + 1)
    <2>1. client[c].pc = "refer"
      BY <1>8 DEF PutRefer, Put, At
    <2>2. m \in Manifest /\ client[c].at \in Index(m)
      BY <2>1, StepsAre DEF PutSteps
    <2>3. /\ refs' = [refs EXCEPT ![m] = @ \cup {Layers[m][client[c].at]}]
          /\ \/ Layers[m][client[c].at] \in refs[m] /\ Finish(c)
             \/ /\ Layers[m][client[c].at] \notin refs[m]
                /\ IF AtLast(c) THEN Goto(c, "publish") ELSE Advance(c)
      BY <1>8 DEF PutRefer, Put
    <2>4. IF Layers[m][client[c].at] \in refs[m] THEN StepTo(c, "idle", None, 0)
          ELSE \/ StepTo(c, "publish", m, 1) /\ client[c].at = Len(Layers[m])
               \/ StepTo(c, "refer", m, client[c].at + 1)
      BY <2>1, <2>3, StepsAre DEF AtLast, PutSteps
    <2>5. \A n \in Manifest : refs'[n] = IF n = m THEN refs[n] \cup {Layers[m][client[c].at]}
                                         ELSE refs[n]
      BY <1>0, <2>2, <2>3
    <2> QED BY <2>1, <2>2, <2>4, <2>5
  <1>9. ASSUME PutPublish(c)
        PROVE  /\ m \in Manifest /\ client[c].pc = "publish" /\ StepTo(c, "tag", m, 1)
               /\ \A n \in Manifest : status'[n] = IF n = m THEN "published" ELSE status[n]
    BY <1>0, <1>9, StepsAre DEF PutPublish, Put, At, PutSteps
  <1>10. ASSUME PutTag(c)
         PROVE  /\ m \in Manifest /\ client[c].pc = "tag" /\ StepTo(c, "idle", None, 0)
                /\ tag' \in {tag, m}
    BY <1>10, StepsAre DEF PutTag, Put, At, PutSteps
  <1> QED BY <1>1, <1>2, <1>3, <1>4, <1>5, <1>6, <1>7, <1>8, <1>9, <1>10 DEF PutManifest

(* The same for the deletion of a manifest or a tag.                       *)
LEMMA DeleteStepsAre ==
    ASSUME Types, NEW c \in Client, DeleteManifest(c)
    PROVE  \/ DeleteTag(c) /\ tag' = None /\ client' = client
           \/ /\ DeleteBegin(c) /\ client[c].pc = "idle" /\ client[c].manifest = None
              /\ \E m \in Manifest : StepTo(c, "untag", m, 1)
           \/ \E m \in Manifest : client[c].manifest = m /\
              \/ /\ DeleteUntag(c) /\ client[c].pc = "untag" /\ StepTo(c, "unrefer", m, 1)
                 /\ tag' = IF tag = m THEN None ELSE tag
              \/ /\ DeleteReferences(c) /\ client[c].pc = "unrefer" /\ StepTo(c, "unlist", m, 1)
                 /\ \A n \in Manifest : refs'[n] = IF n = m THEN {} ELSE refs[n]
              \/ /\ DeleteRow(c) /\ client[c].pc = "unlist" /\ StepTo(c, "remove", m, 1)
                 /\ listed' = listed \ {m}
              \/ /\ DeleteObject(c) /\ client[c].pc = "remove" /\ StepTo(c, "retire", m, 1)
                 /\ kept' = kept \ {m}
              \/ /\ DeleteRelease(c) /\ client[c].pc = "retire" /\ StepTo(c, "sweep", m, 1)
                 /\ \A n \in Manifest : status'[n] = IF n = m THEN "deleted" ELSE status[n]
              \/ DeleteSchedule(c) /\ client[c].pc = "sweep" /\ StepTo(c, "idle", None, 0) /\ due'
  <1>0. /\ status \in [Manifest -> Status]
        /\ refs \in [Manifest -> SUBSET Blob]
    BY DEF Types, Rows
  <1>1. ASSUME DeleteTag(c) PROVE tag' = None /\ client' = client
    BY <1>1 DEF DeleteTag
  <1>2. ASSUME DeleteBegin(c)
        PROVE  /\ client[c].pc = "idle" /\ client[c].manifest = None
               /\ \E m \in Manifest : StepTo(c, "untag", m, 1)
    BY <1>2, StepsAre DEF DeleteBegin
  <1> DEFINE m == client[c].manifest
  <1>3. ASSUME DeleteUntag(c)
        PROVE  /\ m \in Manifest /\ client[c].pc = "untag" /\ StepTo(c, "unrefer", m, 1)
               /\ tag' = IF tag = m THEN None ELSE tag
    BY <1>3, StepsAre DEF DeleteUntag, At, DeleteSteps
  <1>4. ASSUME DeleteReferences(c)
        PROVE  /\ m \in Manifest /\ client[c].pc = "unrefer" /\ StepTo(c, "unlist", m, 1)
               /\ \A n \in Manifest : refs'[n] = IF n = m THEN {} ELSE refs[n]
    BY <1>0, <1>4, StepsAre DEF DeleteReferences, At, DeleteSteps
  <1>5. ASSUME DeleteRow(c)
        PROVE  /\ m \in Manifest /\ client[c].pc = "unlist" /\ StepTo(c, "remove", m, 1)
               /\ listed' = listed \ {m}
    BY <1>5, StepsAre DEF DeleteRow, At, DeleteSteps
  <1>6. ASSUME DeleteObject(c)
        PROVE  /\ m \in Manifest /\ client[c].pc = "remove" /\ StepTo(c, "retire", m, 1)
               /\ kept' = kept \ {m}
    BY <1>6, StepsAre DEF DeleteObject, At, DeleteSteps
  <1>7. ASSUME DeleteRelease(c)
        PROVE  /\ m \in Manifest /\ client[c].pc = "retire" /\ StepTo(c, "sweep", m, 1)
               /\ \A n \in Manifest : status'[n] = IF n = m THEN "deleted" ELSE status[n]
    BY <1>0, <1>7, StepsAre DEF DeleteRelease, At, DeleteSteps
  <1>8. ASSUME DeleteSchedule(c)
        PROVE  m \in Manifest /\ client[c].pc = "sweep" /\ StepTo(c, "idle", None, 0) /\ due'
    BY <1>8, StepsAre DEF DeleteSchedule, At, DeleteSteps
  <1> QED BY <1>1, <1>2, <1>3, <1>4, <1>5, <1>6, <1>7, <1>8 DEF DeleteManifest

-----------------------------------------------------------------------------
(* A step that leaves a manifest alone, and the requests with it.          *)
Untouched(m) ==
    /\ refs'[m] = refs[m] /\ status'[m] = status[m]
    /\ m \in listed' <=> m \in listed
    /\ m \in kept' <=> m \in kept
    /\ tag' = m => tag = m
    /\ \A c \in Client : client[c].manifest = m \/ client'[c].manifest = m => client'[c] = client[c]

(* A push leaves the other manifests alone.                                *)
LEMMA PutElsewhere ==
    ASSUME Types, NEW c \in Client, PutManifest(c), NEW m \in Manifest,
           client[c].manifest # m, client'[c].manifest # m
    PROVE  Untouched(m)
  <1>0. \E pc, n, at : StepTo(c, pc, n, at)
    BY PutStepsAre
  <1>1. \A d \in Client : client[d].manifest = m \/ client'[d].manifest = m => client'[d] = client[d]
    BY <1>0 DEF StepTo
  <1>2. CASE PutBegin(c) \/ PutCheck(c)
    BY <1>1, <1>2 DEF Untouched, PutBegin, PutCheck, manifests
  <1>3. CASE PutRelease(c) \/ PutRevive(c) \/ PutPublish(c)
    <2>1. status'[m] = status[m]
      BY <1>3 DEF PutRelease, PutRevive, PutPublish, Put, Types, Rows
    <2> QED BY <1>1, <1>3, <2>1 DEF Untouched, PutRelease, PutRevive, PutPublish
  <1>4. CASE PutStore(c)
    BY <1>1, <1>4 DEF Untouched, PutStore, Put
  <1>5. CASE PutList(c)
    BY <1>1, <1>5 DEF Untouched, PutList, Put
  <1>6. CASE PutClear(c) \/ PutRefer(c)
    <2>1. refs'[m] = refs[m]
      BY <1>6 DEF PutClear, PutRefer, Put, Types, Rows
    <2> QED BY <1>1, <1>6, <2>1 DEF Untouched, PutClear, PutRefer
  <1>7. CASE PutTag(c)
    BY <1>1, <1>7 DEF Untouched, PutTag, Put
  <1> QED BY <1>2, <1>3, <1>4, <1>5, <1>6, <1>7 DEF PutManifest

(* So does a deletion.                                                     *)
LEMMA DeleteElsewhere ==
    ASSUME Types, NEW c \in Client, DeleteManifest(c), NEW m \in Manifest,
           client[c].manifest # m, client'[c].manifest # m
    PROVE  Untouched(m)
  <1>0. client' = client \/ \E pc, n, at : StepTo(c, pc, n, at)
    BY DeleteStepsAre
  <1>1. \A d \in Client : client[d].manifest = m \/ client'[d].manifest = m => client'[d] = client[d]
    BY <1>0 DEF StepTo
  <1>2. None # m
    BY OciAssumption
  <1>3. CASE DeleteBegin(c) \/ DeleteSchedule(c)
    BY <1>1, <1>3 DEF Untouched, DeleteBegin, DeleteSchedule, manifests
  <1>4. CASE DeleteTag(c) \/ DeleteUntag(c)
    BY <1>1, <1>2, <1>4 DEF Untouched, DeleteTag, DeleteUntag
  <1>5. CASE DeleteReferences(c)
    <2>1. refs'[m] = refs[m]
      BY <1>5 DEF DeleteReferences, Types, Rows
    <2> QED BY <1>1, <1>5, <2>1 DEF Untouched, DeleteReferences
  <1>6. CASE DeleteRow(c) \/ DeleteObject(c)
    BY <1>1, <1>6 DEF Untouched, DeleteRow, DeleteObject
  <1>7. CASE DeleteRelease(c)
    <2>1. status'[m] = status[m]
      BY <1>7 DEF DeleteRelease, Types, Rows
    <2> QED BY <1>1, <1>7, <2>1 DEF Untouched, DeleteRelease
  <1> QED BY <1>3, <1>4, <1>5, <1>6, <1>7 DEF DeleteManifest

(* What is said of a manifest that a step leaves alone stays true.         *)
LEMMA UntouchedWork ==
    ASSUME NEW m \in Manifest, Untouched(m), NEW steps
    PROVE  Working(m, steps)' <=> Working(m, steps)
  BY DEF Untouched, Working

(* Whoever would publish the manifest or insert its references does so     *)
(* after a step that does not touch it.                                    *)
LEMMA UntouchedRequests ==
    ASSUME NEW m \in Manifest, Untouched(m)
    PROVE  /\ Closable(m)' <=> Closable(m)
           /\ \A k \in Index(m) : Inserted(m, k)' <=> Inserted(m, k)
  <1>1. \A c \in Client : client[c].manifest = m \/ client'[c].manifest = m => client'[c] = client[c]
    BY DEF Untouched
  <1>2. refs'[m] = refs[m] /\ status'[m] = status[m] /\ (m \in listed' <=> m \in listed)
    BY DEF Untouched
  <1>3. ASSUME NEW c \in Client PROVE Closer(c, m)' <=> Closer(c, m)
    BY <1>1, <1>2 DEF Closer, Index
  <1>4. ASSUME NEW c \in Client, NEW k \in Index(m) PROVE Inserter(c, m, k)' <=> Inserter(c, m, k)
    BY <1>1, <1>2 DEF Inserter, Index
  <1> QED BY <1>2, <1>3, <1>4 DEF Closable, Inserted

(* A step that does not touch a manifest keeps its rows in order.          *)
LEMMA UntouchedManifest ==
    ASSUME NEW m \in Manifest, Untouched(m), ManifestOK(m)
    PROVE  ManifestOK(m)'
  <1>1. \A c \in Client : client[c].manifest = m \/ client'[c].manifest = m => client'[c] = client[c]
    BY DEF Untouched
  <1>2. /\ status'[m] = status[m] /\ (m \in listed' <=> m \in listed)
        /\ (m \in kept' <=> m \in kept) /\ (tag' = m => tag = m)
    BY DEF Untouched
  <1>3. /\ Closable(m)' <=> Closable(m)
        /\ \A k \in Index(m) : Inserted(m, k)' <=> Inserted(m, k)
    BY UntouchedRequests
  <1>4. Working(m, {"remove", "retire"})' <=> Working(m, {"remove", "retire"})
    BY UntouchedWork
  <1>5. Working(m, {"unlist", "remove", "retire"})' <=> Working(m, {"unlist", "remove", "retire"})
    BY UntouchedWork
  <1>6. /\ m \in listed' => m \in kept' /\ Closable(m)'
        /\ tag' = m => m \in listed'
    BY <1>2, <1>3 DEF ManifestOK
  <1>7. status'[m] = "published" =>
          /\ ~Working(m, {"remove", "retire"})' => m \in listed'
          /\ ~Working(m, {"unlist", "remove", "retire"})' => \A k \in Index(m) : Inserted(m, k)'
    BY <1>2, <1>3, <1>4, <1>5 DEF ManifestOK
  <1>8. ASSUME NEW c \in Client, client'[c].manifest = m
        PROVE  /\ client'[c].pc = "list" => m \in kept'
               /\ client'[c].pc \in {"clear", "refer", "publish", "tag"} => m \in listed'
               /\ client'[c].pc = "refer" => \A k \in Index(m) : k >= client'[c].at \/ Inserted(m, k)'
               /\ client'[c].pc = "publish" => \A k \in Index(m) : Inserted(m, k)'
               /\ client'[c].pc \in DeleteSteps \ {"untag"} => tag' # m
               /\ client'[c].pc \in {"remove", "retire", "sweep"} => m \notin listed'
    BY <1>1, <1>2, <1>3, <1>8 DEF ManifestOK
  <1> QED BY <1>6, <1>7, <1>8 DEF ManifestOK, Index

(* The heart of it: a step of a push never takes away the last request     *)
(* that will publish a manifest, or that will insert one of its            *)
(* references.  Where it stops another push it is one itself.              *)
LEMMA PutPersists ==
    ASSUME LayersOnce, Types, NEW c \in Client, PutManifest(c), NEW m \in Manifest, NEW k \in Index(m)
    PROVE  /\ Closable(m) => Closable(m)'
           /\ Inserted(m, k) => Inserted(m, k)'
  <1>1. CASE client[c].manifest # m /\ client'[c].manifest # m
    BY <1>1, PutElsewhere, UntouchedRequests
  <1> DEFINE Others == \A d \in Client \ {c} : client'[d] = client[d]
             Same == /\ refs'[m] = refs[m] /\ (status[m] = "published" => status'[m] = "published")
                     /\ m \in listed' <=> m \in listed
  (* The request is not one that counts, and the others are not disturbed. *)
  <1>2. ASSUME Others, Same, ~Closer(c, m), ~Inserter(c, m, k)
        PROVE  /\ Closable(m) => Closable(m)'
               /\ Inserted(m, k) => Inserted(m, k)'
    <2>1. \A d \in Client : Closer(d, m) => Closer(d, m)'
      BY <1>2 DEF Closer, Index
    <2>2. \A d \in Client : Inserter(d, m, k) => Inserter(d, m, k)'
      BY <1>2 DEF Inserter, Index
    <2> QED BY <1>2, <2>1, <2>2 DEF Closable, Inserted
  (* The request counts afterwards, whatever the others do.                *)
  <1>3. ASSUME Closer(c, m)', Inserter(c, m, k)'
        PROVE  Closable(m)' /\ Inserted(m, k)'
    BY <1>3 DEF Closable, Inserted
  <1>4. CASE PutBegin(c)
    <2>1. Others /\ Same
      BY <1>4, PutStepsAre DEF PutBegin, manifests, StepTo
    <2>2. ~Closer(c, m) /\ ~Inserter(c, m, k)
      BY <1>4, OciAssumption, PutStepsAre DEF PutBegin, Begin, At, Closer, Inserter
    <2> QED BY <1>2, <2>1, <2>2
  <1> SUFFICES ASSUME client[c].manifest = m, ~PutBegin(c)
               PROVE  /\ Closable(m) => Closable(m)'
                      /\ Inserted(m, k) => Inserted(m, k)'
    <2>1. CASE client[c].manifest # m /\ ~PutBegin(c)
      <3>0. \E pc, at : \E n \in {client[c].manifest, None} : StepTo(c, pc, n, at)
        BY <2>1, PutStepsAre
      <3>1. client'[c].manifest \in {client[c].manifest, None}
        BY <3>0 DEF StepTo
      <3>2. client'[c].manifest # m
        BY <2>1, <3>1, OciAssumption
      <3> QED BY <1>1, <2>1, <3>2
    <2> QED BY <1>4, <2>1
  <1>5. CASE PutCheck(c)
    <2>1. Others /\ Same
      BY <1>5, PutStepsAre DEF PutCheck, manifests, StepTo
    <2>2. client[c].pc = "check"
      BY <1>5 DEF PutCheck, Put, At
    <2> QED BY <1>2, <2>1, <2>2 DEF Closer, Inserter
  <1>6. CASE PutRelease(c)
    <2>1. client[c].pc = "release"
      BY <1>6 DEF PutRelease, Put, At
    <2>2. Others
      BY <2>1, PutStepsAre DEF StepTo
    <2>3. Same
      BY <1>6 DEF PutRelease, Types, Rows
    <2> QED BY <1>2, <2>1, <2>2, <2>3 DEF Closer, Inserter
  <1>7. CASE PutRevive(c)
    <2>1. client[c].pc = "revive"
      BY <1>7 DEF PutRevive, Put, At
    <2>2. StepTo(c, "store", m, 1)
      BY <2>1, PutStepsAre
    <2> QED BY <1>3, <2>2 DEF StepTo, Closer, Inserter
  <1>8. CASE PutStore(c)
    <2>1. client[c].pc = "store" /\ listed' = listed
      BY <1>8 DEF PutStore, Put, At
    <2>2. IF m \in listed THEN StepTo(c, "clear", m, 1) ELSE StepTo(c, "list", m, 1)
      BY <2>1, PutStepsAre
    <2> QED BY <1>3, <2>1, <2>2 DEF StepTo, Closer, Inserter
  <1>9. CASE PutList(c)
    <2>1. client[c].pc = "list" /\ listed' = listed \cup {m} /\ refs' = refs /\ status' = status
      BY <1>9 DEF PutList, Put, At
    <2>2. IF m \in listed THEN StepTo(c, "idle", None, 0) ELSE StepTo(c, "clear", m, 1)
      BY <2>1, PutStepsAre
    <2>3. CASE m \in listed
      BY <1>2, <2>1, <2>2, <2>3 DEF StepTo, Closer, Inserter
    <2>4. CASE m \notin listed
      BY <1>3, <2>2, <2>4 DEF StepTo, Closer, Inserter
    <2> QED BY <2>3, <2>4
  <1>10. CASE PutClear(c)
    <2>1. client[c].pc = "clear"
      BY <1>10 DEF PutClear, Put, At
    <2>2. StepTo(c, "refer", m, 1) /\ refs'[m] = {}
      BY <2>1, PutStepsAre
    <2> QED BY <1>3, <2>2 DEF StepTo, Closer, Inserter, Index
  <1>11. CASE PutRefer(c)
    <2> DEFINE i == client[c].at
    <2>1. client[c].pc = "refer" /\ status' = status /\ listed' = listed
      BY <1>11 DEF PutRefer, Put, At
    <2>2. /\ i \in Index(m)
          /\ refs'[m] = refs[m] \cup {Layers[m][i]}
          /\ IF Layers[m][i] \in refs[m] THEN StepTo(c, "idle", None, 0)
             ELSE \/ StepTo(c, "publish", m, 1) /\ i = Len(Layers[m])
                  \/ StepTo(c, "refer", m, i + 1)
      BY <2>1, PutStepsAre
    <2>3. Len(Layers[m]) \in Nat /\ i \in Nat /\ k \in Nat /\ k <= Len(Layers[m]) /\ Index(m) \subseteq Nat
      BY <2>2, Places DEF Index
    <2>4. CASE Layers[m][i] \in refs[m]
      <3>1. refs'[m] = refs[m]
        BY <2>2, <2>4
      <3>2. Others
        BY <2>2, <2>4 DEF StepTo
      <3>3. ~Closer(c, m)
        BY <2>1, <2>2, <2>3, <2>4 DEF Closer
      <3>4. i <= k => ~Inserter(c, m, k)
        BY <2>1, <2>2, <2>3, <2>4 DEF Inserter
      <3>5. ~Inserter(c, m, k)
        BY <2>1, <3>4 DEF Inserter
      <3> QED BY <1>2, <2>1, <3>1, <3>2, <3>3, <3>5
    <2>5. CASE Layers[m][i] \notin refs[m]
      <3>1. \A l \in Index(m) : l # i => (Layers[m][l] \in refs'[m] <=> Layers[m][l] \in refs[m])
        BY <2>2, PlacesOnce
      <3>2. Layers[m][i] \in refs'[m]
        BY <2>2
      <3>3. Others
        BY <2>2, <2>5 DEF StepTo
      <3>4. client'[c].manifest = m /\ \/ client'[c].pc = "publish" /\ i = Len(Layers[m])
                                       \/ client'[c].pc = "refer" /\ client'[c].at = i + 1
        BY <2>2, <2>5 DEF StepTo
      <3>5. ASSUME NEW d \in Client, Closer(d, m) PROVE Closer(d, m)' \/ Closer(c, m)'
        <4>1. CASE d # c /\ (client[d].pc # "refer" \/ client[d].at > i)
          <5>1. client'[d] = client[d] /\ client[d].at \in Nat
            BY <3>3, <4>1 DEF Types, Requests, Request
          <5>2. CASE client[d].pc # "refer"
            BY <2>1, <3>5, <5>1, <5>2 DEF Closer
          <5>3. CASE client[d].pc = "refer" /\ client[d].at > i
            <6>1. \A l \in Index(m) : l >= client[d].at => l # i /\ Layers[m][l] \notin refs[m]
              BY <2>3, <3>5, <5>1, <5>3 DEF Closer
            <6>2. \A l \in Index(m) : l >= client[d].at => Layers[m][l] \notin refs'[m]
              BY <3>1, <6>1
            <6> QED BY <3>5, <5>1, <5>3, <6>2 DEF Closer, Index
          <5> QED BY <4>1, <5>2, <5>3
        <4>2. CASE client[d].pc = "refer" /\ ~(client[d].at > i)
          <5>1. client[d].at \in Nat
            BY DEF Types, Requests, Request
          <5>2. \A l \in Index(m) : l > i => Layers[m][l] \notin refs[m]
            BY <2>3, <3>5, <4>2, <5>1 DEF Closer
          <5>3. \A l \in Index(m) : l > i => Layers[m][l] \notin refs'[m]
            BY <2>3, <3>1, <5>2
          <5> QED BY <2>3, <3>4, <5>3 DEF Closer, Index
        <4>3. client[c].at = i /\ client[c].pc = "refer" /\ ~(i > i)
          BY <2>1, <2>3
        <4> QED BY <4>1, <4>2, <4>3
      <3>6. ASSUME NEW d \in Client, Inserter(d, m, k) PROVE Inserter(d, m, k)' \/ Inserted(m, k)'
        <4>1. CASE d # c /\ (client[d].pc # "refer" \/ client[d].at > i \/ i > k)
          <5>1. client'[d] = client[d] /\ client[d].at \in Nat
            BY <3>3, <4>1 DEF Types, Requests, Request
          <5>2. CASE client[d].pc # "refer"
            BY <2>1, <3>6, <5>1, <5>2 DEF Inserter
          <5>3. CASE client[d].pc = "refer" /\ (client[d].at > i \/ i > k)
            <6>1. \A l \in Index(m) : l >= client[d].at /\ l <= k => l # i /\ Layers[m][l] \notin refs[m]
              BY <2>3, <3>6, <5>1, <5>3 DEF Inserter
            <6>2. \A l \in Index(m) : l >= client[d].at /\ l <= k => Layers[m][l] \notin refs'[m]
              BY <3>1, <6>1
            <6> QED BY <3>6, <5>1, <5>3, <6>2 DEF Inserter, Index
          <5> QED BY <4>1, <5>2, <5>3
        <4>2. CASE i = k
          BY <3>2, <4>2 DEF Inserted
        <4>3. CASE client[d].pc = "refer" /\ ~(client[d].at > i) /\ i < k
          <5>1. client[d].at \in Nat
            BY DEF Types, Requests, Request
          <5>2. \A l \in Index(m) : l > i /\ l <= k => Layers[m][l] \notin refs[m]
            BY <2>3, <3>6, <4>3, <5>1 DEF Inserter
          <5>3. \A l \in Index(m) : l > i /\ l <= k => Layers[m][l] \notin refs'[m]
            BY <2>3, <3>1, <5>2
          <5>4. Inserter(c, m, k)'
            BY <2>3, <3>4, <4>3, <5>3 DEF Inserter, Index
          <5> QED BY <5>4 DEF Inserted
        <4>4. CASE d = c /\ i > k
          BY <2>1, <2>3, <3>6, <4>4 DEF Inserter
        <4>5. d = c => client[d].pc = "refer" /\ ~(client[d].at > i)
          BY <2>1, <2>3
        <4> QED BY <2>3, <4>1, <4>2, <4>3, <4>4, <4>5
      <3>7. Closable(m) => Closable(m)'
        BY <2>1, <3>5 DEF Closable
      <3>8. Inserted(m, k) => Inserted(m, k)'
        BY <2>2, <3>6 DEF Inserted
      <3> QED BY <3>7, <3>8
    <2> QED BY <2>4, <2>5
  <1>12. CASE PutPublish(c)
    <2>1. client[c].pc = "publish" /\ listed' = listed /\ refs' = refs
      BY <1>12 DEF PutPublish, Put, At
    <2>2. StepTo(c, "tag", m, 1) /\ status'[m] = "published"
      BY <2>1, PutStepsAre
    <2>3. \A d \in Client : Inserter(d, m, k) => Inserter(d, m, k)'
      BY <2>1, <2>2 DEF StepTo, Inserter, Index
    <2> QED BY <2>1, <2>2, <2>3 DEF Closable, Inserted
  <1>13. CASE PutTag(c)
    <2>1. client[c].pc = "tag"
      BY <1>13 DEF PutTag, Put, At
    <2>2. Others
      BY <2>1, PutStepsAre DEF StepTo
    <2>3. Same
      BY <1>13 DEF PutTag
    <2> QED BY <1>2, <2>1, <2>2, <2>3 DEF Closer, Inserter
  <1> QED BY <1>5, <1>6, <1>7, <1>8, <1>9, <1>10, <1>11, <1>12, <1>13 DEF PutManifest

-----------------------------------------------------------------------------
(* Rows, objects, tags and references.                                     *)

(* While a manifest is pushed nobody deletes it, or it is disturbed.       *)
LEMMA PutAlone ==
    ASSUME Types, Separated, Separated', disturbed \subseteq disturbed',
           NEW c \in Client, PutManifest(c), NEW m \in Manifest \ disturbed',
           client[c].manifest = m \/ client'[c].manifest = m
    PROVE  ~Working(m, DeleteSteps) /\ ~Working(m, DeleteSteps)'
  <1>1. \A d \in Client \ {c} : client'[d] = client[d]
    <2>1. \E pc, n, at : StepTo(c, pc, n, at)
      BY PutStepsAre
    <2> QED BY <2>1 DEF StepTo
  <1>2. None # m /\ "idle" \notin DeleteSteps
    BY OciAssumption DEF DeleteSteps
  <1>3. CASE PutBegin(c)
    <2>1. client[c].manifest = None /\ \E n \in Manifest : StepTo(c, "check", n, 1)
      BY <1>3, PutStepsAre DEF PutBegin, Begin, Put, At, PutCheck, PutRelease, PutRevive, PutStore,
                               PutList, PutClear, PutRefer, PutPublish, PutTag
    <2>2. client'[c].manifest = m /\ client'[c].pc = "check"
      BY <1>2, <2>1 DEF StepTo
    <2>3. Working(m, PutSteps)'
      BY <2>2 DEF Working, PutSteps
    <2>4. ~Working(m, DeleteSteps)'
      BY <2>3 DEF Separated
    <2>5. client[c].manifest # m
      BY <1>2, <2>1
    <2> QED BY <1>1, <2>4, <2>5 DEF Working
  <1>4. CASE ~PutBegin(c)
    <2>1. client[c].pc \in PutSteps /\ client[c].manifest \in Manifest
      BY <1>4, PutStepsAre DEF PutSteps
    <2>2. \E pc \in PutSteps \cup {"idle"} : \E at : \E n \in {client[c].manifest, None} : StepTo(c, pc, n, at)
      BY <1>4, PutStepsAre DEF PutSteps
    <2>3. client[c].manifest = m /\ client'[c].pc \notin DeleteSteps
      BY <1>2, <2>2 DEF StepTo, PutSteps, DeleteSteps
    <2>4. Working(m, PutSteps)
      BY <2>1, <2>3 DEF Working
    <2>5. ~Working(m, DeleteSteps)
      BY <2>4 DEF Separated
    <2> QED BY <1>1, <2>3, <2>5 DEF Working
  <1> QED BY <1>3, <1>4

(* A push keeps the rows of every undisturbed manifest in order.           *)
LEMMA PutManifestOK ==
    ASSUME LayersOnce, Types, Separated, Separated', disturbed \subseteq disturbed',
           NEW c \in Client, PutManifest(c), NEW m \in Manifest \ disturbed', ManifestOK(m)
    PROVE  ManifestOK(m)'
  <1>1. CASE client[c].manifest # m /\ client'[c].manifest # m
    BY <1>1, PutElsewhere, UntouchedManifest
  <1> SUFFICES ASSUME client[c].manifest = m \/ client'[c].manifest = m PROVE ManifestOK(m)'
    BY <1>1
  <1>2. ~Working(m, DeleteSteps) /\ ~Working(m, DeleteSteps)'
    BY PutAlone
  <1>3. /\ Closable(m) => Closable(m)'
        /\ \A k \in Index(m) : Inserted(m, k) => Inserted(m, k)'
    <2>1. 1 \in Index(m)
      BY Places
    <2> QED BY <2>1, PutPersists
  <1>4. \A d \in Client \ {c} : client'[d] = client[d]
    <2>1. \E pc, n, at : StepTo(c, pc, n, at)
      BY PutStepsAre
    <2> QED BY <2>1 DEF StepTo
  <1>5. listed \subseteq listed' /\ kept \subseteq kept'
    BY DEF PutManifest, PutBegin, PutCheck, PutRelease, PutRevive, PutStore, PutList, PutClear,
           PutRefer, PutPublish, PutTag, manifests
  <1>6. None # m
    BY OciAssumption
  <1>7. ASSUME client[c].manifest # m PROVE PutBegin(c)
    <2> SUFFICES ASSUME ~PutBegin(c) PROVE FALSE
      OBVIOUS
    <2>1. \E pc, at : \E n \in {client[c].manifest, None} : StepTo(c, pc, n, at)
      BY PutStepsAre
    <2>2. client'[c].manifest \in {client[c].manifest, None}
      BY <2>1 DEF StepTo
    <2> QED BY <1>6, <1>7, <2>2
  <1>8. m \in listed' => m \in kept' /\ Closable(m)'
    <2>1. CASE m \in listed
      BY <1>3, <1>5, <2>1 DEF ManifestOK
    <2>2. CASE m \in listed' /\ m \notin listed
      <3>1. PutList(c) /\ client[c].pc = "list" /\ client[c].manifest = m
        BY <2>2 DEF PutManifest, PutBegin, PutCheck, PutRelease, PutRevive, PutStore, PutList, PutClear,
                    PutRefer, PutPublish, PutTag, manifests, Put, At
      <3>2. m \in kept
        BY <3>1 DEF ManifestOK
      <3>3. StepTo(c, "clear", m, 1)
        BY <2>2, <3>1, PutStepsAre
      <3>4. Closer(c, m)'
        BY <3>3 DEF StepTo, Closer
      <3> QED BY <1>5, <3>2, <3>4 DEF Closable
    <2> QED BY <2>1, <2>2
  <1>9. tag' = m => m \in listed'
    <2>1. CASE tag = m
      BY <1>5, <2>1 DEF ManifestOK
    <2>2. CASE tag' = m /\ tag # m
      <3>1. client[c].pc = "tag" /\ client[c].manifest = m
        BY <2>2 DEF PutManifest, PutBegin, PutCheck, PutRelease, PutRevive, PutStore, PutList, PutClear,
                    PutRefer, PutPublish, PutTag, manifests, Put, At
      <3> QED BY <1>5, <3>1 DEF ManifestOK
    <2> QED BY <2>1, <2>2
  <1>10. status'[m] = "published" => m \in listed' /\ \A k \in Index(m) : Inserted(m, k)'
    <2>1. CASE status[m] = "published"
      <3>1. ~Working(m, {"remove", "retire"}) /\ ~Working(m, {"unlist", "remove", "retire"})
        BY <1>2 DEF Working, DeleteSteps
      <3> QED BY <1>3, <1>5, <2>1, <3>1 DEF ManifestOK
    <2>2. CASE status'[m] = "published" /\ status[m] # "published"
      <3>1. PutRelease(c) \/ PutRevive(c) \/ PutPublish(c)
        BY <2>2 DEF PutManifest, PutBegin, PutCheck, PutStore, PutList, PutClear, PutRefer, PutTag, manifests
      <3>2. PutPublish(c)
        BY <2>2, <3>1 DEF PutRelease, PutRevive, PutPublish, Put, Types, Rows
      <3>3. client[c].pc = "publish" /\ client[c].manifest = m
        BY <2>2, <3>2 DEF PutPublish, Put, At, Types, Rows
      <3> QED BY <1>3, <1>5, <3>3 DEF ManifestOK
    <2> QED BY <2>1, <2>2
  <1>11. ASSUME NEW d \in Client, client'[d].manifest = m
         PROVE  /\ client'[d].pc = "list" => m \in kept'
                /\ client'[d].pc \in {"clear", "refer", "publish", "tag"} => m \in listed'
                /\ client'[d].pc = "refer" => \A k \in Index(m) : k >= client'[d].at \/ Inserted(m, k)'
                /\ client'[d].pc = "publish" => \A k \in Index(m) : Inserted(m, k)'
                /\ client'[d].pc \notin DeleteSteps
    <2>0. client'[d].pc \notin DeleteSteps
      BY <1>2, <1>11 DEF Working
    <2>1. CASE d # c
      BY <1>3, <1>4, <1>5, <1>11, <2>0, <2>1 DEF ManifestOK
    <2>2. CASE d = c /\ PutBegin(c)
      <3>1. \E n \in Manifest : StepTo(c, "check", n, 1)
        BY <2>2, PutStepsAre DEF PutBegin, Begin, Put, At, PutCheck, PutRelease, PutRevive, PutStore,
                                 PutList, PutClear, PutRefer, PutPublish, PutTag
      <3>2. client'[c].pc = "check"
        BY <3>1 DEF StepTo
      <3> QED BY <2>0, <2>2, <3>2
    <2>3. CASE d = c /\ ~PutBegin(c)
      <3>0. client[c].manifest = m
        BY <1>7, <2>3
      <3>1. CASE client[c].pc \in {"check", "release", "revive", "publish", "tag"}
        <4>1. CASE client[c].pc # "publish"
          <5>1. \E pc \in {"idle", "check", "release", "revive", "store"} : \E n, at : StepTo(c, pc, n, at)
            BY <2>3, <3>1, <4>1, PutStepsAre
          <5>2. client'[c].pc \in {"idle", "check", "release", "revive", "store"}
            BY <5>1 DEF StepTo
          <5> QED BY <2>0, <2>3, <5>2
        <4>2. CASE client[c].pc = "publish"
          <5>1. StepTo(c, "tag", m, 1)
            BY <2>3, <3>0, <4>2, PutStepsAre
          <5>2. client'[c].pc = "tag" /\ m \in listed
            BY <3>0, <4>2, <5>1 DEF StepTo, ManifestOK
          <5> QED BY <1>5, <2>0, <2>3, <5>2
        <4> QED BY <4>1, <4>2
      <3>2. CASE client[c].pc = "store"
        <4>1. IF m \in listed THEN StepTo(c, "clear", m, 1) ELSE StepTo(c, "list", m, 1) /\ kept' = kept \cup {m}
          BY <2>3, <3>0, <3>2, PutStepsAre
        <4>2. IF m \in listed THEN client'[c].pc = "clear" ELSE client'[c].pc = "list" /\ m \in kept'
          BY <4>1 DEF StepTo
        <4> QED BY <1>5, <2>0, <2>3, <4>2
      <3>3. CASE client[c].pc = "list"
        <4>0. m \in listed' /\ \E pc \in {"idle", "clear"} : \E n, at : StepTo(c, pc, n, at)
          BY <2>3, <3>0, <3>3, PutStepsAre
        <4>1. m \in listed' /\ client'[c].pc \in {"idle", "clear"}
          BY <4>0 DEF StepTo
        <4> QED BY <2>0, <2>3, <4>1
      <3>4. CASE client[c].pc = "clear"
        <4>0. StepTo(c, "refer", m, 1)
          BY <2>3, <3>0, <3>4, PutStepsAre
        <4>1. m \in listed /\ client'[c].pc = "refer" /\ client'[c].at = 1
          BY <3>0, <3>4, <4>0 DEF StepTo, ManifestOK
        <4> QED BY <1>5, <2>0, <2>3, <4>1 DEF Index
      <3>5. CASE client[c].pc = "refer"
        <4>0. PICK i : i = client[c].at
          OBVIOUS
        <4>1. m \in listed /\ \A k \in Index(m) : k >= i \/ Inserted(m, k)
          BY <2>3, <3>0, <3>5, <4>0 DEF ManifestOK
        <4>2. /\ i \in Index(m)
              /\ refs'[m] = refs[m] \cup {Layers[m][i]}
              /\ IF Layers[m][i] \in refs[m] THEN StepTo(c, "idle", None, 0)
                 ELSE \/ StepTo(c, "publish", m, 1) /\ i = Len(Layers[m])
                      \/ StepTo(c, "refer", m, i + 1)
          BY <2>3, <3>0, <3>5, <4>0, PutStepsAre
        <4>3. Inserted(m, i)'
          BY <4>2 DEF Inserted
        <4>4. \A k \in Index(m) : k >= i + 1 \/ Inserted(m, k)'
          <5>1. \A k \in Index(m) : k >= i + 1 \/ k = i \/ ~(k >= i)
            BY <4>2, Places DEF Index
          <5> QED BY <1>3, <4>1, <4>3, <5>1
        <4>5. \/ client'[c].pc = "idle"
              \/ client'[c].pc = "publish" /\ i = Len(Layers[m])
              \/ client'[c].pc = "refer" /\ client'[c].at = i + 1
          BY <4>2 DEF StepTo
        <4>6. i = Len(Layers[m]) => \A k \in Index(m) : ~(k >= i + 1)
          BY Places DEF Index
        <4> QED BY <1>5, <2>0, <2>3, <4>1, <4>4, <4>5, <4>6
      <3>6. client[c].pc \in PutSteps
        BY <2>3, PutStepsAre DEF PutSteps
      <3> QED BY <3>1, <3>2, <3>3, <3>4, <3>5, <3>6 DEF PutSteps
    <2> QED BY <2>1, <2>2, <2>3
  <1>12. \A d \in Client : client'[d].manifest = m =>
           /\ client'[d].pc \in DeleteSteps \ {"untag"} => tag' # m
           /\ client'[d].pc \in {"remove", "retire", "sweep"} => m \notin listed'
    BY <1>11 DEF DeleteSteps
  <1> QED BY <1>8, <1>9, <1>10, <1>11, <1>12 DEF ManifestOK, Index

(* While a manifest is deleted nobody pushes it, or it is disturbed.       *)
LEMMA DeleteAlone ==
    ASSUME Types, Separated, Separated', disturbed \subseteq disturbed',
           NEW c \in Client, DeleteManifest(c), NEW m \in Manifest \ disturbed',
           client[c].manifest = m \/ client'[c].manifest = m
    PROVE  ~Working(m, PutSteps) /\ ~Working(m, PutSteps)'
  <1>1. None # m /\ "idle" \notin PutSteps
    BY OciAssumption DEF PutSteps
  <1>2. CASE client[c].pc = "idle"
    <2>1. client[c].manifest = None
      <3>1. client[c].manifest \in Manifest \cup {None} /\ client[c].manifest \notin Manifest
        BY <1>2 DEF Types, Requests, Request, RequestOK, PutSteps, DeleteSteps
      <3> QED BY <3>1
    <2>2. client'[c].manifest = m
      BY <1>1, <2>1
    <2>3. ~DeleteTag(c)
      BY <1>1, <2>1, <2>2 DEF DeleteTag
    <2>4. \E n \in Manifest : StepTo(c, "untag", n, 1)
      BY <1>2, <2>3, DeleteStepsAre
    <2>5. client'[c].pc = "untag" /\ \A d \in Client \ {c} : client'[d] = client[d]
      BY <2>4 DEF StepTo
    <2>6. Working(m, DeleteSteps)'
      BY <2>2, <2>5 DEF Working, DeleteSteps
    <2>7. ~Working(m, PutSteps)'
      BY <2>6 DEF Separated
    <2> QED BY <1>1, <2>1, <2>5, <2>7 DEF Working
  <1>3. CASE client[c].pc # "idle"
    <2>1. ~DeleteTag(c)
      BY <1>3 DEF DeleteTag, At
    <2>2. client[c].pc \in DeleteSteps /\ client[c].manifest \in Manifest
      BY <1>3, <2>1, DeleteStepsAre DEF DeleteSteps
    <2>3. \E pc \in DeleteSteps \cup {"idle"} : \E n \in {client[c].manifest, None} : \E at : StepTo(c, pc, n, at)
      BY <1>3, <2>1, DeleteStepsAre DEF DeleteSteps
    <2>4. /\ client'[c].pc \in DeleteSteps \cup {"idle"} /\ client'[c].manifest \in {client[c].manifest, None}
          /\ \A d \in Client \ {c} : client'[d] = client[d]
      BY <2>3 DEF StepTo
    <2>5. client[c].manifest = m
      BY <1>1, <2>4
    <2>6. Working(m, DeleteSteps)
      BY <2>2, <2>5 DEF Working
    <2>7. ~Working(m, PutSteps)
      BY <2>6 DEF Separated
    <2>8. client'[c].pc \notin PutSteps
      BY <2>4 DEF PutSteps, DeleteSteps
    <2> QED BY <2>4, <2>7, <2>8 DEF Working
  <1> QED BY <1>2, <1>3

(* Where nobody pushes a manifest, only its rows count.                    *)
LEMMA NobodyPuts ==
    ASSUME NEW m \in Manifest
    PROVE  ~Working(m, PutSteps) =>
              /\ Closable(m) <=> status[m] = "published"
              /\ \A k \in Index(m) : Inserted(m, k) <=> Layers[m][k] \in refs[m]
  <1>1. ASSUME ~Working(m, PutSteps) PROVE \A c \in Client : ~Closer(c, m) /\ \A k \in Index(m) : ~Inserter(c, m, k)
    BY <1>1 DEF Working, PutSteps, Closer, Inserter
  <1> QED BY <1>1 DEF Closable, Inserted

(* The same of the next state.                                             *)
LEMMA NobodyPutsNext ==
    ASSUME NEW m \in Manifest
    PROVE  ~Working(m, PutSteps)' =>
              /\ Closable(m)' <=> status'[m] = "published"
              /\ \A k \in Index(m) : Inserted(m, k)' <=> Layers[m][k] \in refs'[m]
  <1>1. ASSUME ~Working(m, PutSteps)'
        PROVE  \A c \in Client : ~Closer(c, m)' /\ \A k \in Index(m) : ~Inserter(c, m, k)'
    BY <1>1 DEF Working, PutSteps, Closer, Inserter, Index
  <1> QED BY <1>1 DEF Closable, Inserted, Index

(* So does the deletion of a manifest or a tag.                            *)
LEMMA DeleteManifestOK ==
    ASSUME Types, Separated, Separated', disturbed \subseteq disturbed',
           NEW c \in Client, DeleteManifest(c), NEW m \in Manifest \ disturbed', ManifestOK(m)
    PROVE  ManifestOK(m)'
  <1>1. CASE client[c].manifest # m /\ client'[c].manifest # m
    BY <1>1, DeleteElsewhere, UntouchedManifest
  <1> SUFFICES ASSUME client[c].manifest = m \/ client'[c].manifest = m PROVE ManifestOK(m)'
    BY <1>1
  <1>2. ~Working(m, PutSteps) /\ ~Working(m, PutSteps)'
    BY DeleteAlone
  <1>3. /\ Closable(m) <=> status[m] = "published"
        /\ \A k \in Index(m) : Inserted(m, k) <=> Layers[m][k] \in refs[m]
    BY <1>2, NobodyPuts
  <1>4. /\ Closable(m)' <=> status'[m] = "published"
        /\ \A k \in Index(m) : Inserted(m, k)' <=> Layers[m][k] \in refs'[m]
    BY <1>2, NobodyPutsNext
  <1>5. None # m
    BY OciAssumption
  (* What has to be shown, once the pushes are out of the way.             *)
  <1>6. ASSUME m \in listed' => m \in kept' /\ status'[m] = "published",
               tag' = m => m \in listed',
               status'[m] = "published" =>
                  /\ ~Working(m, {"remove", "retire"})' => m \in listed'
                  /\ ~Working(m, {"unlist", "remove", "retire"})' =>
                        \A k \in Index(m) : Layers[m][k] \in refs'[m],
               \A d \in Client : client'[d].manifest = m =>
                  /\ client'[d].pc \in DeleteSteps \ {"untag"} => tag' # m
                  /\ client'[d].pc \in {"remove", "retire", "sweep"} => m \notin listed'
        PROVE  ManifestOK(m)'
    <2>1. \A d \in Client : client'[d].manifest = m =>
             client'[d].pc \notin {"list", "clear", "refer", "publish", "tag"}
      BY <1>2 DEF Working, PutSteps
    <2> QED BY <1>4, <1>6, <2>1 DEF ManifestOK, Index
  <1>7. /\ m \in listed => m \in kept /\ status[m] = "published"
        /\ tag = m => m \in listed
        /\ status[m] = "published" =>
              /\ ~Working(m, {"remove", "retire"}) => m \in listed
              /\ ~Working(m, {"unlist", "remove", "retire"}) => \A k \in Index(m) : Layers[m][k] \in refs[m]
        /\ \A d \in Client : client[d].manifest = m =>
              /\ client[d].pc \in DeleteSteps \ {"untag"} => tag # m
              /\ client[d].pc \in {"remove", "retire", "sweep"} => m \notin listed
    BY <1>3 DEF ManifestOK
  <1>8. CASE DeleteBegin(c)
    <2>1. client[c].pc = "idle" /\ ~DeleteTag(c)
      <3>1. client[c].pc = "idle"
        BY <1>8 DEF DeleteBegin, Begin, At
      <3>2. client[c].manifest # m
        BY <3>1 DEF Types, Requests, Request, RequestOK, PutSteps, DeleteSteps
      <3>3. client' # client
        BY <3>2
      <3> QED BY <3>1, <3>3 DEF DeleteTag
    <2>2. \E n \in Manifest : StepTo(c, "untag", n, 1)
      BY <2>1, DeleteStepsAre
    <2>3. /\ client'[c].pc = "untag" /\ \A d \in Client \ {c} : client'[d] = client[d]
      BY <2>2 DEF StepTo
    <2>4. ASSUME NEW steps, "untag" \notin steps, "idle" \notin steps PROVE Working(m, steps)' <=> Working(m, steps)
      BY <2>1, <2>3, <2>4 DEF Working
    <2>5. /\ Working(m, {"remove", "retire"})' <=> Working(m, {"remove", "retire"})
          /\ Working(m, {"unlist", "remove", "retire"})' <=> Working(m, {"unlist", "remove", "retire"})
      BY <2>4
    <2>6. UNCHANGED <<status, kept, listed, refs, tag>>
      BY <1>8 DEF DeleteBegin, manifests
    <2>7. \A d \in Client : client'[d].manifest = m =>
             /\ client'[d].pc \in DeleteSteps \ {"untag"} => tag' # m
             /\ client'[d].pc \in {"remove", "retire", "sweep"} => m \notin listed'
      BY <1>7, <2>3, <2>6
    <2> QED BY <1>6, <1>7, <2>5, <2>6, <2>7
  <1>9. CASE DeleteTag(c)
    <2>1. UNCHANGED <<status, kept, listed, refs, client>> /\ tag' = None
      BY <1>9 DEF DeleteTag
    <2> QED BY <1>5, <1>6, <1>7, <2>1 DEF Working
  <1> SUFFICES ASSUME client[c].pc # "idle", client[c].manifest = m PROVE ManifestOK(m)'
    <2>1. ASSUME ~DeleteBegin(c), ~DeleteTag(c) PROVE client[c].pc # "idle" /\ client[c].manifest = m
      <3>1. client[c].pc # "idle"
        BY <2>1, DeleteStepsAre
      <3>2. \E pc, at : \E n \in {client[c].manifest, None} : StepTo(c, pc, n, at)
        BY <2>1, DeleteStepsAre
      <3>3. client'[c].manifest \in {client[c].manifest, None}
        BY <3>2 DEF StepTo
      <3> QED BY <1>5, <3>1, <3>3
    <2> QED BY <1>8, <1>9, <2>1
  <1>10. CASE DeleteUntag(c)
    <2>1. client[c].pc = "untag" /\ UNCHANGED <<status, kept, listed, refs>>
      BY <1>10 DEF DeleteUntag, At
    <2>2. StepTo(c, "unrefer", m, 1) /\ tag' # m /\ (tag' = tag \/ tag' = None)
      BY <1>5, <2>1, DeleteStepsAre DEF DeleteTag, At
    <2>3. client'[c].pc = "unrefer" /\ \A d \in Client \ {c} : client'[d] = client[d]
      BY <2>2 DEF StepTo
    <2>4. /\ Working(m, {"remove", "retire"})' <=> Working(m, {"remove", "retire"})
          /\ Working(m, {"unlist", "remove", "retire"})' <=> Working(m, {"unlist", "remove", "retire"})
      BY <2>1, <2>3 DEF Working
    <2>5. \A d \in Client : client'[d].manifest = m =>
             /\ client'[d].pc \in DeleteSteps \ {"untag"} => tag' # m
             /\ client'[d].pc \in {"remove", "retire", "sweep"} => m \notin listed'
      BY <1>7, <2>1, <2>2, <2>3
    <2> QED BY <1>6, <1>7, <2>1, <2>2, <2>4, <2>5
  <1>11. CASE DeleteReferences(c)
    <2>1. client[c].pc = "unrefer" /\ UNCHANGED <<status, kept, listed, tag>>
      BY <1>11 DEF DeleteReferences, At
    <2>2. StepTo(c, "unlist", m, 1)
      BY <2>1, DeleteStepsAre DEF DeleteTag, At
    <2>3. /\ client'[c].pc = "unlist" /\ client'[c].manifest = m
          /\ \A d \in Client \ {c} : client'[d] = client[d]
      BY <2>2 DEF StepTo
    <2>4. /\ Working(m, {"remove", "retire"})' <=> Working(m, {"remove", "retire"})
          /\ Working(m, {"unlist", "remove", "retire"})'
      BY <2>1, <2>3 DEF Working
    <2>5. \A d \in Client : client'[d].manifest = m =>
             /\ client'[d].pc \in DeleteSteps \ {"untag"} => tag' # m
             /\ client'[d].pc \in {"remove", "retire", "sweep"} => m \notin listed'
      BY <1>7, <2>1, <2>3 DEF DeleteSteps
    <2> QED BY <1>6, <1>7, <2>1, <2>4, <2>5
  <1>12. CASE DeleteRow(c)
    <2>1. client[c].pc = "unlist" /\ UNCHANGED <<status, kept, refs, tag>>
      BY <1>12 DEF DeleteRow, At
    <2>2. StepTo(c, "remove", m, 1) /\ listed' = listed \ {m}
      BY <2>1, DeleteStepsAre DEF DeleteTag, At
    <2>3. /\ client'[c].pc = "remove" /\ client'[c].manifest = m
          /\ \A d \in Client \ {c} : client'[d] = client[d]
      BY <2>2 DEF StepTo
    <2>4. Working(m, {"remove", "retire"})' /\ Working(m, {"unlist", "remove", "retire"})'
      BY <2>3 DEF Working
    <2>5. tag # m
      BY <1>7, <2>1 DEF DeleteSteps
    <2> QED BY <1>6, <2>1, <2>2, <2>4, <2>5
  <1>13. CASE DeleteObject(c)
    <2>1. client[c].pc = "remove" /\ UNCHANGED <<status, listed, refs, tag>>
      BY <1>13 DEF DeleteObject, At
    <2>2. StepTo(c, "retire", m, 1)
      BY <2>1, DeleteStepsAre DEF DeleteTag, At
    <2>3. /\ client'[c].pc = "retire" /\ client'[c].manifest = m
          /\ \A d \in Client \ {c} : client'[d] = client[d]
      BY <2>2 DEF StepTo
    <2>4. Working(m, {"remove", "retire"})' /\ Working(m, {"unlist", "remove", "retire"})'
      BY <2>3 DEF Working
    <2>5. tag # m /\ m \notin listed
      BY <1>7, <2>1 DEF DeleteSteps
    <2> QED BY <1>6, <2>1, <2>4, <2>5
  <1>14. CASE DeleteRelease(c)
    <2>1. client[c].pc = "retire" /\ UNCHANGED <<listed, tag>>
      BY <1>14 DEF DeleteRelease, At
    <2>2. status'[m] = "deleted"
      BY <2>1, DeleteStepsAre DEF DeleteTag, At
    <2>3. tag # m /\ m \notin listed
      BY <1>7, <2>1 DEF DeleteSteps
    <2> QED BY <1>6, <2>1, <2>2, <2>3
  <1>15. CASE DeleteSchedule(c)
    <2>1. client[c].pc = "sweep" /\ UNCHANGED <<status, kept, listed, refs, tag>>
      BY <1>15 DEF DeleteSchedule, manifests, At
    <2>2. StepTo(c, "idle", None, 0)
      BY <2>1, DeleteStepsAre DEF DeleteTag, At
    <2>3. client'[c].manifest = None /\ \A d \in Client \ {c} : client'[d] = client[d]
      BY <2>2 DEF StepTo
    <2>4. /\ Working(m, {"remove", "retire"})' <=> Working(m, {"remove", "retire"})
          /\ Working(m, {"unlist", "remove", "retire"})' <=> Working(m, {"unlist", "remove", "retire"})
      BY <1>5, <2>1, <2>3 DEF Working
    <2>5. tag # m /\ m \notin listed
      BY <1>7, <2>1 DEF DeleteSteps
    <2> QED BY <1>6, <1>7, <2>1, <2>4, <2>5
  <1> QED BY <1>8, <1>9, <1>10, <1>11, <1>12, <1>13, <1>14, <1>15 DEF DeleteManifest

-----------------------------------------------------------------------------
(* What the step of an upload or of the deletion of a blob does to its     *)
(* request, and to the blob.                                               *)
BlobStep(c, pc, b) ==
    /\ client'[c].pc = pc /\ client'[c].blob = b /\ client'[c].manifest = None
    /\ \A d \in Client \ {c} : client'[d] = client[d]

(* The deletion of a blob begins with one no manifest refers to.           *)
LEMMA DropBeginIs ==
    ASSUME Types, NEW c \in Client, DropBegin(c)
    PROVE  /\ client[c].pc = "idle"
           /\ \E b \in Blob : ~Referenced(b) /\ BlobStep(c, "drop object", b)
  <1>1. PICK x \in stored : ~Referenced(x) /\ Begin(c, "drop object", x, None)
    BY DEF DropBegin
  <1>2. x \in Blob
    BY DEF Types, Rows
  <1>3. Now(c, [pc |-> "drop object", blob |-> x, manifest |-> None, at |-> 1])
    BY <1>1, <1>2, BeginMoves DEF Types, Requests, DropSteps
  <1>4. BlobStep(c, "drop object", x) /\ client[c].pc = "idle"
    BY <1>1, <1>3 DEF Begin, At, Now, BlobStep
  <1> QED BY <1>1, <1>2, <1>4

(* The steps of an upload and of the deletion of a blob, each with where   *)
(* it leaves the request and the rows it writes.                           *)
LEMMA BlobStepsAre ==
    ASSUME Types, NEW c \in Client, Upload(c) \/ UploadUndone(c) \/ DropBlob(c)
    PROVE  /\ client[c].manifest = None
           /\ \/ /\ UploadObject(c) /\ client[c].pc = "idle"
                 /\ \E b \in Blob : BlobStep(c, "record", b) /\ stored' = stored \cup {b}
              \/ /\ DropBegin(c) /\ client[c].pc = "idle"
                 /\ \E b \in Blob : BlobStep(c, "drop object", b) /\ ~Referenced(b)
              \/ \E b \in Blob : client[c].blob = b /\
                 \/ /\ UploadRecord(c) /\ client[c].pc = "record" /\ BlobStep(c, "schedule", b)
                    /\ \A x \in Blob : inventory'[x] = IF x = b THEN "fresh" ELSE inventory[x]
                 \/ /\ UploadUndone(c) /\ client[c].pc = "record" /\ BlobStep(c, "idle", None)
                    /\ stored' = stored \ {b}
                 \/ /\ UploadSchedule(c) /\ client[c].pc = "schedule" /\ BlobStep(c, "idle", None)
                    /\ later' = later \cup {b}
                 \/ /\ DropObject(c) /\ client[c].pc = "drop object" /\ BlobStep(c, "drop row", b)
                    /\ stored' = stored \ {b}
                 \/ /\ DropRow(c) /\ client[c].pc = "drop row" /\ BlobStep(c, "idle", None)
                    /\ \A x \in Blob : inventory'[x] = IF x = b THEN "absent" ELSE inventory[x]
  <1>0. /\ client \in [Client -> Request] /\ RequestOK(client[c]) /\ client[c] \in Request
        /\ inventory \in [Blob -> {"absent", "fresh", "aged"}] /\ stored \subseteq Blob
    BY DEF Types, Requests, Rows
  <1> DEFINE b == client[c].blob
  <1>1. ASSUME client[c].pc \in {"idle"} \cup UploadSteps \cup DropSteps PROVE client[c].manifest = None
    <2>1. client[c].manifest \notin Manifest
      BY <1>0, <1>1 DEF RequestOK, UploadSteps, DropSteps, PutSteps, DeleteSteps
    <2> QED BY <1>0, <2>1 DEF Request
  <1>2. ASSUME client[c].pc \in UploadSteps \cup DropSteps
        PROVE  /\ b \in Blob
               /\ \A pc \in UploadSteps \cup DropSteps : Goto(c, pc) => BlobStep(c, pc, b)
    <2>1. b \in Blob
      BY <1>0, <1>2 DEF RequestOK
    <2>2. ASSUME NEW pc \in UploadSteps \cup DropSteps, Goto(c, pc) PROVE BlobStep(c, pc, b)
      <3>1. Now(c, At1(c, pc))
        BY <1>0, <2>2, GotoMoves
      <3>2. client[c].manifest = None
        BY <1>1, <1>2
      <3> QED BY <3>1, <3>2 DEF Now, At1, BlobStep
    <2> QED BY <2>1, <2>2
  <1>3. ASSUME Finish(c) PROVE BlobStep(c, "idle", None)
    BY <1>0, <1>3, FinishMoves DEF Now, Quiet, BlobStep
  <1>4. ASSUME NEW x \in Blob, Begin(c, "record", x, None)
        PROVE  client[c].pc = "idle" /\ BlobStep(c, "record", x)
    <2>1. Now(c, [pc |-> "record", blob |-> x, manifest |-> None, at |-> 1])
      BY <1>0, <1>4, BeginMoves DEF UploadSteps, DropSteps
    <2> QED BY <1>4, <2>1 DEF Begin, At, Now, BlobStep
  <1>5. CASE UploadObject(c)
    <2>1. PICK x \in Blob : Begin(c, "record", x, None) /\ stored' = stored \cup {x}
      BY <1>5 DEF UploadObject
    <2> QED BY <1>1, <1>4, <1>5, <2>1
  <1>6. CASE DropBegin(c)
    BY <1>1, <1>6, DropBeginIs
  <1>7. CASE UploadRecord(c)
    <2>1. client[c].pc = "record" /\ inventory' = [inventory EXCEPT ![b] = "fresh"] /\ Goto(c, "schedule")
      BY <1>7 DEF UploadRecord, At, Recorded
    <2>2. b \in Blob /\ BlobStep(c, "schedule", b)
      BY <1>2, <2>1 DEF UploadSteps
    <2>3. \A x \in Blob : inventory'[x] = IF x = b THEN "fresh" ELSE inventory[x]
      BY <1>0, <2>1, <2>2
    <2> QED BY <1>1, <1>7, <2>1, <2>2, <2>3 DEF UploadSteps
  <1>8. CASE UploadUndone(c)
    <2>1. client[c].pc = "record" /\ stored' = stored \ {b} /\ Finish(c)
      BY <1>8 DEF UploadUndone, At
    <2> QED BY <1>1, <1>2, <1>3, <1>8, <2>1 DEF UploadSteps
  <1>9. CASE UploadSchedule(c)
    <2>1. client[c].pc = "schedule" /\ later' = later \cup {b} /\ Finish(c)
      BY <1>9 DEF UploadSchedule, At
    <2> QED BY <1>1, <1>2, <1>3, <1>9, <2>1 DEF UploadSteps
  <1>10. CASE DropObject(c)
    <2>1. client[c].pc = "drop object" /\ stored' = stored \ {b} /\ Goto(c, "drop row")
      BY <1>10 DEF DropObject, At
    <2>2. b \in Blob /\ BlobStep(c, "drop row", b)
      BY <1>2, <2>1 DEF DropSteps
    <2> QED BY <1>1, <1>10, <2>1, <2>2 DEF DropSteps
  <1>11. CASE DropRow(c)
    <2>1. client[c].pc = "drop row" /\ inventory' = [inventory EXCEPT ![b] = "absent"] /\ Finish(c)
      BY <1>11 DEF DropRow, At
    <2>2. b \in Blob /\ BlobStep(c, "idle", None)
      BY <1>2, <1>3, <2>1 DEF DropSteps
    <2>3. \A x \in Blob : inventory'[x] = IF x = b THEN "absent" ELSE inventory[x]
      BY <1>0, <2>1, <2>2
    <2> QED BY <1>1, <1>11, <2>1, <2>2, <2>3 DEF DropSteps
  <1> QED BY <1>5, <1>6, <1>7, <1>8, <1>9, <1>10, <1>11 DEF Upload, DropBlob

(* Uploads, deletions of blobs, clean-ups and time leave the manifests and *)
(* their requests alone.                                                   *)
LEMMA BlobsElsewhere ==
    ASSUME Types, NEW m \in Manifest,
           NEW c \in Client, Upload(c) \/ UploadUndone(c) \/ DropBlob(c)
    PROVE  Untouched(m)
  <1>1. UNCHANGED manifests
    BY DEF Upload, UploadObject, UploadRecord, UploadUndone, UploadSchedule, DropBlob, DropBegin,
           DropObject, DropRow
  <1>2. client[c].manifest = None /\ \E pc, b : BlobStep(c, pc, b)
    BY BlobStepsAre
  <1>3. client[c].manifest # m /\ client'[c].manifest # m /\ \A d \in Client \ {c} : client'[d] = client[d]
    BY <1>2, OciAssumption DEF BlobStep
  <1> QED BY <1>1, <1>3 DEF Untouched, manifests

(* Time and the clean-up touch no manifest.                                *)
LEMMA OthersElsewhere ==
    ASSUME NEW m \in Manifest,
           \/ UNCHANGED vars
           \/ \E b \in Blob : Age(b) \/ CleanupDue(b)
           \/ \E s \in Sweeper : Sweep(s)
    PROVE  Untouched(m) /\ client' = client
  <1>1. UNCHANGED <<manifests, client>>
    BY DEF vars, Age, CleanupDue, Sweep, SweepSelect, SweepObject, SweepRow, SweepFails
  <1> QED BY <1>1 DEF Untouched, manifests

(* A request that breaks off leaves those alone that it does not work with.*)
LEMMA FailsElsewhere ==
    ASSUME Types, NEW c \in Client, RequestFails(c), NEW m \in Manifest, client[c].manifest # m
    PROVE  Untouched(m)
  <1>1. Now(c, Quiet)
    BY FinishMoves DEF RequestFails, Types, Requests
  <1>2. client'[c].manifest # m /\ \A d \in Client \ {c} : client'[d] = client[d]
    BY <1>1, OciAssumption DEF Now, Quiet
  <1> QED BY <1>2 DEF RequestFails, Untouched, manifests

(* The manifest it works with, and the blobs of it, are disturbed.         *)
LEMMA FailsDisturbs ==
    ASSUME Types, NEW c \in Client, Uses(c) \cup Removes(c) \subseteq disturbed'
    PROVE  /\ \A m \in Manifest : client[c].manifest = m =>
                 /\ m \in disturbed'
                 /\ \A k \in Index(m) : Layers[m][k] \in disturbed'
           /\ \A b \in Blob : client[c].blob = b => b \in disturbed'
  <1>0. client \in [Client -> Request] /\ RequestOK(client[c])
    BY DEF Types, Requests
  <1>1. ASSUME NEW m \in Manifest, client[c].manifest = m
        PROVE  m \in disturbed' /\ \A k \in Index(m) : Layers[m][k] \in disturbed'
    <2>1. client[c].pc \in PutSteps \cup DeleteSteps
      BY <1>0, <1>1 DEF RequestOK
    <2>2. m \in Uses(c) \cup Removes(c) /\ BlobsOf(m) \subseteq Uses(c)
      BY <1>0, <1>1, <2>1, UsedAndRemoved
    <2> QED BY <2>2, Places
  <1>2. ASSUME NEW b \in Blob, client[c].blob = b PROVE b \in disturbed'
    <2>1. client[c].pc \in UploadSteps \cup DropSteps
      BY <1>0, <1>2 DEF RequestOK
    <2> QED BY <1>0, <1>2, <2>1, UsedAndRemoved
  <1> QED BY <1>1, <1>2

(* Every step keeps the rows of the undisturbed manifests in order.        *)
LEMMA ManifestsStayOK ==
    ASSUME LayersOnce, Types, Apart, disturbed \subseteq Blob \cup Manifest, [Next]_vars,
           NEW m \in Manifest \ disturbed', ManifestOK(m)
    PROVE  ManifestOK(m)'
  <1>1. /\ Separated /\ Separated' /\ disturbed \subseteq disturbed'
        /\ \A c \in Client : UploadUndone(c) \/ RequestFails(c) => Uses(c) \cup Removes(c) \subseteq disturbed'
    BY HistoryNext, Separate
  <1>2. ASSUME NEW c \in Client, Upload(c) \/ UploadUndone(c) \/ DropBlob(c) PROVE ManifestOK(m)'
    BY <1>2, BlobsElsewhere, UntouchedManifest
  <1>3. ASSUME NEW c \in Client, PutManifest(c) PROVE ManifestOK(m)'
    BY <1>1, <1>3, PutManifestOK
  <1>4. ASSUME NEW c \in Client, DeleteManifest(c) PROVE ManifestOK(m)'
    BY <1>1, <1>4, DeleteManifestOK
  <1>5. ASSUME NEW c \in Client, RequestFails(c) PROVE ManifestOK(m)'
    BY <1>1, <1>5, FailsElsewhere, FailsDisturbs, UntouchedManifest
  <1>6. CASE \/ UNCHANGED vars
             \/ \E b \in Blob : Age(b) \/ CleanupDue(b)
             \/ \E s \in Sweeper : Sweep(s)
    BY <1>6, OthersElsewhere, UntouchedManifest
  <1> QED BY <1>2, <1>3, <1>4, <1>5, <1>6 DEF Next

-----------------------------------------------------------------------------
(* The blobs of a manifest.                                                *)

(* A step of a push or a deletion has no say in which blobs there are.     *)
LEMMA ManifestStepsKeepBlobs ==
    ASSUME Types, NEW c \in Client, PutManifest(c) \/ DeleteManifest(c)
    PROVE  /\ UNCHANGED <<stored, inventory, later, sweep>> /\ (due => due')
           /\ \A b \in Blob : /\ BeingDropped(b)' <=> BeingDropped(b)
                              /\ BeingSwept(b)' <=> BeingSwept(b)
                              /\ BeingUploaded(b)' <=> BeingUploaded(b)
           /\ \A d \in Client, b \in Blob : client'[d].blob = b => client'[d] = client[d]
  <1>1. UNCHANGED <<stored, inventory, later, sweep>> /\ (due => due')
    BY DEF PutManifest, PutBegin, PutCheck, PutRelease, PutRevive, PutStore, PutList, PutClear, PutRefer,
           PutPublish, PutTag, DeleteManifest, DeleteTag, DeleteBegin, DeleteUntag, DeleteReferences,
           DeleteRow, DeleteObject, DeleteRelease, DeleteSchedule, blobs, jobs
  <1>2. \/ client' = client
        \/ /\ client[c].pc = "idle" \/ client[c].pc \in PutSteps \cup DeleteSteps
           /\ \E pc, n, at : StepTo(c, pc, n, at)
    <2>1. CASE PutManifest(c)
      BY <2>1, PutStepsAre DEF PutSteps
    <2>2. CASE DeleteManifest(c)
      BY <2>2, DeleteStepsAre DEF DeleteSteps
    <2> QED BY <2>1, <2>2
  <1>3. \A b \in Blob, d \in Client : client'[d].blob = b \/ client[d].blob = b => client'[d] = client[d]
    <2>1. CASE client' = client
      BY <2>1
    <2>2. CASE /\ client[c].pc = "idle" \/ client[c].pc \in PutSteps \cup DeleteSteps
               /\ \E pc, n, at : StepTo(c, pc, n, at)
      <3>1. client[c].blob \notin Blob
        BY <2>2 DEF Types, Requests, RequestOK, UploadSteps, DropSteps, PutSteps, DeleteSteps
      <3>2. client'[c].blob = None /\ \A d \in Client \ {c} : client'[d] = client[d]
        BY <2>2 DEF StepTo
      <3> QED BY <3>1, <3>2, OciAssumption
    <2> QED BY <1>2, <2>1, <2>2
  <1> QED BY <1>1, <1>3 DEF BeingDropped, BeingSwept, BeingUploaded

(* Only a deletion or a clean-up that has a blob in hand removes it, and   *)
(* it takes in hand what no published manifest refers to.                  *)
LEMMA RemovalsAre ==
    ASSUME Types, [Next]_vars, NEW b \in Blob \ disturbed',
           \A c \in Client : UploadUndone(c) \/ RequestFails(c) => Uses(c) \cup Removes(c) \subseteq disturbed'
    PROVE  /\ b \in stored /\ ~BeingDropped(b) /\ ~BeingSwept(b) => b \in stored'
           /\ \/ ~BeingDropped(b) /\ BeingDropped(b)'
              \/ ~BeingSwept(b) /\ BeingSwept(b)'
              => ~Referenced(b) /\ \A m \in Manifest : Untouched(m)
  <1>0. /\ sweep \in [Sweeper -> Batch]
        /\ \A s \in Sweeper : sweep[s].current \in sweep[s].todo \cup {None}
        /\ None # b
    BY OciAssumption DEF Types, Sweeps
  <1> DEFINE Kept == b \in stored /\ ~BeingDropped(b) /\ ~BeingSwept(b) => b \in stored'
             Dropped == ~BeingDropped(b) /\ BeingDropped(b)' => ~Referenced(b)
             Swept == ~BeingSwept(b) /\ BeingSwept(b)' => ~Referenced(b)
             Alone == \A m \in Manifest : Untouched(m)
             Same == (BeingDropped(b)' => BeingDropped(b)) /\ (BeingSwept(b)' => BeingSwept(b))
  <1>1. ASSUME NEW c \in Client, PutManifest(c) \/ DeleteManifest(c) PROVE Kept /\ Same
    BY <1>1, ManifestStepsKeepBlobs
  <1>2. ASSUME NEW c \in Client, Upload(c) \/ UploadUndone(c) \/ DropBlob(c)
        PROVE  Kept /\ Dropped /\ Swept /\ Alone
    <2>1. Alone
      BY <1>2, BlobsElsewhere
    <2>2. UNCHANGED sweep
      BY <1>2 DEF Upload, UploadObject, UploadRecord, UploadUndone, UploadSchedule, DropBlob, DropBegin,
                  DropObject, DropRow
    <2>3. Swept
      BY <2>2 DEF BeingSwept
    <2>4. CASE DropBegin(c)
      <3>1. PICK x \in Blob : ~Referenced(x) /\ BlobStep(c, "drop object", x)
        BY <2>4, DropBeginIs
      <3>5. ~BeingDropped(b) /\ BeingDropped(b)' => x = b
        BY <3>1 DEF BlobStep, BeingDropped
      <3>2. Dropped
        BY <3>1, <3>5
      <3>3. stored' = stored
        BY <2>4 DEF DropBegin, blobs
      <3> QED BY <2>1, <2>3, <3>2, <3>3
    <2>5. CASE ~DropBegin(c)
      <3>1. BeingDropped(b)' => BeingDropped(b)
        <4>1. \/ \E pc \in {"record", "schedule", "idle"} : \E x : BlobStep(c, pc, x)
              \/ client[c].pc = "drop object" /\ BlobStep(c, "drop row", client[c].blob)
          BY <1>2, <2>5, BlobStepsAre
        <4>2. \/ client'[c].pc \notin DropSteps
              \/ client[c].pc \in DropSteps /\ client'[c].blob = client[c].blob
          BY <4>1 DEF BlobStep, DropSteps
        <4>3. \A d \in Client \ {c} : client'[d] = client[d]
          BY <4>1 DEF BlobStep
        <4> QED BY <4>2, <4>3 DEF BeingDropped
      <3>2. Kept
        <4>1. CASE UploadObject(c)
          BY <4>1 DEF UploadObject
        <4>2. CASE UploadRecord(c) \/ UploadSchedule(c) \/ DropRow(c)
          BY <4>2 DEF UploadRecord, UploadSchedule, DropRow, blobs
        <4>3. CASE UploadUndone(c)
          BY <4>3, FailsDisturbs DEF UploadUndone
        <4>4. CASE DropObject(c)
          BY <4>4 DEF DropObject, At, BeingDropped, DropSteps
        <4> QED BY <1>2, <2>5, <4>1, <4>2, <4>3, <4>4 DEF Upload, DropBlob
      <3> QED BY <2>1, <2>3, <3>1, <3>2
    <2> QED BY <2>4, <2>5
  <1>3. ASSUME NEW c \in Client, RequestFails(c) PROVE Kept /\ Same
    <2>1. UNCHANGED <<stored, sweep>> /\ Finish(c)
      BY <1>3 DEF RequestFails, blobs
    <2>2. Now(c, Quiet)
      BY <2>1, FinishMoves DEF Types, Requests
    <2>3. client'[c].pc = "idle" /\ \A d \in Client \ {c} : client'[d] = client[d]
      BY <2>2 DEF Now, Quiet
    <2> QED BY <2>1, <2>3 DEF BeingDropped, BeingSwept, DropSteps
  <1>4. CASE UNCHANGED vars
    BY <1>4 DEF vars, blobs, BeingDropped, BeingSwept
  <1>5. ASSUME NEW x \in Blob, Age(x) \/ CleanupDue(x) PROVE Kept /\ Same
    BY <1>5 DEF Age, CleanupDue, blobs, BeingDropped, BeingSwept
  <1>6. ASSUME NEW s \in Sweeper, Sweep(s) PROVE Kept /\ Dropped /\ Swept /\ Alone
    <2>1. Alone /\ client' = client
      BY <1>6, OthersElsewhere DEF Sweep, SweepSelect, SweepObject, SweepRow, SweepFails
    <2>2. Dropped
      BY <2>1 DEF BeingDropped
    <2>3. CASE SweepSelect(s)
      <3>1. PICK S \in SUBSET Candidates :
               sweep' = [sweep EXCEPT ![s].todo = S, ![s].full = (Cardinality(S) = BatchSize)]
        BY <2>3 DEF SweepSelect
      <3>2. sweep'[s].todo = S /\ \A t \in Sweeper \ {s} : sweep'[t] = sweep[t]
        BY <1>0, <3>1 DEF Batch
      <3>3. Swept
        BY <3>2 DEF BeingSwept, Candidates
      <3> QED BY <2>1, <2>2, <2>3, <3>3 DEF SweepSelect, blobs
    <2>4. CASE SweepObject(s)
      <3>1. PICK x \in sweep[s].todo : stored' = stored \ {x} /\ sweep' = [sweep EXCEPT ![s].current = x]
        BY <2>4 DEF SweepObject
      <3>2. \A t \in Sweeper : sweep'[t].todo = sweep[t].todo
        BY <1>0, <3>1 DEF Batch
      <3> QED BY <2>1, <2>2, <3>1, <3>2 DEF BeingSwept
    <2>5. CASE SweepRow(s)
      <3>1. \A t \in Sweeper : sweep'[t].todo \subseteq sweep[t].todo
        <4>1. CASE sweep[s].todo = {sweep[s].current}
          BY <1>0, <2>5, <4>1 DEF SweepRow, Resting
        <4>2. CASE sweep[s].todo # {sweep[s].current}
          <5>1. sweep' = [sweep EXCEPT ![s].todo = sweep[s].todo \ {sweep[s].current}, ![s].current = None]
            BY <2>5, <4>2 DEF SweepRow
          <5>2. sweep'[s].todo = sweep[s].todo \ {sweep[s].current} /\ \A t \in Sweeper \ {s} : sweep'[t] = sweep[t]
            BY <1>0, <5>1 DEF Batch
          <5> QED BY <5>2
        <4> QED BY <4>1, <4>2
      <3>2. stored' = stored
        BY <2>5 DEF SweepRow
      <3> QED BY <2>1, <2>2, <3>1, <3>2 DEF BeingSwept
    <2>6. CASE SweepFails(s)
      <3>1. \A t \in Sweeper : sweep'[t].todo \subseteq sweep[t].todo
        BY <1>0, <2>6 DEF SweepFails, Resting
      <3> QED BY <2>1, <2>2, <2>6, <3>1 DEF BeingSwept, SweepFails, blobs
    <2> QED BY <1>6, <2>3, <2>4, <2>5, <2>6 DEF Sweep
  <1> QED BY <1>1, <1>2, <1>3, <1>4, <1>5, <1>6 DEF Next

(* The blobs of a manifest, seen one by one: while it is published they    *)
(* are stored and in nobody's hand, and a push that has checked them finds *)
(* them until it ends.                                                     *)
Needed(m) == status[m] = "published" /\ ~Working(m, {"unlist", "remove", "retire"})
Checked(m, k) ==
    \E c \in Client : client[c].manifest = m /\
        \/ client[c].pc \in PutSteps \ {"check"}
        \/ client[c].pc = "check" /\ k < client[c].at

(* LayersOK in these terms.                                                *)
LEMMA LayersAre ==
    ASSUME NEW m \in Manifest
    PROVE  LayersOK(m) <=>
             \A k \in Index(m) : Layers[m][k] \notin disturbed =>
                /\ Needed(m) => /\ Layers[m][k] \in stored
                                /\ ~BeingDropped(Layers[m][k]) /\ ~BeingSwept(Layers[m][k])
                /\ Checked(m, k) => Layers[m][k] \in stored
  <1>1. ASSUME NEW k \in Index(m)
        PROVE  (Checked(m, k) => Layers[m][k] \in stored) <=>
               \A c \in Client : client[c].manifest = m =>
                  /\ client[c].pc \in PutSteps \ {"check"} => Layers[m][k] \in stored
                  /\ client[c].pc = "check" /\ k < client[c].at => Layers[m][k] \in stored
    BY DEF Checked
  <1> QED BY <1>1 DEF LayersOK, Needed

(* The same of the next state.                                             *)
LEMMA LayersAreNext ==
    ASSUME NEW m \in Manifest
    PROVE  LayersOK(m)' <=>
             \A k \in Index(m) : Layers[m][k] \notin disturbed' =>
                /\ Needed(m)' => /\ Layers[m][k] \in stored'
                                 /\ ~BeingDropped(Layers[m][k])' /\ ~BeingSwept(Layers[m][k])'
                /\ Checked(m, k)' => Layers[m][k] \in stored'
  <1>1. ASSUME NEW k \in Index(m)
        PROVE  (Checked(m, k)' => Layers[m][k] \in stored') <=>
               \A c \in Client : client'[c].manifest = m =>
                  /\ client'[c].pc \in PutSteps \ {"check"} => Layers[m][k] \in stored'
                  /\ client'[c].pc = "check" /\ k < client'[c].at => Layers[m][k] \in stored'
    BY DEF Checked
  <1> QED BY <1>1 DEF LayersOK, Needed, Index

(* A step that leaves a manifest alone.                                    *)
LEMMA UntouchedLayers ==
    ASSUME Types, [Next]_vars, Separated, Separated', disturbed \subseteq disturbed',
           \A c \in Client : UploadUndone(c) \/ RequestFails(c) => Uses(c) \cup Removes(c) \subseteq disturbed',
           NEW m \in Manifest \ disturbed', Untouched(m), ManifestOK(m), LayersOK(m)
    PROVE  LayersOK(m)'
  <1> SUFFICES ASSUME NEW k \in Index(m), Layers[m][k] \notin disturbed'
               PROVE  /\ Needed(m)' => /\ Layers[m][k] \in stored'
                                       /\ ~BeingDropped(Layers[m][k])' /\ ~BeingSwept(Layers[m][k])'
                      /\ Checked(m, k)' => Layers[m][k] \in stored'
    BY LayersAreNext
  <1>1. PICK b \in Blob \ disturbed' : b = Layers[m][k]
    BY Places
  <1>2. /\ Needed(m) => b \in stored /\ ~BeingDropped(b) /\ ~BeingSwept(b)
        /\ Checked(m, k) => b \in stored
    BY <1>1, LayersAre
  <1>3. /\ b \in stored /\ ~BeingDropped(b) /\ ~BeingSwept(b) => b \in stored'
        /\ \/ ~BeingDropped(b) /\ BeingDropped(b)'
           \/ ~BeingSwept(b) /\ BeingSwept(b)'
           => ~Referenced(b) /\ \A n \in Manifest : Untouched(n)
    BY RemovalsAre
  <1>4. (Needed(m)' <=> Needed(m)) /\ (Checked(m, k)' <=> Checked(m, k))
    <2>1. Working(m, {"unlist", "remove", "retire"})' <=> Working(m, {"unlist", "remove", "retire"})
      BY UntouchedWork
    <2> QED BY <2>1 DEF Untouched, Needed, Checked
  <1>5. Checked(m, k) => b \in stored'
    <2>1. Checked(m, k) => Working(m, PutSteps)
      BY DEF Checked, Working, PutSteps
    <2>2. b \in BlobsOf(m) /\ b \notin disturbed
      BY <1>1, Places
    <2>3. Checked(m, k) => ~BeingDropped(b) /\ ~BeingSwept(b)
      BY <2>1, <2>2 DEF Separated, Working
    <2> QED BY <1>2, <1>3, <2>3
  <1>6. ASSUME Needed(m) PROVE b \in stored' /\ ~BeingDropped(b)' /\ ~BeingSwept(b)'
    <2>1. b \in stored' /\ ~BeingDropped(b) /\ ~BeingSwept(b)
      BY <1>2, <1>3, <1>6
    <2>2. ASSUME BeingDropped(b)' \/ BeingSwept(b)' PROVE FALSE
      <3>1. ~Referenced(b)
        BY <1>3, <2>1, <2>2
      <3>2. status[m] = "published" /\ ~Working(m, {"unlist", "remove", "retire"})
        BY <1>6 DEF Needed
      <3>3. Inserted(m, k)
        BY <3>2 DEF ManifestOK
      <3>4. b \notin refs[m]
        BY <3>1, <3>2 DEF Referenced
      <3>5. \E c \in Client : Inserter(c, m, k)
        BY <1>1, <3>3, <3>4 DEF Inserted
      <3>6. Working(m, PutSteps)
        BY <3>5 DEF Inserter, Working, PutSteps
      <3>7. Working(m, PutSteps)'
        BY <3>6, UntouchedWork
      <3>8. Working(m, PutSteps \cup DeleteSteps)'
        BY <3>7 DEF Working
      <3>9. b \in BlobsOf(m)
        BY <1>1, Places
      <3> QED BY <2>2, <3>8, <3>9 DEF Separated
    <2> QED BY <2>1, <2>2
  <1> QED BY <1>1, <1>4, <1>5, <1>6

(* The manifest that is pushed.                                            *)
LEMMA PutLayersOK ==
    ASSUME Types, Separated', disturbed \subseteq disturbed',
           NEW c \in Client, PutManifest(c), NEW m \in Manifest \ disturbed', LayersOK(m),
           client[c].manifest = m \/ client'[c].manifest = m
    PROVE  LayersOK(m)'
  <1> SUFFICES ASSUME NEW k \in Index(m), Layers[m][k] \notin disturbed'
               PROVE  /\ Needed(m)' => /\ Layers[m][k] \in stored'
                                       /\ ~BeingDropped(Layers[m][k])' /\ ~BeingSwept(Layers[m][k])'
                      /\ Checked(m, k)' => Layers[m][k] \in stored'
    BY LayersAreNext
  <1>1. PICK b \in Blob \ disturbed' : b = Layers[m][k]
    BY Places
  <1>2. /\ Needed(m) => b \in stored /\ ~BeingDropped(b) /\ ~BeingSwept(b)
        /\ Checked(m, k) => b \in stored
    BY <1>1, LayersAre
  <1>3. stored' = stored /\ (BeingDropped(b)' <=> BeingDropped(b)) /\ (BeingSwept(b)' <=> BeingSwept(b))
    BY ManifestStepsKeepBlobs
  <1>4. None # m /\ k \in Nat
    BY OciAssumption, Places DEF Index
  <1>5. \A d \in Client \ {c} : client'[d] = client[d]
    <2>1. \E pc, n, at : StepTo(c, pc, n, at)
      BY PutStepsAre
    <2> QED BY <2>1 DEF StepTo
  (* The request itself knows more only when it has found the blob.        *)
  <1>6. Checked(m, k)' => b \in stored
    <2>1. ASSUME NEW d \in Client, client'[d].manifest = m,
                 \/ client'[d].pc \in PutSteps \ {"check"}
                 \/ client'[d].pc = "check" /\ k < client'[d].at
          PROVE  b \in stored
      <3>1. CASE d # c
        BY <1>2, <1>5, <2>1, <3>1 DEF Checked
      <3>2. CASE d = c /\ client[c].pc = "idle"
        <4>1. \E n \in Manifest : StepTo(c, "check", n, 1)
          BY <3>2, PutStepsAre
        <4>2. client'[c].pc = "check" /\ client'[c].at = 1
          BY <4>1 DEF StepTo
        <4> QED BY <1>4, <2>1, <3>2, <4>2, Places DEF Index
      <3>3. CASE d = c /\ client[c].pc = "check"
        <4>0. client[c].manifest = m
          <5>1. \E pc, at : \E n \in {client[c].manifest, None} : StepTo(c, pc, n, at)
            BY <3>3, PutStepsAre
          <5>2. client'[c].manifest \in {client[c].manifest, None}
            BY <5>1 DEF StepTo
          <5> QED BY <1>4, <2>1, <3>3, <5>2
        <4>1. PICK i \in Index(m) : i = client[c].at
          BY <3>3, <4>0 DEF Types, Requests, RequestOK
        <4>2. \/ StepTo(c, "idle", None, 0)
              \/ /\ Layers[m][i] \in stored
                 /\ \/ StepTo(c, "release", m, 1) /\ i = Len(Layers[m])
                    \/ StepTo(c, "check", m, i + 1)
          BY <3>3, <4>0, <4>1, PutStepsAre
        <4>3. /\ Layers[m][i] \in stored
              /\ \/ i = Len(Layers[m])
                 \/ client'[c].pc = "check" /\ client'[c].at = i + 1
          BY <1>4, <2>1, <3>3, <4>2 DEF StepTo
        <4>4. k <= i
          BY <1>4, <2>1, <3>3, <4>1, <4>3, Places DEF Index
        <4>5. CASE k = i
          BY <1>1, <4>3, <4>5
        <4>6. CASE k # i
          <5>1. k < client[c].at
            BY <1>4, <4>1, <4>4, <4>6, Places DEF Index
          <5> QED BY <1>2, <3>3, <4>0, <5>1 DEF Checked
        <4> QED BY <4>5, <4>6
      <3>4. CASE d = c /\ client[c].pc \notin {"idle", "check"}
        <4>1. /\ client[c].pc \in PutSteps \ {"check"}
              /\ \E pc, at : \E n \in {client[c].manifest, None} : StepTo(c, pc, n, at)
          BY <3>4, PutStepsAre DEF PutSteps
        <4>2. client'[c].manifest \in {client[c].manifest, None}
          BY <4>1 DEF StepTo
        <4>3. client[c].manifest = m
          BY <1>4, <2>1, <3>4, <4>2
        <4> QED BY <1>2, <4>1, <4>3 DEF Checked
      <3> QED BY <3>1, <3>2, <3>3, <3>4
    <2> QED BY <2>1 DEF Checked
  <1>7. Needed(m)' => b \in stored /\ ~BeingDropped(b) /\ ~BeingSwept(b)
    <2>1. \A steps : steps \cap (PutSteps \cup {"idle"}) = {} => (Working(m, steps)' <=> Working(m, steps))
      <3>1. client[c].pc \in PutSteps \cup {"idle"} /\ client'[c].pc \in PutSteps \cup {"idle"}
        <4>1. client[c].pc \in PutSteps \cup {"idle"} /\ \E pc \in PutSteps \cup {"idle"} : \E n, at : StepTo(c, pc, n, at)
          BY PutStepsAre DEF PutSteps
        <4> QED BY <4>1 DEF StepTo
      <3> QED BY <1>5, <3>1 DEF Working
    <2>2. Working(m, {"unlist", "remove", "retire"})' <=> Working(m, {"unlist", "remove", "retire"})
      BY <2>1 DEF PutSteps
    <2>3. CASE status[m] = "published"
      BY <1>2, <2>2, <2>3 DEF Needed
    <2>4. CASE status[m] # "published" /\ status'[m] = "published"
      <3>1. PutRelease(c) \/ PutRevive(c) \/ PutPublish(c)
        BY <2>4 DEF PutManifest, PutBegin, PutCheck, PutStore, PutList, PutClear, PutRefer, PutTag, manifests
      <3>2. PutPublish(c)
        BY <2>4, <3>1 DEF PutRelease, PutRevive, PutPublish, Put, Types, Rows
      <3>3. client[c].pc = "publish" /\ client[c].manifest = m
        BY <2>4, <3>2 DEF PutPublish, Put, At, Types, Rows
      <3>4. StepTo(c, "tag", m, 1)
        BY <3>3, PutStepsAre
      <3>5. client'[c].pc = "tag" /\ client'[c].manifest = m
        BY <3>4 DEF StepTo
      <3>6. Working(m, PutSteps \cup DeleteSteps)'
        BY <3>5 DEF Working, PutSteps
      <3>7. b \in BlobsOf(m)
        BY <1>1, Places
      <3>8. ~BeingDropped(b)' /\ ~BeingSwept(b)'
        BY <3>6, <3>7 DEF Separated
      <3>9. b \in stored
        BY <1>2, <3>3 DEF Checked, PutSteps
      <3> QED BY <1>3, <3>8, <3>9
    <2> QED BY <2>3, <2>4 DEF Needed
  <1> QED BY <1>1, <1>3, <1>6, <1>7

(* The manifest that is deleted.                                           *)
LEMMA DeleteLayersOK ==
    ASSUME Types, Separated, Separated', disturbed \subseteq disturbed',
           NEW c \in Client, DeleteManifest(c), NEW m \in Manifest \ disturbed', LayersOK(m),
           client[c].manifest = m \/ client'[c].manifest = m
    PROVE  LayersOK(m)'
  <1> SUFFICES ASSUME NEW k \in Index(m), Layers[m][k] \notin disturbed'
               PROVE  /\ Needed(m)' => /\ Layers[m][k] \in stored'
                                       /\ ~BeingDropped(Layers[m][k])' /\ ~BeingSwept(Layers[m][k])'
                      /\ Checked(m, k)' => Layers[m][k] \in stored'
    BY LayersAreNext
  <1>1. PICK b \in Blob \ disturbed' : b = Layers[m][k]
    BY Places
  <1>2. Needed(m) => b \in stored /\ ~BeingDropped(b) /\ ~BeingSwept(b)
    BY <1>1, LayersAre
  <1>3. stored' = stored /\ (BeingDropped(b)' <=> BeingDropped(b)) /\ (BeingSwept(b)' <=> BeingSwept(b))
    BY ManifestStepsKeepBlobs
  <1>4. ~Checked(m, k)'
    <2>1. ~Working(m, PutSteps)'
      BY DeleteAlone
    <2> QED BY <2>1 DEF Checked, Working, PutSteps
  <1>5. None # m
    BY OciAssumption
  <1>6. Needed(m)' => Needed(m)
    <2>1. CASE client' = client
      <3>1. status'[m] = "published" => status[m] = "published"
        BY DEF DeleteManifest, DeleteTag, DeleteBegin, DeleteUntag, DeleteReferences, DeleteRow,
               DeleteObject, DeleteRelease, DeleteSchedule, Types, Rows, manifests
      <3> QED BY <2>1, <3>1 DEF Needed, Working
    <2>2. CASE client' # client
      <3>1. \/ client[c].pc \in {"untag", "idle", "sweep"}
            \/ client[c].pc = "unrefer"
            \/ client[c].pc \in {"unlist", "remove"} /\ \E pc \in {"remove", "retire"} : StepTo(c, pc, client[c].manifest, 1)
            \/ client[c].pc = "retire" /\ status'[client[c].manifest] = "deleted" /\ StepTo(c, "sweep", client[c].manifest, 1)
        BY <2>2, DeleteStepsAre
      <3>2. \E pc, n, at : StepTo(c, pc, n, at)
        BY <2>2, DeleteStepsAre
      <3>3. \A d \in Client \ {c} : client'[d] = client[d]
        BY <3>2 DEF StepTo
      <3>4. CASE client[c].pc \in {"untag", "idle", "sweep", "unrefer"}
        <4>1. status' = status
          BY <3>4 DEF DeleteManifest, DeleteTag, DeleteBegin, DeleteUntag, DeleteReferences, DeleteRow,
                 DeleteObject, DeleteRelease, DeleteSchedule, manifests, At
        <4> QED BY <3>3, <3>4, <4>1 DEF Needed, Working
      <3>5. CASE client[c].pc \in {"unlist", "remove"}
        <4>1. \E pc \in {"remove", "retire"} : StepTo(c, pc, client[c].manifest, 1)
          BY <3>1, <3>5
        <4>2. client'[c].pc \in {"remove", "retire"} /\ client'[c].manifest = client[c].manifest
          BY <4>1 DEF StepTo
        <4> QED BY <4>2 DEF Needed, Working
      <3>6. CASE client[c].pc = "retire"
        <4>1. status'[client[c].manifest] = "deleted" /\ StepTo(c, "sweep", client[c].manifest, 1)
          BY <3>1, <3>6
        <4>2. client'[c].manifest = client[c].manifest
          BY <4>1 DEF StepTo
        <4> QED BY <4>1, <4>2 DEF Needed
      <3> QED BY <3>1, <3>4, <3>5, <3>6
    <2> QED BY <2>1, <2>2
  <1> QED BY <1>1, <1>2, <1>3, <1>4, <1>6

(* Every step keeps the blobs of the undisturbed manifests in place.       *)
LEMMA LayersStayOK ==
    ASSUME Types, Apart, disturbed \subseteq Blob \cup Manifest, [Next]_vars,
           NEW m \in Manifest \ disturbed', ManifestOK(m), LayersOK(m)
    PROVE  LayersOK(m)'
  <1>1. /\ Separated /\ Separated' /\ disturbed \subseteq disturbed'
        /\ \A c \in Client : UploadUndone(c) \/ RequestFails(c) => Uses(c) \cup Removes(c) \subseteq disturbed'
    BY HistoryNext, Separate
  <1>2. Untouched(m) => LayersOK(m)'
    BY <1>1, UntouchedLayers
  <1>3. ASSUME NEW c \in Client, Upload(c) \/ UploadUndone(c) \/ DropBlob(c) PROVE LayersOK(m)'
    BY <1>2, <1>3, BlobsElsewhere
  <1>4. ASSUME NEW c \in Client, PutManifest(c) PROVE LayersOK(m)'
    BY <1>1, <1>2, <1>4, PutElsewhere, PutLayersOK
  <1>5. ASSUME NEW c \in Client, DeleteManifest(c) PROVE LayersOK(m)'
    BY <1>1, <1>2, <1>5, DeleteElsewhere, DeleteLayersOK
  <1>6. ASSUME NEW c \in Client, RequestFails(c) PROVE LayersOK(m)'
    BY <1>1, <1>2, <1>6, FailsElsewhere, FailsDisturbs
  <1>7. CASE \/ UNCHANGED vars
             \/ \E b \in Blob : Age(b) \/ CleanupDue(b)
             \/ \E s \in Sweeper : Sweep(s)
    BY <1>2, <1>7, OthersElsewhere
  <1> QED BY <1>3, <1>4, <1>5, <1>6, <1>7 DEF Next

-----------------------------------------------------------------------------
(* The inventory, and the clean-up that will come.                         *)

(* A step that touches no manifest with the blob changes nothing about who *)
(* answers for it.                                                         *)
LEMMA UntouchedSecures ==
    ASSUME NEW b \in Blob, \A m \in Manifest : b \in BlobsOf(m) => Untouched(m)
    PROVE  (Retired(b)' <=> Retired(b)) /\ (Secured(b)' <=> Secured(b))
  <1>1. ASSUME NEW m \in Manifest, b \in BlobsOf(m)
        PROVE  /\ Working(m, {"unlist", "remove", "retire", "sweep"})' <=>
                     Working(m, {"unlist", "remove", "retire", "sweep"})
               /\ Closable(m)' <=> Closable(m)
               /\ \A k \in Index(m) : Inserted(m, k)' <=> Inserted(m, k)
    BY <1>1, UntouchedWork, UntouchedRequests
  <1>2. Retired(b)' <=> Retired(b)
    BY <1>1 DEF Retired, BlobsOf
  <1>3. \A m \in Manifest : \A k \in Index(m) : Layers[m][k] = b => b \in BlobsOf(m)
    BY Places
  <1>4. Secured(b) => Secured(b)'
    BY <1>1, <1>3 DEF Secured, Index
  <1>5. Secured(b)' => Secured(b)
    BY <1>1, <1>3 DEF Secured, Index
  <1> QED BY <1>2, <1>4, <1>5

(* A push keeps a blob secured, and a deletion that does not schedules a   *)
(* clean-up.                                                               *)
LEMMA PutSecures ==
    ASSUME LayersOnce, Types, NEW c \in Client, PutManifest(c), NEW b \in Blob
    PROVE  (Retired(b) => Retired(b)') /\ (Secured(b) => Secured(b)')
  <1>1. ASSUME NEW m \in Manifest, Working(m, {"unlist", "remove", "retire", "sweep"})
        PROVE  Working(m, {"unlist", "remove", "retire", "sweep"})'
    <2>1. client[c].pc \in PutSteps \cup {"idle"} /\ \E pc, n, at : StepTo(c, pc, n, at)
      BY PutStepsAre DEF PutSteps
    <2>2. \A d \in Client \ {c} : client'[d] = client[d]
      BY <2>1 DEF StepTo
    <2>3. client[c].pc \notin {"unlist", "remove", "retire", "sweep"}
      BY <2>1 DEF PutSteps
    <2> QED BY <1>1, <2>2, <2>3 DEF Working
  <1>2. Retired(b) => Retired(b)'
    BY <1>1 DEF Retired, BlobsOf
  <1>3. Secured(b) => Secured(b)'
    <2>1. ASSUME NEW m \in Manifest, NEW k \in Index(m), Layers[m][k] = b, Closable(m), Inserted(m, k)
          PROVE  Secured(b)'
      <3>1. Closable(m)' /\ Inserted(m, k)'
        BY <2>1, PutPersists
      <3> QED BY <2>1, <3>1 DEF Secured, Index
    <2> QED BY <2>1 DEF Secured
  <1> QED BY <1>2, <1>3

(* When a deletion takes away the last manifest that answered for a blob,  *)
(* it answers for it itself, and in the end schedules a clean-up.          *)
LEMMA DeleteSecures ==
    ASSUME Types, NEW c \in Client, DeleteManifest(c), NEW b \in Blob, Retired(b) \/ Secured(b)
    PROVE  Retired(b)' \/ Secured(b)' \/ due'
  <1> DEFINE Late == {"unlist", "remove", "retire", "sweep"}
  <1>1. ASSUME NEW m \in Manifest, b \in BlobsOf(m), Working(m, Late)' PROVE Retired(b)'
    BY <1>1 DEF Retired, BlobsOf
  <1>2. CASE DeleteSchedule(c)
    BY <1>2 DEF DeleteSchedule
  <1>3. CASE DeleteTag(c) \/ DeleteBegin(c) \/ DeleteUntag(c)
    <2>1. UNCHANGED <<status, refs, listed>>
      BY <1>3 DEF DeleteTag, DeleteBegin, DeleteUntag, manifests
    <2>2. \/ client' = client
          \/ /\ client[c].pc \in {"idle", "untag"}
             /\ \E n, at : StepTo(c, "untag", n, at) \/ StepTo(c, "unrefer", n, at)
      <3>1. CASE DeleteTag(c)
        BY <3>1 DEF DeleteTag
      <3>2. CASE DeleteBegin(c) \/ DeleteUntag(c)
        <4>1. client[c].pc \in {"idle", "untag"}
          BY <3>2 DEF DeleteBegin, Begin, DeleteUntag, At
        <4>2. \/ client' = client
              \/ \E n, at : StepTo(c, "untag", n, at) \/ StepTo(c, "unrefer", n, at)
          BY <4>1, DeleteStepsAre
        <4> QED BY <4>1, <4>2
      <3> QED BY <1>3, <3>1, <3>2
    <2>3. /\ \A d \in Client \ {c} : client'[d] = client[d]
          /\ client' = client \/ client[c].pc \in {"idle", "untag"}
      BY <2>2 DEF StepTo
    <2>4. \A m \in Manifest : Working(m, Late) => Working(m, Late)'
      BY <2>3 DEF Working
    <2>5. \A m \in Manifest : \A d \in Client : Closer(d, m) => Closer(d, m)'
      <3>1. ASSUME NEW m \in Manifest, NEW d \in Client, Closer(d, m) PROVE client'[d] = client[d]
        BY <2>3, <3>1 DEF Closer
      <3> QED BY <2>1, <3>1 DEF Closer, Index
    <2>6. \A m \in Manifest : \A k \in Index(m) : \A d \in Client : Inserter(d, m, k) => Inserter(d, m, k)'
      <3>1. ASSUME NEW m \in Manifest, NEW k \in Index(m), NEW d \in Client, Inserter(d, m, k)
            PROVE client'[d] = client[d]
        BY <2>3, <3>1 DEF Inserter
      <3> QED BY <2>1, <3>1 DEF Inserter, Index
    <2>7. Retired(b) => Retired(b)'
      BY <2>4 DEF Retired, BlobsOf
    <2>8. Secured(b) => Secured(b)'
      <3>1. \A m \in Manifest : Closable(m) => Closable(m)'
        BY <2>1, <2>5 DEF Closable
      <3>2. \A m \in Manifest : \A k \in Index(m) : Inserted(m, k) => Inserted(m, k)'
        BY <2>1, <2>6 DEF Inserted
      <3> QED BY <3>1, <3>2 DEF Secured, Index
    <2> QED BY <2>7, <2>8
  <1>4. CASE DeleteReferences(c) \/ DeleteRow(c) \/ DeleteObject(c) \/ DeleteRelease(c)
    <2>1. client[c].pc \in {"unrefer", "unlist", "remove", "retire"}
      BY <1>4 DEF DeleteReferences, DeleteRow, DeleteObject, DeleteRelease, At
    <2>2. PICK n \in Manifest : client[c].manifest = n
      BY <2>1 DEF Types, Requests, RequestOK, DeleteSteps
    <2>3. ~DeleteTag(c)
      BY <2>1 DEF DeleteTag, At
    <2>4. \E pc \in Late : StepTo(c, pc, n, 1)
      BY <2>1, <2>2, <2>3, DeleteStepsAre
    <2>5. client'[c].pc \in Late /\ client'[c].manifest = n
      BY <2>4 DEF StepTo
    <2>6. Working(n, Late)'
      BY <2>5 DEF Working
    <2>7. CASE b \in BlobsOf(n)
      BY <1>1, <2>6, <2>7
    <2>8. CASE b \notin BlobsOf(n)
      <3>1. \A m \in Manifest : b \in BlobsOf(m) => Untouched(m)
        BY <2>2, <2>5, <2>8, DeleteElsewhere
      <3> QED BY <3>1, UntouchedSecures
    <2> QED BY <2>7, <2>8
  <1> QED BY <1>2, <1>3, <1>4 DEF DeleteManifest

(* A push or a deletion.                                                   *)
LEMMA ManifestStepsBlobOK ==
    ASSUME LayersOnce, Types, NEW c \in Client, PutManifest(c) \/ DeleteManifest(c),
           NEW b \in Blob, BlobOK(b)
    PROVE  BlobOK(b)'
  <1>1. /\ UNCHANGED <<stored, inventory, later, sweep>> /\ (due => due')
        /\ BeingDropped(b)' <=> BeingDropped(b)
        /\ BeingSwept(b)' <=> BeingSwept(b)
        /\ BeingUploaded(b)' <=> BeingUploaded(b)
        /\ \A d \in Client : client'[d].blob = b => client'[d] = client[d]
    BY ManifestStepsKeepBlobs
  <1>2. CleanupComes(b) => CleanupComes(b)'
    BY <1>1 DEF CleanupComes
  <1>3. Retired(b) \/ Secured(b) => Retired(b)' \/ Secured(b)' \/ CleanupComes(b)'
    BY PutSecures, DeleteSecures DEF CleanupComes
  <1> QED BY <1>1, <1>2, <1>3 DEF BlobOK

(* What is said of a blob stays true when a step is about something else.  *)
LEMMA OtherBlob ==
    ASSUME NEW b \in Blob, BlobOK(b),
           inventory'[b] = inventory[b], b \in stored' => b \in stored, b \in later => b \in later',
           BeingUploaded(b) => BeingUploaded(b)', CleanupComes(b) => CleanupComes(b)',
           Retired(b) => Retired(b)', Secured(b) => Secured(b)',
           \A c \in Client : client'[c].blob = b /\ client'[c].pc \in {"schedule", "drop row"} =>
              client'[c] = client[c],
           \A s \in Sweeper : sweep'[s].current = b => sweep[s].current = b
    PROVE  BlobOK(b)'
  BY DEF BlobOK

(* A clean-up stays with the blobs that it has not removed.                *)
LEMMA CleanupStays ==
    ASSUME NEW b \in Blob,
           b \in later => b \in later', due => due',
           BeingDropped(b) => BeingDropped(b)', UNCHANGED sweep
    PROVE  CleanupComes(b) => CleanupComes(b)'
  BY DEF CleanupComes, BeingSwept

(* An upload and the deletion of a blob keep the undisturbed blobs in      *)
(* order.                                                                  *)
LEMMA UploadBlobOK ==
    ASSUME Types, Separated, Separated', disturbed \subseteq disturbed',
           \A c \in Client : UploadUndone(c) \/ RequestFails(c) => Uses(c) \cup Removes(c) \subseteq disturbed',
           NEW c \in Client, Upload(c) \/ UploadUndone(c) \/ DropBlob(c),
           NEW b \in Blob \ disturbed', BlobOK(b)
    PROVE  BlobOK(b)'
  <1>0. /\ None # b
        /\ \A s \in Sweeper : sweep[s].current \in sweep[s].todo \cup {None}
    BY OciAssumption DEF Types, Sweeps
  <1>1. (Retired(b)' <=> Retired(b)) /\ (Secured(b)' <=> Secured(b))
    BY BlobsElsewhere, UntouchedSecures
  <1>2. UNCHANGED <<sweep, due>> /\ (due => due')
    <2>1. UNCHANGED sweep
      BY DEF Upload, UploadObject, UploadRecord, UploadUndone, UploadSchedule, DropBlob, DropBegin,
             DropObject, DropRow
    <2>2. UNCHANGED due
      BY DEF Upload, UploadObject, UploadRecord, UploadUndone, UploadSchedule, DropBlob, DropBegin,
             DropObject, DropRow, jobs
    <2> QED BY <2>1, <2>2
  <1>3. \A d \in Client \ {c} : client'[d] = client[d]
    <2>1. \E pc, x : BlobStep(c, pc, x)
      BY BlobStepsAre
    <2> QED BY <2>1 DEF BlobStep
  <1>4. CASE UploadObject(c)
    <2>1. UNCHANGED <<inventory, later, due>> /\ client[c].pc = "idle"
      BY <1>4 DEF UploadObject, Begin, At, jobs
    <2>2. PICK x \in Blob : Begin(c, "record", x, None) /\ stored' = stored \cup {x}
      BY <1>4 DEF UploadObject
    <2>3. Now(c, [pc |-> "record", blob |-> x, manifest |-> None, at |-> 1])
      BY <2>2, BeginMoves DEF Types, Requests, UploadSteps
    <2>4. client'[c].pc = "record" /\ client'[c].blob = x
      BY <2>3 DEF Now
    <2>5. BeingDropped(b)' <=> BeingDropped(b)
      BY <1>3, <2>1, <2>4 DEF BeingDropped, DropSteps
    <2>6. CASE x = b
      <3>1. BeingUploaded(b)'
        BY <2>4, <2>6 DEF BeingUploaded, UploadSteps
      <3>2. ~BeingDropped(b)' /\ ~BeingSwept(b)'
        BY <3>1 DEF Separated
      <3>3. \A d \in Client : client'[d].blob = b =>
               /\ client'[d].pc = "schedule" => inventory'[b] = "fresh"
               /\ client'[d].pc # "drop row"
        BY <1>3, <2>1, <2>4, <3>2 DEF BlobOK, BeingDropped, DropSteps
      <3>4. \A s \in Sweeper : sweep'[s].current # b
        BY <1>0, <1>2, <3>2 DEF BeingSwept
      <3> QED BY <3>1, <3>3, <3>4 DEF BlobOK
    <2>7. CASE x # b
      <3>1. CleanupComes(b) => CleanupComes(b)'
        BY <1>2, <2>1, <2>5, CleanupStays
      <3>2. BeingUploaded(b) => BeingUploaded(b)'
        BY <1>3, <2>1 DEF BeingUploaded, UploadSteps
      <3> QED BY <1>1, <1>2, <1>3, <2>1, <2>2, <2>4, <2>7, <3>1, <3>2, OtherBlob
    <2> QED BY <2>6, <2>7
  <1>5. CASE UploadRecord(c)
    <2>1. UNCHANGED <<stored, later, due>> /\ client[c].pc = "record"
      BY <1>5 DEF UploadRecord, At, jobs
    <2>7. PICK x : x = client[c].blob
      OBVIOUS
    <2>8. inventory' = [inventory EXCEPT ![x] = "fresh"] /\ Now(c, At1(c, "schedule"))
      BY <1>5, <2>7, GotoMoves DEF UploadRecord, Recorded, Types, Requests, UploadSteps
    <2>2. /\ client[c].blob = x
          /\ inventory'[b] = IF b = x THEN "fresh" ELSE inventory[b]
      BY <2>7, <2>8 DEF Types, Rows
    <2>3. client'[c].pc = "schedule" /\ client'[c].blob = x
      BY <2>7, <2>8 DEF Now, At1
    <2>4. BeingDropped(b) => BeingDropped(b)'
      BY <1>3, <2>1 DEF BeingDropped, DropSteps
    <2>5. CASE x = b
      <3>1. BeingUploaded(b)'
        BY <2>3, <2>5 DEF BeingUploaded, UploadSteps
      <3>2. inventory'[b] = "fresh"
        BY <2>2, <2>5
      <3> QED BY <1>2, <1>3, <2>1, <2>3, <3>1, <3>2 DEF BlobOK
    <2>6. CASE x # b
      <3>1. CleanupComes(b) => CleanupComes(b)'
        BY <1>2, <2>1, <2>4, CleanupStays
      <3>2. BeingUploaded(b) => BeingUploaded(b)'
        BY <1>3, <2>2, <2>6 DEF BeingUploaded
      <3>3. inventory'[b] = inventory[b]
        BY <2>2, <2>6
      <3> QED BY <1>1, <1>2, <1>3, <2>1, <2>3, <2>6, <3>1, <3>2, <3>3, OtherBlob
    <2> QED BY <2>5, <2>6
  <1>6. CASE UploadUndone(c)
    <2>1. UNCHANGED <<inventory, later, due>> /\ client[c].pc = "record" /\ stored' \subseteq stored
      BY <1>6 DEF UploadUndone, At, jobs
    <2>2. client[c].blob # b
      BY <1>6, FailsDisturbs
    <2>3. client'[c].pc = "idle"
      <3>1. Now(c, Quiet)
        BY <1>6, FinishMoves DEF UploadUndone, Types, Requests
      <3> QED BY <3>1 DEF Now, Quiet
    <2>4. BeingDropped(b) => BeingDropped(b)'
      BY <1>3, <2>1 DEF BeingDropped, DropSteps
    <2>5. CleanupComes(b) => CleanupComes(b)'
      BY <1>2, <2>1, <2>4, CleanupStays
    <2>6. BeingUploaded(b) => BeingUploaded(b)'
      BY <1>3, <2>2 DEF BeingUploaded
    <2> QED BY <1>1, <1>2, <1>3, <2>1, <2>3, <2>5, <2>6, OtherBlob
  <1>7. CASE UploadSchedule(c)
    <2>1. UNCHANGED <<stored, inventory, due>> /\ client[c].pc = "schedule" /\ later' = later \cup {client[c].blob}
      BY <1>7 DEF UploadSchedule, At, blobs
    <2>2. client'[c].pc = "idle"
      <3>1. Now(c, Quiet)
        BY <1>7, FinishMoves DEF UploadSchedule, Types, Requests
      <3> QED BY <3>1 DEF Now, Quiet
    <2>3. CASE client[c].blob = b
      <3>1. inventory[b] = "fresh" /\ b \in later'
        BY <2>1, <2>3 DEF BlobOK
      <3> QED BY <1>2, <1>3, <2>1, <2>2, <3>1 DEF BlobOK, CleanupComes
    <2>4. CASE client[c].blob # b
      <3>1. BeingDropped(b) => BeingDropped(b)'
        BY <1>3, <2>1 DEF BeingDropped, DropSteps
      <3>2. CleanupComes(b) => CleanupComes(b)'
        BY <1>2, <2>1, <3>1, CleanupStays
      <3>3. BeingUploaded(b) => BeingUploaded(b)'
        BY <1>3, <2>4 DEF BeingUploaded
      <3> QED BY <1>1, <1>2, <1>3, <2>1, <2>2, <3>2, <3>3, OtherBlob
    <2> QED BY <2>3, <2>4
  <1>8. CASE DropBegin(c)
    <2>1. UNCHANGED <<stored, inventory, later, due>>
      BY <1>8 DEF DropBegin, blobs, jobs
    <2>2. client[c].pc = "idle" /\ \E x \in Blob : BlobStep(c, "drop object", x)
      BY <1>8, DropBeginIs
    <2>3. client'[c].pc = "drop object"
      BY <2>2 DEF BlobStep
    <2>4. BeingDropped(b) => BeingDropped(b)'
      BY <1>3, <2>2 DEF BeingDropped, DropSteps
    <2>5. CleanupComes(b) => CleanupComes(b)'
      BY <1>2, <2>1, <2>4, CleanupStays
    <2>6. BeingUploaded(b) => BeingUploaded(b)'
      BY <1>3, <2>2 DEF BeingUploaded, UploadSteps
    <2> QED BY <1>1, <1>2, <1>3, <2>1, <2>3, <2>5, <2>6, OtherBlob
  <1>9. CASE DropObject(c)
    <2>1. UNCHANGED <<inventory, later, due>> /\ client[c].pc = "drop object"
          /\ stored' = stored \ {client[c].blob}
      BY <1>9 DEF DropObject, At, jobs
    <2>2. \E x \in Blob : client[c].blob = x /\ BlobStep(c, "drop row", x)
      <3>1. ~DropBegin(c) /\ ~UploadObject(c)
        BY <2>1, DropBeginIs DEF UploadObject, Begin, At
      <3> QED BY <2>1, <3>1, BlobStepsAre
    <2>3. client'[c].pc = "drop row" /\ client'[c].blob = client[c].blob
      BY <2>2 DEF BlobStep
    <2>4. BeingDropped(b) => BeingDropped(b)'
      BY <1>3, <2>1, <2>3 DEF BeingDropped, DropSteps
    <2>5. CleanupComes(b) => CleanupComes(b)'
      BY <1>2, <2>1, <2>4, CleanupStays
    <2>6. BeingUploaded(b) => BeingUploaded(b)'
      BY <1>3, <2>1 DEF BeingUploaded, UploadSteps
    <2>7. CASE client[c].blob = b
      BY <1>2, <1>3, <2>1, <2>3, <2>6, <2>7 DEF BlobOK
    <2>8. CASE client[c].blob # b
      BY <1>1, <1>2, <1>3, <2>1, <2>3, <2>5, <2>6, <2>8, OtherBlob
    <2> QED BY <2>7, <2>8
  <1>10. CASE DropRow(c)
    <2>1. UNCHANGED <<stored, later, due>> /\ client[c].pc = "drop row"
      BY <1>10 DEF DropRow, At, jobs
    <2>2. PICK x \in Blob : /\ client[c].blob = x /\ BlobStep(c, "idle", None)
                            /\ \A y \in Blob : inventory'[y] = IF y = x THEN "absent" ELSE inventory[y]
      <3>1. ~DropBegin(c) /\ ~UploadObject(c)
        BY <2>1, DropBeginIs DEF UploadObject, Begin, At
      <3> QED BY <2>1, <3>1, BlobStepsAre
    <2>3. client'[c].pc = "idle"
      BY <2>2 DEF BlobStep
    <2>4. CASE x = b
      <3>1. b \notin stored /\ inventory'[b] = "absent"
        BY <2>1, <2>2, <2>4 DEF BlobOK
      <3>2. BeingDropped(b)
        BY <2>1, <2>2, <2>4 DEF BeingDropped, DropSteps
      <3>3. ~BeingUploaded(b)
        BY <3>2 DEF Separated
      <3>4. \A d \in Client : client'[d].blob = b => client'[d].pc # "schedule"
        BY <1>3, <2>3, <3>3 DEF BeingUploaded, UploadSteps
      <3> QED BY <1>2, <2>1, <3>1, <3>4 DEF BlobOK
    <2>5. CASE x # b
      <3>1. BeingDropped(b) => BeingDropped(b)'
        BY <1>3, <2>2, <2>5 DEF BeingDropped
      <3>2. CleanupComes(b) => CleanupComes(b)'
        BY <1>2, <2>1, <3>1, CleanupStays
      <3>3. BeingUploaded(b) => BeingUploaded(b)'
        BY <1>3, <2>1 DEF BeingUploaded, UploadSteps
      <3>4. inventory'[b] = inventory[b]
        BY <2>2, <2>5
      <3> QED BY <1>1, <1>2, <1>3, <2>1, <2>3, <3>2, <3>3, <3>4, OtherBlob
    <2> QED BY <2>4, <2>5
  <1> QED BY <1>4, <1>5, <1>6, <1>7, <1>8, <1>9, <1>10 DEF Upload, DropBlob

(* A request that breaks off: what it worked with is disturbed, the rest   *)
(* is as it was.                                                           *)
LEMMA FailsBlobOK ==
    ASSUME Types, NEW c \in Client, RequestFails(c), Uses(c) \cup Removes(c) \subseteq disturbed',
           NEW b \in Blob \ disturbed', BlobOK(b)
    PROVE  BlobOK(b)'
  <1>1. UNCHANGED <<stored, inventory, later, due, sweep>> /\ Finish(c)
    BY DEF RequestFails, blobs, jobs
  <1>2. Now(c, Quiet)
    BY <1>1, FinishMoves DEF Types, Requests
  <1>3. client'[c].pc = "idle" /\ \A d \in Client \ {c} : client'[d] = client[d]
    BY <1>2 DEF Now, Quiet
  <1>4. client[c].blob # b
    BY FailsDisturbs
  <1>5. \A m \in Manifest : b \in BlobsOf(m) => Untouched(m)
    <2>1. ASSUME NEW m \in Manifest, b \in BlobsOf(m) PROVE client[c].manifest # m
      BY <2>1, FailsDisturbs, Places
    <2> QED BY <2>1, FailsElsewhere
  <1>6. (Retired(b)' <=> Retired(b)) /\ (Secured(b)' <=> Secured(b))
    BY <1>5, UntouchedSecures
  <1>7. (BeingDropped(b) => BeingDropped(b)') /\ (BeingUploaded(b) => BeingUploaded(b)')
    BY <1>3, <1>4 DEF BeingDropped, BeingUploaded
  <1>8. CleanupComes(b) => CleanupComes(b)'
    BY <1>1, <1>7, CleanupStays
  <1> QED BY <1>1, <1>3, <1>6, <1>7, <1>8, OtherBlob

(* Time passes only where an upload has scheduled its clean-up.            *)
LEMMA TimeBlobOK ==
    ASSUME Types, NEW x \in Blob, Age(x) \/ CleanupDue(x), NEW b \in Blob, BlobOK(b)
    PROVE  BlobOK(b)'
  <1>0. /\ (Retired(b)' <=> Retired(b)) /\ (Secured(b)' <=> Secured(b))
        /\ client' = client
    BY OthersElsewhere, UntouchedSecures DEF Age, CleanupDue
  <1>1. UNCHANGED <<stored, sweep>>
    BY DEF Age, CleanupDue, blobs
  <1>2. /\ BeingDropped(b)' <=> BeingDropped(b)
        /\ BeingUploaded(b)' <=> BeingUploaded(b)
        /\ BeingSwept(b)' <=> BeingSwept(b)
    BY <1>0, <1>1 DEF BeingDropped, BeingUploaded, BeingSwept
  <1>3. CASE Age(x)
    <2>1. UNCHANGED <<later, due>> /\ inventory[x] = "fresh" /\ inventory' = [inventory EXCEPT ![x] = "aged"]
      BY <1>3 DEF Age, jobs
    <2>2. inventory'[b] = IF b = x THEN "aged" ELSE inventory[b]
      BY <2>1 DEF Types, Rows
    <2>3. CASE b = x
      <3>1. ~BeingUploaded(b)
        BY <1>3, <2>3 DEF Age, BeingUploaded, Uploading, UploadSteps
      <3>2. b \in later'
        BY <2>1, <2>3, <3>1 DEF BlobOK
      <3>3. \A c \in Client : client[c].blob = b => client[c].pc # "schedule"
        BY <3>1 DEF BeingUploaded, UploadSteps
      <3> QED BY <1>0, <1>1, <2>2, <2>3, <3>2, <3>3 DEF BlobOK, CleanupComes
    <2>4. CASE b # x
      <3>1. CleanupComes(b) => CleanupComes(b)'
        BY <1>1, <1>2, <2>1, CleanupStays
      <3> QED BY <1>0, <1>1, <1>2, <2>1, <2>2, <2>4, <3>1, OtherBlob
    <2> QED BY <2>3, <2>4
  <1>4. CASE CleanupDue(x)
    <2>1. UNCHANGED inventory /\ due' /\ later' = IF inventory[x] = "fresh" THEN later ELSE later \ {x}
      BY <1>4 DEF CleanupDue, blobs
    <2>2. CleanupComes(b)'
      BY <2>1 DEF CleanupComes
    <2>3. b \in later /\ inventory[b] = "fresh" => b \in later'
      BY <2>1
    <2> QED BY <1>0, <1>1, <1>2, <2>1, <2>2, <2>3 DEF BlobOK
  <1> QED BY <1>3, <1>4

(* A clean-up takes every blob that may go, or as many as it can, and then *)
(* another one follows.                                                    *)
LEMMA SweepBlobOK ==
    ASSUME Types, Separated, disturbed \subseteq disturbed',
           NEW s \in Sweeper, Sweep(s), NEW b \in Blob \ disturbed', BlobOK(b)
    PROVE  BlobOK(b)'
  <1>0. /\ (Retired(b)' <=> Retired(b)) /\ (Secured(b)' <=> Secured(b))
        /\ client' = client
    <2>1. client' = client
      BY DEF Sweep, SweepSelect, SweepObject, SweepRow, SweepFails
    <2> QED BY <2>1, OthersElsewhere, UntouchedSecures
  <1>1. /\ BeingDropped(b)' <=> BeingDropped(b)
        /\ BeingUploaded(b)' <=> BeingUploaded(b)
    BY <1>0 DEF BeingDropped, BeingUploaded
  <1>2. /\ sweep \in [Sweeper -> Batch] /\ sweep[s] \in Batch /\ None # b
        /\ sweep[s].current \in sweep[s].todo \cup {None}
    BY OciAssumption DEF Types, Sweeps
  <1>3. UNCHANGED later
    BY DEF Sweep, SweepSelect, SweepObject, SweepRow, SweepFails, jobs
  <1>4. CASE SweepSelect(s)
    <2>1. UNCHANGED <<stored, inventory>> /\ sweep[s] = Resting
      BY <1>4 DEF SweepSelect, blobs
    <2>2. PICK S \in SUBSET Candidates :
             /\ Cardinality(S) < BatchSize => S = Candidates
             /\ Cardinality(S) <= BatchSize
             /\ sweep' = [sweep EXCEPT ![s].todo = S, ![s].full = (Cardinality(S) = BatchSize)]
      BY <1>4 DEF SweepSelect
    <2>3. /\ sweep'[s].todo = S /\ sweep'[s].current = None
          /\ sweep'[s].full = (Cardinality(S) = BatchSize)
          /\ \A t \in Sweeper \ {s} : sweep'[t] = sweep[t]
      <3>1. PICK r : r = [sweep[s] EXCEPT !.todo = S, !.full = (Cardinality(S) = BatchSize)]
        OBVIOUS
      <3>2. r = [todo |-> S, current |-> sweep[s].current, full |-> (Cardinality(S) = BatchSize)]
        BY <1>2, <3>1 DEF Batch
      <3>3. sweep' = [sweep EXCEPT ![s] = r]
        BY <2>2, <3>1
      <3>4. sweep[s].current = None
        BY <2>1 DEF Resting
      <3>5. sweep'[s] = r /\ \A t \in Sweeper \ {s} : sweep'[t] = sweep[t]
        BY <1>2, <3>3
      <3> QED BY <3>2, <3>4, <3>5
    <2>4. ASSUME b \in Candidates PROVE CleanupComes(b)'
      <3>1. CASE S = Candidates
        BY <2>3, <2>4, <3>1 DEF CleanupComes, BeingSwept
      <3>2. CASE S # Candidates
        <4>1. Candidates \subseteq Blob
          BY DEF Candidates
        <4>2. Cardinality(S) = BatchSize
          <5>1. Cardinality(S) \in Nat
            <6>1. IsFiniteSet(S)
              BY <4>1, OciAssumption, FS_Subset
            <6> QED BY <6>1, FS_CardinalityType
          <5> QED BY <2>2, <3>2, <5>1, OciAssumption
        <4>3. sweep'[s].full
          BY <2>3, <4>2
        <4> QED BY <4>3 DEF CleanupComes
      <3> QED BY <3>1, <3>2
    <2>5. ASSUME b \in stored, ~BeingUploaded(b) PROVE CleanupComes(b)' \/ Retired(b)' \/ Secured(b)'
      <3>1. CASE b \in later
        BY <1>3, <3>1 DEF CleanupComes
      <3>2. CASE Referenced(b)
        <4>1. PICK m \in Manifest : status[m] = "published" /\ b \in refs[m]
          BY <3>2 DEF Referenced
        <4>2. PICK k \in Index(m) : Layers[m][k] = b
          BY <4>1, Places DEF Types, Rows
        <4>3. Closable(m) /\ Inserted(m, k)
          BY <4>1, <4>2 DEF Closable, Inserted
        <4>4. Secured(b)
          BY <4>2, <4>3 DEF Secured
        <4> QED BY <1>0, <4>4
      <3>3. CASE b \notin later /\ ~Referenced(b)
        <4>1. inventory[b] \notin {"fresh", "absent"}
          BY <2>5, <3>3 DEF BlobOK
        <4>2. inventory[b] \in {"absent", "fresh", "aged"}
          BY DEF Types, Rows
        <4>3. inventory[b] = "aged"
          BY <4>1, <4>2
        <4>4. b \in Candidates
          BY <3>3, <4>3 DEF Candidates
        <4> QED BY <2>4, <4>4
      <3> QED BY <3>1, <3>2, <3>3
    <2>6. \A t \in Sweeper : sweep'[t].current = b => sweep[t].current = b
      BY <1>2, <2>3
    <2> QED BY <1>0, <1>1, <1>3, <2>1, <2>5, <2>6 DEF BlobOK
  <1>5. CASE SweepObject(s)
    <2>1. UNCHANGED <<inventory, due>>
      BY <1>5 DEF SweepObject, jobs
    <2>2. PICK x \in sweep[s].todo : stored' = stored \ {x} /\ sweep' = [sweep EXCEPT ![s].current = x]
      BY <1>5 DEF SweepObject
    <2>3. /\ \A t \in Sweeper : sweep'[t].todo = sweep[t].todo /\ sweep'[t].full = sweep[t].full
          /\ \A t \in Sweeper : sweep'[t].current = IF t = s THEN x ELSE sweep[t].current
      BY <1>2, <2>2 DEF Batch
    <2>4. CASE x = b
      BY <1>0, <1>1, <1>3, <2>1, <2>2, <2>4 DEF BlobOK
    <2>5. CASE x # b
      <3>1. CleanupComes(b) => CleanupComes(b)'
        BY <1>1, <1>3, <2>1, <2>3 DEF CleanupComes, BeingSwept
      <3> QED BY <1>0, <1>1, <1>3, <2>1, <2>2, <2>3, <2>5, <3>1, OtherBlob
    <2> QED BY <2>4, <2>5
  <1>6. CASE SweepRow(s)
    <2> DEFINE x == sweep[s].current
    <2>1. stored' = stored /\ x \in sweep[s].todo /\ inventory' = [inventory EXCEPT ![x] = "absent"]
      BY <1>2, <1>6 DEF SweepRow
    <2>2. inventory'[b] = IF b = x THEN "absent" ELSE inventory[b]
      BY <2>1 DEF Types, Rows
    <2>3. \/ /\ sweep[s].todo = {x} /\ sweep' = [sweep EXCEPT ![s] = Resting]
             /\ due' = (due \/ More(s))
          \/ /\ sweep' = [sweep EXCEPT ![s].todo = sweep[s].todo \ {x}, ![s].current = None]
             /\ due' = due
      BY <1>6 DEF SweepRow
    <2>4. /\ \A t \in Sweeper \ {s} : sweep'[t] = sweep[t]
          /\ sweep'[s].current = None
          /\ \/ sweep[s].todo = {x} /\ (due \/ sweep[s].full => due')
             \/ /\ sweep'[s].todo = sweep[s].todo \ {x} /\ sweep'[s].full = sweep[s].full
                /\ due' = due
      <3>1. CASE /\ sweep[s].todo = {x} /\ sweep' = [sweep EXCEPT ![s] = Resting]
                 /\ due' = (due \/ More(s))
        BY <1>2, <3>1 DEF Resting, More
      <3>2. CASE /\ sweep' = [sweep EXCEPT ![s].todo = sweep[s].todo \ {x}, ![s].current = None]
                 /\ due' = due
        <4>1. PICK r : r = [sweep[s] EXCEPT !.todo = sweep[s].todo \ {x}, !.current = None]
          OBVIOUS
        <4>2. r = [todo |-> sweep[s].todo \ {x}, current |-> None, full |-> sweep[s].full]
          BY <1>2, <4>1 DEF Batch
        <4>3. sweep' = [sweep EXCEPT ![s] = r]
          BY <3>2, <4>1
        <4>4. sweep'[s] = r /\ \A t \in Sweeper \ {s} : sweep'[t] = sweep[t]
          BY <1>2, <4>3
        <4>5. sweep'[s].todo = sweep[s].todo \ {x} /\ sweep'[s].current = None
          BY <4>2, <4>4
        <4>6. sweep'[s].full = sweep[s].full
          BY <4>2, <4>4
        <4> QED BY <3>2, <4>4, <4>5, <4>6
      <3> QED BY <2>3, <3>1, <3>2
    <2>5. \A t \in Sweeper : sweep'[t].current = b => sweep[t].current = b
      BY <1>2, <2>4
    <2>6. CASE x = b
      <3>1. b \notin stored /\ BeingSwept(b)
        BY <2>1, <2>6 DEF BlobOK, BeingSwept
      <3>2. ~BeingUploaded(b)
        BY <3>1 DEF Separated
      <3>3. \A c \in Client : client[c].blob = b => client[c].pc # "schedule"
        BY <3>2 DEF BeingUploaded, UploadSteps
      <3>4. inventory'[b] = "absent"
        BY <2>2, <2>6
      <3> QED BY <1>0, <2>1, <2>5, <3>1, <3>3, <3>4 DEF BlobOK
    <2>7. CASE x # b
      <3>1. CleanupComes(b) => CleanupComes(b)'
        BY <1>1, <1>3, <2>4, <2>7 DEF CleanupComes, BeingSwept
      <3> QED BY <1>0, <1>1, <1>3, <2>1, <2>2, <2>5, <2>7, <3>1, OtherBlob
    <2> QED BY <2>6, <2>7
  <1>7. CASE SweepFails(s)
    <2>1. UNCHANGED <<stored, inventory>> /\ due' /\ sweep' = [sweep EXCEPT ![s] = Resting]
      BY <1>7 DEF SweepFails, blobs
    <2>2. \A t \in Sweeper : sweep'[t].current = b => sweep[t].current = b
      BY <1>2, <2>1 DEF Resting
    <2>3. CleanupComes(b)'
      BY <2>1 DEF CleanupComes
    <2> QED BY <1>0, <1>1, <1>3, <2>1, <2>2, <2>3, OtherBlob
  <1> QED BY <1>4, <1>5, <1>6, <1>7 DEF Sweep

(* Every step keeps the undisturbed blobs in order.                        *)
LEMMA BlobsStayOK ==
    ASSUME LayersOnce, Types, Apart, disturbed \subseteq Blob \cup Manifest, [Next]_vars,
           NEW b \in Blob \ disturbed', BlobOK(b)
    PROVE  BlobOK(b)'
  <1>1. /\ Separated /\ Separated' /\ disturbed \subseteq disturbed'
        /\ \A c \in Client : UploadUndone(c) \/ RequestFails(c) => Uses(c) \cup Removes(c) \subseteq disturbed'
    BY HistoryNext, Separate
  <1>2. ASSUME NEW c \in Client, Upload(c) \/ UploadUndone(c) \/ DropBlob(c) PROVE BlobOK(b)'
    BY <1>1, <1>2, UploadBlobOK
  <1>3. ASSUME NEW c \in Client, PutManifest(c) \/ DeleteManifest(c) PROVE BlobOK(b)'
    BY <1>3, ManifestStepsBlobOK
  <1>4. ASSUME NEW c \in Client, RequestFails(c) PROVE BlobOK(b)'
    BY <1>1, <1>4, FailsBlobOK
  <1>5. ASSUME NEW x \in Blob, Age(x) \/ CleanupDue(x) PROVE BlobOK(b)'
    BY <1>5, TimeBlobOK
  <1>6. ASSUME NEW s \in Sweeper, Sweep(s) PROVE BlobOK(b)'
    BY <1>1, <1>6, SweepBlobOK
  <1>7. CASE UNCHANGED vars
    <2>1. (Retired(b)' <=> Retired(b)) /\ (Secured(b)' <=> Secured(b))
      BY <1>7, OthersElsewhere, UntouchedSecures
    <2>2. UNCHANGED <<stored, inventory, later, due, client, sweep>>
      BY <1>7 DEF vars, blobs, jobs
    <2>3. (BeingDropped(b) => BeingDropped(b)') /\ (BeingUploaded(b) => BeingUploaded(b)')
      BY <2>2 DEF BeingDropped, BeingUploaded
    <2>4. CleanupComes(b) => CleanupComes(b)'
      BY <2>2, <2>3, CleanupStays
    <2> QED BY <2>1, <2>2, <2>3, <2>4, OtherBlob
  <1> QED BY <1>2, <1>3, <1>4, <1>5, <1>6, <1>7 DEF Next

-----------------------------------------------------------------------------
(* The invariant.                                                          *)

(* The part of it that does not depend on what the manifests list.         *)
Base == Types /\ Apart /\ disturbed \subseteq Blob \cup Manifest

(* It holds at the start,                                                  *)
LEMMA BaseInit == Init => Base
  <1> SUFFICES ASSUME Init PROVE Base
    OBVIOUS
  <1>1. Types
    BY TypesInit
  <1>2. \A c \in Client : Uses(c) = {}
    BY DEF Init, Quiet, Uses, Uploading, Dropping, Deleting, Putting, At
  <1>3. Used = {}
    BY <1>2 DEF Used
  <1> QED BY <1>1, <1>3 DEF Init, Base, Apart

(* and after every step.                                                   *)
LEMMA BaseNext == Base /\ [Next]_vars => Base'
  BY TypesNext, HistoryNext DEF Base

(* The invariant holds at the start,                                       *)
LEMMA InvInit == Init => IInv
  <1> SUFFICES ASSUME Init PROVE IInv
    OBVIOUS
  <1>0. None \notin Manifest \cup Blob
    BY OciAssumption
  <1>1. Base
    BY BaseInit
  <1>2. \A c \in Client : client[c].pc = "idle" /\ client[c].manifest = None /\ client[c].blob = None
    BY DEF Init, Quiet
  <1>3. ASSUME NEW m \in Manifest PROVE ManifestOK(m) /\ LayersOK(m)
    <2>1. m \notin listed /\ tag # m /\ status[m] = "absent" /\ \A c \in Client : client[c].manifest # m
      BY <1>0, <1>2 DEF Init
    <2> QED BY <2>1 DEF ManifestOK, LayersOK
  <1>4. ASSUME NEW b \in Blob PROVE BlobOK(b)
    <2>1. /\ stored = {} /\ inventory[b] = "absent" /\ \A c \in Client : client[c].blob # b
          /\ \A s \in Sweeper : sweep[s].current # b
      BY <1>0, <1>2 DEF Init, Resting
    <2> QED BY <2>1 DEF BlobOK
  <1> QED BY <1>1, <1>3, <1>4 DEF IInv, Base

(* after every step,                                                       *)
LEMMA InvNext == LayersOnce /\ IInv /\ [Next]_vars => IInv'
  <1> SUFFICES ASSUME LayersOnce, IInv, [Next]_vars PROVE IInv'
    OBVIOUS
  <1>1. Base /\ Types /\ Apart /\ disturbed \subseteq Blob \cup Manifest
    BY DEF IInv, Base
  <1>2. Base' /\ disturbed \subseteq disturbed'
    BY <1>1, BaseNext, HistoryNext
  <1>3. ASSUME NEW m \in Manifest \ disturbed' PROVE ManifestOK(m)' /\ LayersOK(m)'
    <2>1. ManifestOK(m) /\ LayersOK(m)
      BY <1>2 DEF IInv
    <2> QED BY <1>1, <2>1, ManifestsStayOK, LayersStayOK
  <1>4. ASSUME NEW b \in Blob \ disturbed' PROVE BlobOK(b)'
    <2>1. BlobOK(b)
      BY <1>2 DEF IInv
    <2> QED BY <1>1, <2>1, BlobsStayOK
  <1> QED BY <1>2, <1>3, <1>4 DEF IInv, Base

(* and so always.                                                          *)
LEMMA Invariant == ASSUME LayersOnce PROVE Spec => []IInv
  BY InvInit, InvNext, PTL DEF Spec

-----------------------------------------------------------------------------
(* What the invariant promises.                                            *)

(* A request with a manifest is in progress with it.                       *)
LEMMA WorkIsProgress ==
    ASSUME Types, NEW m \in Manifest
    PROVE  Working(m, PutSteps \cup DeleteSteps) => InProgress(m)
  <1>1. ASSUME NEW c \in Client, client[c].pc \in PutSteps \cup DeleteSteps
        PROVE  Putting(c) \/ Deleting(c)
    BY <1>1 DEF Putting, Deleting, Uploading, Dropping, At, PutSteps, DeleteSteps
  <1> QED BY <1>1 DEF Working, InProgress

(* The references and the blobs of an undisturbed published manifest are   *)
(* there.                                                                  *)
LEMMA InvCompletes == IInv => UndisturbedIsComplete
  <1> SUFFICES ASSUME IInv, NEW m \in Manifest \ disturbed, status[m] = "published", ~InProgress(m)
               PROVE  /\ m \in listed /\ m \in kept
                      /\ BlobsOf(m) \ disturbed \subseteq stored \cap refs[m]
    BY DEF UndisturbedIsComplete
  <1>1. ~Working(m, PutSteps \cup DeleteSteps)
    BY WorkIsProgress DEF IInv
  <1>2. /\ ~Working(m, {"remove", "retire"}) /\ ~Working(m, {"unlist", "remove", "retire"})
        /\ ~Working(m, PutSteps)
    BY <1>1 DEF Working, PutSteps, DeleteSteps
  <1>3. ManifestOK(m) /\ LayersOK(m)
    BY DEF IInv
  <1>4. m \in listed /\ m \in kept
    BY <1>2, <1>3 DEF ManifestOK
  <1>5. \A k \in Index(m) : Inserted(m, k)
    BY <1>2, <1>3 DEF ManifestOK
  <1>6. \A k \in Index(m) : Layers[m][k] \in refs[m]
    BY <1>2, <1>5, NobodyPuts
  <1>7. \A k \in Index(m) : Layers[m][k] \notin disturbed => Layers[m][k] \in stored
    BY <1>2, <1>3 DEF LayersOK
  <1> QED BY <1>4, <1>6, <1>7, Places

(* The tag names a manifest that can be pulled.                            *)
LEMMA InvServes == IInv => TagIsServed
  <1> SUFFICES ASSUME IInv, tag \in Manifest \ disturbed PROVE Served(tag) \/ InProgress(tag)
    BY DEF TagIsServed
  <1>1. PICK m \in Manifest \ disturbed : m = tag
    OBVIOUS
  <1>2. m \in listed /\ Closable(m)
    BY <1>1 DEF IInv, ManifestOK
  <1>3. ASSUME NEW c \in Client, Closer(c, m) PROVE Working(m, PutSteps \cup DeleteSteps)
    BY <1>3 DEF Closer, Working, PutSteps
  <1>4. status[m] = "published" \/ InProgress(m)
    BY <1>2, <1>3, WorkIsProgress DEF Closable, IInv
  <1> QED BY <1>1, <1>2, <1>4 DEF Served

(* An undisturbed blob that is stored is in the inventory, and somebody    *)
(* answers for it.                                                         *)
LEMMA InvForgetsNothing == IInv => NothingForgotten
  <1> SUFFICES ASSUME IInv, NEW b \in stored \ (disturbed \cup Used)
               PROVE  /\ inventory[b] # "absent"
                      /\ \/ Referenced(b) \/ b \in later \/ due
                         \/ \E s \in Sweeper : b \in sweep[s].todo \/ sweep[s].full
                         \/ \E c \in Client : Dropping(c) /\ client[c].blob = b
    BY DEF NothingForgotten
  <1>0. client \in [Client -> Request]
    BY DEF IInv, Types, Requests
  <1>1. b \in Blob /\ BlobOK(b)
    BY DEF IInv, Types, Rows
  <1>2. \A c \in Client : client[c].pc \in PutSteps \cup DeleteSteps => b \notin BlobsOf(client[c].manifest)
    BY <1>0, UsedAndRemoved DEF Used
  <1>3. ~BeingUploaded(b)
    BY <1>0, UsedAndRemoved DEF Used, BeingUploaded
  <1>4. ~Retired(b)
    BY <1>2 DEF Retired, Working, DeleteSteps
  <1>5. Secured(b) => Referenced(b)
    <2>1. ASSUME NEW m \in Manifest, NEW k \in Index(m), Layers[m][k] = b, Closable(m), Inserted(m, k)
          PROVE  Referenced(b)
      <3>1. b \in BlobsOf(m)
        BY <2>1, Places
      <3>2. \A c \in Client : ~Closer(c, m) /\ ~Inserter(c, m, k)
        BY <1>2, <3>1 DEF Closer, Inserter, PutSteps
      <3> QED BY <2>1, <3>2 DEF Closable, Inserted, Referenced
    <2> QED BY <2>1 DEF Secured
  <1>6. inventory[b] # "absent" /\ (CleanupComes(b) \/ Referenced(b))
    BY <1>1, <1>3, <1>4, <1>5 DEF BlobOK
  <1>7. BeingDropped(b) => \E c \in Client : Dropping(c) /\ client[c].blob = b
    BY DEF BeingDropped, Dropping, DropSteps
  <1> QED BY <1>6, <1>7 DEF CleanupComes, BeingSwept

(* Whatever is listed, requested and swept, the tables, the store and the  *)
(* jobs hold what they are declared to hold.                               *)
THEOREM TypeCorrect == Spec => []TypeOK
  <1>1. Base => TypeOK
    BY DEF Base, Types, Rows, TypeOK
  <1> QED BY <1>1, BaseInit, BaseNext, PTL DEF Spec

(* However many pushes, deletions, uploads and clean-ups overlap and break *)
(* off (replace_manifest_references and the rest of manifest_put without a *)
(* transaction): a published manifest that was never put and deleted at    *)
(* once can be pulled, with every blob that was not removed while another  *)
(* request worked with it.                                                 *)
THEOREM PublishedCanBePulled ==
    ASSUME LayersOnce PROVE Spec => []UndisturbedIsComplete
  BY Invariant, InvCompletes, PTL

(* A tag names a manifest that is served, or is being pushed or deleted    *)
(* (upsert_tag_alias after publish_manifest_release, and manifest_delete   *)
(* that takes the tag away first).                                         *)
THEOREM TagsAreServed ==
    ASSUME LayersOnce PROVE Spec => []TagIsServed
  BY Invariant, InvServes, PTL

(* No blob stays in the store without a row of inventory, and none that no *)
(* published manifest refers to without a clean-up to come, whatever the   *)
(* batch size and wherever a clean-up or a request breaks off.             *)
THEOREM NoBlobIsForgotten ==
    ASSUME LayersOnce PROVE Spec => []NothingForgotten
  BY Invariant, InvForgetsNothing, PTL
=============================================================================
