------------------------------ MODULE NpmPublish ------------------------------
(* npm publish and dist-tags: crates/adapters/npm/src/routes.rs.           *)
EXTENDS NativeRegistry

\* get_packument_inner: every readable version, with the hash of its tarball
\* row even if there is none.
NpmIndex == IF release.status \in Readable THEN {<<"main", artifacts["main"]>>} ELSE {}

\* download_tarball_inner
NpmDownload(f) == Download(f)

NpmResolve(p) == Resolve(p, "main", "version")
\* The loser of the race goes on with the winner's package, unchecked.
NpmCreate(p) == CreatePackage(p, "version", "version")
NpmInsert(p) == InsertVersion(p)
\* Mutant: a refused object does not end the request.
NpmStoreIgnoring(p) == Store(p, "record") \/ StoreFails(p, "record")
NpmStore(p) == Store(p, "record") \/ StoreFails(p, "drop")
NpmDrop(p) == DropVersion(p)
NpmRecord(p) == Record(p, "publish")
NpmSetPublished(p) == Publish(p, "tag")

\* Mutant: the status is not looked at.
NpmPointTagUnchecked == tag' = release.id

\* set_dist_tag_inner is a SELECT of the release by its version, a check of its
\* status, and an upsert.  A readable release stays readable and keeps its row,
\* so the upsert may come at once.
NpmPointTag == tag' = IF release.status \in Readable THEN release.id ELSE tag

\* The tags of a publish request; a failure is passed over.
NpmTag(p) ==
    /\ At(p, "tag")
    /\ NpmPointTag \/ UNCHANGED tag
    /\ Goto(p, "done")
    /\ UNCHANGED <<names, release, artifacts, extras, objects, manage, spoilt>>

NpmPublish(p) ==
    \/ NpmResolve(p) \/ NpmCreate(p) \/ NpmInsert(p)
    \/ NpmStore(p) \/ NpmDrop(p) \/ NpmRecord(p)
    \/ NpmSetPublished(p) \/ NpmTag(p)

NpmSetDistTag ==
    /\ NpmPointTag
    /\ UNCHANGED <<names, release, artifacts, extras, objects, push, manage, spoilt>>

\* 'latest' cannot be removed, any other tag can.
NpmDeleteDistTag ==
    /\ tag # None
    /\ tag' = None
    /\ UNCHANGED <<names, release, artifacts, extras, objects, push, manage, spoilt>>

NpmManage == NpmSetDistTag \/ NpmDeleteDistTag
=============================================================================
