---------------------------- MODULE ComposerPublish ---------------------------
(* Composer publish and yank: crates/adapters/composer/src/routes.rs.      *)
EXTENDS NativeRegistry

\* package_metadata leaves yanked versions out; download still serves them.
ComposerIndex == Listing({"published", "deprecated"})
ComposerDownload(f) == Download(f)

ComposerResolve(p) == Resolve(p, "main", "version")
\* Mutant: the loser of the race goes on.
ComposerCreateUnchecked(p) == CreatePackage(p, "version", "version")
ComposerCreate(p) == CreatePackage(p, "version", "recheck")
ComposerRecheck(p) == Recheck(p, "version")
ComposerInsert(p) == InsertVersion(p)
ComposerStore(p) == Store(p, "record") \/ StoreFails(p, "drop")
ComposerDrop(p) == DropVersion(p)
ComposerRecord(p) == Record(p, "publish")
ComposerSetPublished(p) == Publish(p, "done")

ComposerPublish(p) ==
    \/ ComposerResolve(p) \/ ComposerCreate(p) \/ ComposerRecheck(p) \/ ComposerInsert(p)
    \/ ComposerStore(p) \/ ComposerDrop(p) \/ ComposerRecord(p) \/ ComposerSetPublished(p)

\* yank_package: the status is part of the UPDATE.
ComposerYank ==
    /\ release.status \in Readable
    /\ SetYanked(release.id, TRUE)
    /\ UNCHANGED <<names, artifacts, extras, tag, objects, push, manage, spoilt>>
=============================================================================
