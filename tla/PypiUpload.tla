------------------------------ MODULE PypiUpload ------------------------------
(* twine upload, one request per distribution file:                        *)
(* crates/adapters/pypi/src/routes.rs.  "main" is the wheel, "extra" the   *)
(* source distribution.                                                    *)
EXTENDS NativeRegistry

\* load_project_files
PypiIndex == Listing(Readable)

\* download_distribution
PypiDownload(f) == Download(f)

PypiResolve(p) == \E f \in {"main", "extra"} : Resolve(p, f, "find")
PypiCreate(p) == CreatePackage(p, "find", "recheck")
PypiRecheck(p) == Recheck(p, "find")

\* The status column is read without a cast to text: what string_column makes of
\* it may be the status or the empty string.
PypiFind(p) ==
    \/ FindVersion(p, "add", "inspect")
    \/ /\ At(p, "find") \/ At(p, "reload")
       /\ Exists
       /\ push' = [push EXCEPT ![p].pc = "inspect", ![p].row = release.id,
                               ![p].seen = [release EXCEPT !.status = "absent"]]
       /\ OnlyPush
PypiAdd(p) == AddVersion(p, "inspect")

\* upload_artifact_for_release: a file that is there is not stored again; a new
\* one is accepted whatever the status of the release.
PypiInspect(p) ==
    /\ At(p, "inspect")
    /\ LET stored == IF Stored(push[p].row) THEN artifacts[push[p].file] ELSE None
       IN  Goto(p, IF stored = None THEN "store"
                   ELSE IF stored = push[p].content THEN "finalize" ELSE "done")
    /\ OnlyPush

\* A failed upload leaves the release as it is.
PypiStore(p) == Store(p, "record") \/ StoreFails(p, "done")
PypiRecord(p) == Record(p, "finalize")

\* desired_upload_release_status, from the flags as they were read
DesiredStatus(seen) ==
    IF seen.yanked THEN "yanked" ELSE IF seen.deprecated THEN "deprecated" ELSE "published"

\* finalize_upload_release
PypiFinalize(p) ==
    /\ At(p, "finalize")
    /\ IF push[p].seen.status \in {"quarantine", "scanning"}
       THEN SetStatus(push[p].row, DesiredStatus(push[p].seen)) ELSE UNCHANGED release
    /\ Goto(p, "done")
    /\ UNCHANGED <<names, artifacts, extras, tag, objects, manage, spoilt>>

PypiUpload(p) ==
    \/ PypiResolve(p) \/ PypiCreate(p) \/ PypiRecheck(p) \/ PypiFind(p) \/ PypiAdd(p)
    \/ PypiInspect(p) \/ PypiStore(p) \/ PypiRecord(p) \/ PypiFinalize(p)
=============================================================================
