------------------------------ MODULE MavenDeploy -----------------------------
(* mvn deploy, one PUT per file: crates/adapters/maven/src/routes.rs and   *)
(* publish.rs.  "main" is the POM, "extra" the jar, "sum" the checksum or  *)
(* signature of the jar.                                                   *)
EXTENDS NativeRegistry

\* metadata_get names the version; checksum_get the digest of each of its files.
MavenIndex == Listing(Readable)
MavenDownload(f) == Download(f)

\* parse_maven_upload: the role of a file
CanStartRelease(f) == f \in {"main", "extra"}
TriggersPublication(f) == f = "main"

\* A checksum neither creates the package nor the release.
MavenResolve(p) ==
    \E f \in File :
        /\ CanStartRelease(f) \/ package # None
        /\ Resolve(p, f, "find")
MavenCreate(p) == CreatePackage(p, "find", "recheck")
MavenRecheck(p) == Recheck(p, "find")

MavenFind(p) ==
    FindVersion(p, IF CanStartRelease(push[p].file) THEN "add" ELSE "done", "inspect")
MavenAdd(p) == AddVersion(p, "inspect")

\* release_accepts_new_artifacts, of the release as it was read: an hour after
\* its publication a release is closed.
AcceptsNewArtifacts(p, inGrace) ==
    \/ push[p].seen.status \in {"quarantine", "scanning"}
    \/ push[p].seen.status = "published" /\ inGrace

\* ensure_target_artifact_exists and the look at the file that may be there
MavenInspect(p) ==
    /\ At(p, "inspect")
    /\ \E inGrace \in BOOLEAN :
          LET here == Stored(push[p].row)
              stored == IF here THEN artifacts[push[p].file] ELSE None
          IN  Goto(p, CASE push[p].file = "sum" /\ ~(here /\ artifacts["extra"] # None) -> "done"
                        [] OTHER ->
                           IF stored = push[p].content THEN "apply"
                           ELSE IF stored = None /\ AcceptsNewArtifacts(p, inGrace) THEN "store"
                           ELSE "done")
    /\ OnlyPush

\* The request that inserted the release takes it away again when its own file
\* cannot be stored.
MavenStore(p) ==
    \/ Store(p, "record")
    \/ StoreFails(p, IF push[p].row = p THEN "drop" ELSE "done")
MavenDrop(p) == DropVersion(p)
MavenRecord(p) == Record(p, "apply")

\* apply_post_upload_updates: the POM publishes a release that was in quarantine
\* when the request read it.
MavenApply(p) ==
    /\ At(p, "apply")
    /\ IF TriggersPublication(push[p].file) /\ push[p].seen.status \in {"quarantine", "scanning"}
       THEN SetStatus(push[p].row, "published") ELSE UNCHANGED release
    /\ Goto(p, "done")
    /\ UNCHANGED <<names, artifacts, extras, tag, objects, manage, spoilt>>

MavenDeploy(p) ==
    \/ MavenResolve(p) \/ MavenCreate(p) \/ MavenRecheck(p) \/ MavenFind(p) \/ MavenAdd(p)
    \/ MavenInspect(p) \/ MavenStore(p) \/ MavenDrop(p) \/ MavenRecord(p) \/ MavenApply(p)
=============================================================================
