---------------------------- MODULE NativeRegistry ----------------------------
(***************************************************************************)
(* What the native publish adapters (crates/adapters/*/src/routes.rs)      *)
(* share: the rows of one version of one package, the artifact store, and  *)
(* the requests under way.  Each adapter is a module of its own on top of  *)
(* this one; NativePublish runs them.                                      *)
(*                                                                         *)
(* One version is enough: releases are unique by package and version, and  *)
(* no statement of an adapter touches two versions.  Its row is deleted    *)
(* and inserted again under a new id: here, the request that inserted it.  *)
(* Whether a user may write is a set that others change at any moment; how *)
(* it is computed is the subject of ResourceAccess.                        *)
(***************************************************************************)
EXTENDS FiniteSets

CONSTANTS
    User,       \* the people who publish
    Host,       \* those of them with a repository a new package may go to
    Content,    \* what is uploaded, as far as its SHA-256 tells it apart
    Push,       \* the publish requests, each made once
    Manager,    \* the yank, unlist and tag requests that may run at once
    None,
    Ecosystem,  \* the adapters that are run, one at a time
    Refusing    \* those of them whose artifact store may refuse an object

ASSUME NativeAssumption ==
    /\ Host \subseteq User
    /\ None \notin User \cup Content \cup Push
    /\ Refusing \subseteq Ecosystem
    /\ Ecosystem \subseteq {"npm", "cargo", "nuget", "composer", "rubygems", "maven", "pypi"}

VARIABLES
    ecosystem,  \* packages.ecosystem: which adapter serves the package
    package,    \* the row of packages: the user it was created for, or None
    writers,    \* the users has_package_write_access admits
    release,    \* the row of releases
    artifacts,  \* its rows of artifacts: a file's content, or None
    objects,    \* the keys of the artifact store
    extras,     \* its row of <ecosystem>_release_metadata: none, listed, unlisted
    tag,        \* the release a dist-tag points to, or None
    push,       \* the publish requests
    manage,     \* the other requests
    spoilt      \* history: a request was cut short

names == <<ecosystem, package, writers>>
rows == <<release, artifacts, extras, tag>>
registry == <<names, rows, objects>>
nativeVars == <<registry, push, manage, spoilt>>

(* The file of a single-file format, a Maven POM or a wheel; a jar or an   *)
(* sdist; and the checksum of that jar.                                    *)
File == {"main", "extra", "sum"}
Readable == {"published", "deprecated", "yanked"}
NoRelease == [id |-> None, status |-> "absent", yanked |-> FALSE, deprecated |-> FALSE]
NoFiles == [f \in File |-> None]
NoPush == [pc |-> "idle", user |-> None, file |-> "main", content |-> None,
           row |-> None, seen |-> NoRelease, entitled |-> FALSE]
NoManage == [pc |-> "idle", row |-> None]

Key(row, f, c) == <<row, f, c>>

\* What an index in `statuses` says of the files, and what a download finds.
Listing(statuses) ==
    IF release.status \in statuses
    THEN {<<f, artifacts[f]>> : f \in {g \in File : artifacts[g] # None}} ELSE {}
Download(f) ==
    IF release.status \in Readable /\ Key(release.id, f, artifacts[f]) \in objects
    THEN artifacts[f] ELSE None

Exists == release.id # None
Stored(row) == Exists /\ release.id = row

RegistryInit ==
    /\ ecosystem \in Ecosystem
    /\ package = None /\ writers = {}
    /\ release = NoRelease /\ artifacts = NoFiles /\ extras = "none" /\ tag = None
    /\ objects = {}
    /\ push = [p \in Push |-> NoPush]
    /\ manage = [m \in Manager |-> NoManage]
    /\ spoilt = FALSE

-----------------------------------------------------------------------------
(* The statements of a publish request, in the order the adapters run      *)
(* them.  `next` is the step that follows.                                 *)

At(p, pc) == push[p].pc = pc
Goto(p, pc) == push' = [push EXCEPT ![p].pc = pc]
OnlyPush == UNCHANGED <<registry, manage, spoilt>>

\* The SELECT of the package and, if it is there, has_package_write_access: the
\* package does not go away again, so the two are one step.
Resolve(p, f, next) ==
    /\ At(p, "idle")
    /\ \E u \in User, c \in Content :
          /\ IF package = None THEN u \in Host ELSE u \in writers
          /\ push' = [push EXCEPT ![p] =
                        [pc |-> IF package = None THEN "create" ELSE next, user |-> u,
                         file |-> f, content |-> c, row |-> None, seen |-> NoRelease,
                         entitled |-> TRUE]]
    /\ OnlyPush

\* INSERT INTO packages; `raced` follows a unique violation.
CreatePackage(p, next, raced) ==
    /\ At(p, "create")
    /\ IF package = None
       THEN /\ package' = push[p].user
            /\ writers' = {push[p].user}
            /\ Goto(p, next)
            /\ UNCHANGED ecosystem
       ELSE /\ push' = [push EXCEPT ![p].pc = raced, ![p].entitled = FALSE]
            /\ UNCHANGED names
    /\ UNCHANGED <<rows, objects, manage, spoilt>>

\* The check of the package another request created meanwhile.
Recheck(p, next) ==
    /\ At(p, "recheck")
    /\ push' = [push EXCEPT ![p].pc = IF push[p].user \in writers THEN next ELSE "done",
                            ![p].entitled = push[p].user \in writers]
    /\ OnlyPush

\* SELECT and INSERT of a version nobody may publish twice: a row that is there,
\* or comes in between, answers the request.
InsertVersion(p) ==
    /\ At(p, "version")
    /\ IF Exists
       THEN Goto(p, "done") /\ UNCHANGED release
       ELSE /\ release' = [NoRelease EXCEPT !.id = p, !.status = "quarantine"]
            /\ push' = [push EXCEPT ![p].pc = "store", ![p].row = p]
    /\ UNCHANGED <<names, artifacts, extras, tag, objects, manage, spoilt>>

\* SELECT of a version that takes several files; `next` inserts it.
FindVersion(p, next, found) ==
    /\ At(p, "find") \/ At(p, "reload")
    /\ IF Exists
       THEN push' = [push EXCEPT ![p].pc = found, ![p].row = release.id, ![p].seen = release]
       ELSE Goto(p, IF At(p, "find") THEN next ELSE "done")
    /\ OnlyPush

\* INSERT of that version; a unique violation reads the row that won.
AddVersion(p, found) ==
    /\ At(p, "add")
    /\ IF Exists
       THEN Goto(p, "reload") /\ UNCHANGED release
       ELSE /\ release' = [NoRelease EXCEPT !.id = p, !.status = "quarantine"]
            /\ push' = [push EXCEPT ![p].pc = found, ![p].row = p, ![p].seen = release']
    /\ UNCHANGED <<names, artifacts, extras, tag, objects, manage, spoilt>>

\* artifact_put, under a key with the release, the digest and the name.
Store(p, next) ==
    /\ At(p, "store")
    /\ objects' = objects \cup {Key(push[p].row, push[p].file, push[p].content)}
    /\ Goto(p, next)
    /\ UNCHANGED <<names, rows, manage, spoilt>>

StoreFails(p, next) ==
    /\ At(p, "store")
    /\ ecosystem \in Refusing
    /\ Goto(p, next)
    /\ OnlyPush

\* Mutant: the row is marked, not deleted.
DropVersionMarked(p) ==
    /\ At(p, "drop")
    /\ release' = IF Stored(push[p].row) THEN [NoRelease EXCEPT !.status = "deleted"] ELSE release
    /\ Goto(p, "done")
    /\ UNCHANGED <<names, artifacts, extras, tag, objects, manage, spoilt>>

\* DELETE FROM releases WHERE id: ON DELETE CASCADE takes all that refers to it.
DropVersion(p) ==
    /\ At(p, "drop")
    /\ IF Stored(push[p].row)
       THEN /\ release' = NoRelease /\ artifacts' = NoFiles
            /\ extras' = "none" /\ tag' = None
       ELSE UNCHANGED rows
    /\ Goto(p, "done")
    /\ UNCHANGED <<names, objects, manage, spoilt>>

\* Mutant: ON CONFLICT DO UPDATE.
RecordReplacing(p, next) ==
    /\ At(p, "record")
    /\ IF Stored(push[p].row)
       THEN /\ artifacts' = [artifacts EXCEPT ![push[p].file] = push[p].content]
            /\ Goto(p, next)
       ELSE Goto(p, "done") /\ UNCHANGED artifacts
    /\ UNCHANGED <<names, release, extras, tag, objects, manage, spoilt>>

\* INSERT INTO artifacts ON CONFLICT DO NOTHING; without its release it fails.
Record(p, next) ==
    /\ At(p, "record")
    /\ LET f == push[p].file
       IN  IF Stored(push[p].row)
           THEN /\ artifacts' = IF artifacts[f] = None
                                THEN [artifacts EXCEPT ![f] = push[p].content] ELSE artifacts
                /\ Goto(p, IF artifacts'[f] = push[p].content THEN next ELSE "done")
           ELSE Goto(p, "done") /\ UNCHANGED artifacts
    /\ UNCHANGED <<names, release, extras, tag, objects, manage, spoilt>>

\* INSERT INTO <ecosystem>_release_metadata, whose failure is passed over.
Describe(p, next) ==
    /\ At(p, "describe")
    /\ \/ extras' = IF Stored(push[p].row) THEN "listed" ELSE extras
       \/ UNCHANGED extras
    /\ Goto(p, next)
    /\ UNCHANGED <<names, release, artifacts, tag, objects, manage, spoilt>>

\* UPDATE releases SET status = ... WHERE id, whatever the status is by now.
SetStatus(row, status) ==
    release' = IF Stored(row) THEN [release EXCEPT !.status = status] ELSE release

Publish(p, next) ==
    /\ At(p, "publish")
    /\ SetStatus(push[p].row, "published")
    /\ Goto(p, next)
    /\ UNCHANGED <<names, artifacts, extras, tag, objects, manage, spoilt>>

\* A statement fails, the client goes away or the process ends.
CutShort(p) ==
    /\ push[p].pc \notin {"idle", "done"}
    /\ Goto(p, "done")
    /\ spoilt' = TRUE
    /\ UNCHANGED <<registry, manage>>

-----------------------------------------------------------------------------
(* The requests that change a published version: the release is found by   *)
(* its status first and then overwritten by its id.                        *)

Select(m, op, statuses) ==
    /\ manage[m].pc = "idle"
    /\ release.status \in statuses
    /\ manage' = [manage EXCEPT ![m] = [pc |-> op, row |-> release.id]]
    /\ UNCHANGED <<registry, push, spoilt>>

\* UPDATE releases SET is_yanked = ..., status = ... WHERE id
SetYanked(row, yanked) ==
    release' = IF Stored(row)
               THEN [release EXCEPT !.yanked = yanked,
                                    !.status = IF yanked THEN "yanked" ELSE "published"]
               ELSE release

Yank(m, op, yanked, next) ==
    /\ manage[m].pc = op
    /\ SetYanked(manage[m].row, yanked)
    /\ manage' = [manage EXCEPT ![m] = IF next = "idle" THEN NoManage
                                       ELSE [pc |-> next, row |-> manage[m].row]]
    /\ UNCHANGED <<names, artifacts, extras, tag, objects, push, spoilt>>

-----------------------------------------------------------------------------
(* Around the adapters: grants, roles and the owner change, and the        *)
(* control plane works on the same row.  Its handlers' own interleavings   *)
(* are those of ReleasePipeline; each is one step here.                    *)

Regrant ==
    /\ package # None
    /\ \E w \in SUBSET User : w # {} /\ writers' = w
    /\ UNCHANGED <<ecosystem, package, rows, objects, push, manage, spoilt>>

\* publish_release
Submit ==
    /\ release.status = "quarantine"
    /\ artifacts # NoFiles
    /\ release' = [release EXCEPT !.status = "scanning"]
    /\ UNCHANGED <<names, artifacts, extras, tag, objects, push, manage, spoilt>>

\* ScanArtifactHandler's UPDATE at the end of the last scan
Conclude ==
    /\ release.status = "scanning"
    /\ release' \in {[release EXCEPT !.status = "quarantine"],
                     [release EXCEPT !.status = IF release.yanked THEN "yanked"
                                                ELSE IF release.deprecated THEN "deprecated"
                                                ELSE "published"]}
    /\ UNCHANGED <<names, artifacts, extras, tag, objects, push, manage, spoilt>>

\* yank_release, unyank_release, deprecate_release and undeprecate_release
Moderate ==
    /\ \/ /\ release.status \in Readable
          /\ release' \in {[release EXCEPT !.yanked = TRUE, !.status = "yanked"],
                           [release EXCEPT !.deprecated = TRUE, !.status = "deprecated"]}
       \/ /\ release.yanked
          /\ release' = [release EXCEPT !.yanked = FALSE,
                            !.status = IF release.deprecated THEN "deprecated" ELSE "published"]
       \/ /\ release.deprecated
          /\ release' = [release EXCEPT !.deprecated = FALSE,
                            !.status = IF release.yanked THEN "yanked" ELSE "published"]
    /\ UNCHANGED <<names, artifacts, extras, tag, objects, push, manage, spoilt>>

ControlPlane == Regrant \/ Submit \/ Conclude \/ Moderate
=============================================================================
