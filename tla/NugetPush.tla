------------------------------ MODULE NugetPush -------------------------------
(* nuget push, unlist and relist: crates/adapters/nuget/src/routes.rs.     *)
EXTENDS NativeRegistry

\* get_versions lists a readable version, whatever its metadata; download_content
\* finds the package by the name the index implies.
NugetIndex == IF release.status \in Readable THEN {<<"main", artifacts["main"]>>} ELSE {}
NugetDownload(f) == Download(f)

\* get_registration_index: what clients hide a version by; no handler reads it.
NugetListed == extras # "unlisted"

NugetResolve(p) == Resolve(p, "main", "version")
NugetCreate(p) == CreatePackage(p, "version", "version")
NugetInsert(p) == InsertVersion(p)
NugetStore(p) == Store(p, "record") \/ StoreFails(p, "drop")
NugetDrop(p) == DropVersion(p)
NugetRecord(p) == Record(p, "describe")
NugetDescribe(p) == Describe(p, "publish")
NugetSetPublished(p) == Publish(p, "done")

NugetPush(p) ==
    \/ NugetResolve(p) \/ NugetCreate(p) \/ NugetInsert(p)
    \/ NugetStore(p) \/ NugetDrop(p) \/ NugetRecord(p)
    \/ NugetDescribe(p) \/ NugetSetPublished(p)

\* Two statements by id, each of which may fail without a word: the release and
\* then is_listed.
NugetSelect(m) ==
    \/ Select(m, "unlist", {"published", "deprecated"})
    \/ Select(m, "relist", Readable)

NugetYank(m) == Yank(m, "unlist", TRUE, "hide") \/ Yank(m, "relist", FALSE, "show")

NugetSetListed(m) ==
    /\ manage[m].pc \in {"hide", "show"}
    /\ extras' = IF Stored(manage[m].row) /\ extras # "none"
                 THEN IF manage[m].pc = "hide" THEN "unlisted" ELSE "listed"
                 ELSE extras
    /\ manage' = [manage EXCEPT ![m] = NoManage]
    /\ UNCHANGED <<names, release, artifacts, tag, objects, push, spoilt>>

NugetSkip(m) ==
    /\ manage[m].pc \in {"unlist", "relist", "hide", "show"}
    /\ manage' = [manage EXCEPT ![m] =
                    CASE @.pc = "unlist" -> [@ EXCEPT !.pc = "hide"]
                      [] @.pc = "relist" -> [@ EXCEPT !.pc = "show"]
                      [] OTHER -> NoManage]
    /\ UNCHANGED <<registry, push, spoilt>>

NugetManage(m) == NugetSelect(m) \/ NugetYank(m) \/ NugetSetListed(m) \/ NugetSkip(m)
=============================================================================
