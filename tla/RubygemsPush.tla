----------------------------- MODULE RubygemsPush -----------------------------
(* gem push and gem yank: crates/adapters/rubygems/src/routes.rs.          *)
EXTENDS NativeRegistry

\* gem_metadata and gem_versions name the version and its sha256.
RubygemsIndex == Listing(Readable)
RubygemsDownload(f) == Download(f)

RubygemsResolve(p) == Resolve(p, "main", "version")
RubygemsCreate(p) == CreatePackage(p, "version", "version")
RubygemsInsert(p) == InsertVersion(p)
RubygemsStore(p) == Store(p, "record") \/ StoreFails(p, "drop")
RubygemsDrop(p) == DropVersion(p)
RubygemsRecord(p) == Record(p, "describe")
RubygemsDescribe(p) == Describe(p, "publish")
RubygemsSetPublished(p) == Publish(p, "done")

RubygemsPush(p) ==
    \/ RubygemsResolve(p) \/ RubygemsCreate(p) \/ RubygemsInsert(p)
    \/ RubygemsStore(p) \/ RubygemsDrop(p) \/ RubygemsRecord(p)
    \/ RubygemsDescribe(p) \/ RubygemsSetPublished(p)

\* yank_gem: one UPDATE by version, whatever the status.
RubygemsYank ==
    /\ Exists
    /\ SetYanked(release.id, TRUE)
    /\ UNCHANGED <<names, artifacts, extras, tag, objects, push, manage, spoilt>>
=============================================================================
