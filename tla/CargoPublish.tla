----------------------------- MODULE CargoPublish -----------------------------
(* cargo publish, yank and unyank:                                         *)
(* crates/adapters/cargo-registry/src/routes.rs.                           *)
EXTENDS NativeRegistry

\* serve_index_entry: a readable version with its artifact; cargo metadata that
\* is missing shows as a crate without dependencies.
CargoIndex == Listing(Readable)

\* download_crate
CargoDownload(f) == Download(f)

CargoResolve(p) == Resolve(p, "main", "version")
CargoCreate(p) == CreatePackage(p, "version", "version")
CargoInsert(p) == InsertVersion(p)
\* Mutant: a refused object leaves the row.
CargoStoreUnclean(p) == Store(p, "record") \/ StoreFails(p, "done")
CargoStore(p) == Store(p, "record") \/ StoreFails(p, "drop")
CargoDrop(p) == DropVersion(p)
CargoRecord(p) == Record(p, "describe")
CargoDescribe(p) == Describe(p, "publish")
CargoSetPublished(p) == Publish(p, "done")

CargoPublish(p) ==
    \/ CargoResolve(p) \/ CargoCreate(p) \/ CargoInsert(p)
    \/ CargoStore(p) \/ CargoDrop(p) \/ CargoRecord(p)
    \/ CargoDescribe(p) \/ CargoSetPublished(p)

\* resolve_cargo_release_for_write, then one UPDATE by id: neither looks at
\* is_deprecated.
CargoSelect(m) == Select(m, "yank", Readable) \/ Select(m, "unyank", Readable)
CargoYank(m) == Yank(m, "yank", TRUE, "idle")
CargoUnyank(m) == Yank(m, "unyank", FALSE, "idle")

CargoManage(m) == CargoSelect(m) \/ CargoYank(m) \/ CargoUnyank(m)
=============================================================================
