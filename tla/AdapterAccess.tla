----------------------------- MODULE AdapterAccess -----------------------------
(***************************************************************************)
(* The decisions of the seven native adapters, which do not call the       *)
(* control plane's but repeat them: who publishes a package that exists    *)
(* (has_package_write_access), who creates one and where (auto_create_     *)
(* package, select_default_repository), and who reads (can_read_package).  *)
(* None of them asks for a second factor.                                  *)
(***************************************************************************)
EXTENDS ResourceAccess

Adapter == {"npm", "cargo", "nuget", "composer", "rubygems", "maven", "pypi"}

\* Publishing by ownership, by role, and by a grant on the package or also on the
\* repository.
ByOwner(u) ==
    \/ owner["package"] = u
    \/ owner["package"] \in Org /\ role[owner["package"]][u] \in PublishRoles
ByGrant(r, u) ==
    owner["package"] \in Org /\ Granted(r, u) \cap {"admin", "publish"} # {}

NpmPublishes(u) == ByOwner(u) \/ ByGrant("package", u) \/ ByGrant("repository", u)
CargoPublishes(u) == ByOwner(u) \/ ByGrant("package", u) \/ ByGrant("repository", u)
NugetPublishes(u) == ByOwner(u) \/ ByGrant("package", u)
ComposerPublishes(u) == ByOwner(u) \/ ByGrant("package", u) \/ ByGrant("repository", u)
RubygemsPublishes(u) == ByOwner(u) \/ ByGrant("package", u)
\* Mutant: any grant on the repository admits.
MavenPublishesByAny(u) == ByOwner(u) \/ ByGrant("package", u) \/ HasGrant("repository", u)
MavenPublishes(u) == ByOwner(u) \/ ByGrant("package", u) \/ ByGrant("repository", u)
PypiPublishes(u) == ByOwner(u) \/ ByGrant("package", u) \/ ByGrant("repository", u)

AdapterPublishes(a, u) ==
    CASE a = "npm" -> NpmPublishes(u)
      [] a = "cargo" -> CargoPublishes(u)
      [] a = "nuget" -> NugetPublishes(u)
      [] a = "composer" -> ComposerPublishes(u)
      [] a = "rubygems" -> RubygemsPublishes(u)
      [] a = "maven" -> MavenPublishes(u)
      [] a = "pypi" -> PypiPublishes(u)

-----------------------------------------------------------------------------
(* Creating: whether the repository is one the adapter may choose for the  *)
(* user, and how visible the package becomes.                              *)

OwnRepository(u) == owner["repository"] = u
DelegatedRepository(u) ==
    /\ owner["repository"] \in Org
    /\ \/ role[owner["repository"]][u] \in AdminRoles
       \/ Granted("repository", u) \cap PermissionsFor("create") # {}

NpmCreates(u) == OwnRepository(u) \/ DelegatedRepository(u)
CargoCreates(u) == OwnRepository(u) \/ DelegatedRepository(u)
NugetCreates(u) == OwnRepository(u)
ComposerCreates(u) == OwnRepository(u) \/ DelegatedRepository(u)
RubygemsCreates(u) == OwnRepository(u)
\* Maven alone looks at the claim on the namespace.
MavenClaimed == owner["namespace"] \notin {None, owner["repository"]}
MavenCreates(u) == (OwnRepository(u) \/ DelegatedRepository(u)) /\ ~MavenClaimed
PypiCreates(u) ==
    /\ OwnRepository(u) \/ DelegatedRepository(u)
    /\ visibility["repository"] = "internal_org" => owner["repository"] \in Org

AdapterCreates(a, u) ==
    CASE a = "npm" -> NpmCreates(u)
      [] a = "cargo" -> CargoCreates(u)
      [] a = "nuget" -> NugetCreates(u)
      [] a = "composer" -> ComposerCreates(u)
      [] a = "rubygems" -> RubygemsCreates(u)
      [] a = "maven" -> MavenCreates(u)
      [] a = "pypi" -> PypiCreates(u)

\* NuGet reads the visibility as a text, fails, and takes public; RubyGems knows
\* two other ones.
AdapterVisibility(a) ==
    IF \/ a = "nuget"
       \/ a = "rubygems" /\ visibility["repository"] \notin {"private", "unlisted"}
    THEN "public" ELSE visibility["repository"]

-----------------------------------------------------------------------------
(* Reading, of the package and of its repository.                          *)

ReadsOwn(r, u) == Anonymous(r) \/ BelongsTo(r, u)
ReadsBoth(u, granted) ==
    (ReadsOwn("package", u) \/ granted) /\ (ReadsOwn("repository", u) \/ granted)

NpmReads(u) == ReadsBoth(u, HasGrant("package", u) \/ HasGrant("repository", u))
CargoReads(u) == ReadsBoth(u, HasGrant("package", u) \/ HasGrant("repository", u))
\* As the control plane does, see PackageRead.
NugetReads(u) ==
    LET onPackage == ~BelongsTo("package", u) /\ HasGrant("package", u)
        onRepository == ~BelongsTo("repository", u) /\ ~onPackage /\ HasGrant("repository", u)
    IN  ReadsBoth(u, onPackage \/ onRepository)
ComposerReads(u) == ReadsBoth(u, FALSE)
RubygemsReads(u) == ReadsBoth(u, FALSE)
MavenReads(u) == ReadsBoth(u, FALSE)
PypiReads(u) ==
    (ReadsOwn("package", u) \/ HasGrant("package", u)) /\ ReadsOwn("repository", u)

AdapterReads(a, u) ==
    CASE a = "npm" -> NpmReads(u)
      [] a = "cargo" -> CargoReads(u)
      [] a = "nuget" -> NugetReads(u)
      [] a = "composer" -> ComposerReads(u)
      [] a = "rubygems" -> RubygemsReads(u)
      [] a = "maven" -> MavenReads(u)
      [] a = "pypi" -> PypiReads(u)
=============================================================================
