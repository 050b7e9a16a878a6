# Publaryn: TLA+ models, model checking and proofs

Publaryn is a package registry in Rust: one HTTP server (axum) that serves a control-plane API and
the native protocols of eight ecosystems, a background worker in the same process, PostgreSQL for
all state, an object store for files, a search index, and Redis for rate limiting. This directory
holds TLA+ models of its stateful parts, the TLC configurations that check them, and proofs TLAPS checks.

Several replicas of the server may run against one database, so whatever a handler reads before an
`await` another replica, another request or the worker can change before the next statement. Few
handlers use a transaction around all they do. The models are therefore about what happens *between*
statements: each handler is cut at the statements, store calls and enqueues whose effect another
actor can see, and a transaction that locks the rows it has read is one step.

## 1. Inventory

For each component: state / operations / interactions / what is hard / what makes it correct.
`PROJECT.json` lists the same components with their source files, and the hazards line by line.

### Modelled

**Background job queue** (`crates/workers/src/queue.rs`, `migrations/010`, `routes/admin.rs`).
State: rows of `background_jobs` (status, attempts, lock, schedule). Operations: `enqueue`,
`claim_jobs` (`FOR UPDATE SKIP LOCKED`, oldest first), `complete_job`, `fail_job` (back-off or dead
letter), `recover_stale_jobs`, `cleanup_old_jobs`, and the operator's retry and recover. Used by every
handler that enqueues. Hard: a lock is a lease in wall-clock time and nothing renews it; outcomes are
written by id alone, whoever holds the lock; a claim may be committed and its answer lost. Correct when
one job is in one handler, an outcome is recorded by the holder, nothing is lost, and dead means tried
often enough.

**Worker loop** (`crates/workers/src/worker.rs`, `crates/api/src/main.rs`). State: the claimed batch,
worked through one by one; the shutdown signal. Hard: jobs at the end of a batch wait under a lock that
started with the first; a crash, a drain time-out, a lost statement at any point. Correct when every job
is settled in the end.

**Release lifecycle** (`routes/packages.rs`), **artifact scanning** (`workers/src/scanners.rs`,
`api/src/job_handlers.rs`) and **findings review** (`routes/security.rs`). State: the row of the release
(status, `is_yanked`, `is_deprecated`), artifact rows, objects, findings, scan jobs. Operations: create,
upload, publish, scan, finalize, reindex, yank / unyank, deprecate / undeprecate, resolve / reopen a
finding. The scan handler finds out by counting unfinished scan jobs whether it is the last one and has
to finalize. Hard: uploads racing each other and the publish; two scans ending together; a scan that is
repeated after a crash; management requests that write what they derived from an older reading. Correct
when a listed file can be fetched and never changes, nothing is readable unscanned, nothing readable
becomes unreadable, and scanning ends.

**OCI manifests and blobs, and their clean-up** (`adapters/oci/src/routes.rs`,
`api/src/job_handlers.rs`, `migrations/017`, `migrations/023`). State: blobs and manifests in the store, the
blob inventory with its age, releases, artifact rows, `oci_manifest_references`, tags, clean-up jobs.
Operations: blob upload and deletion, manifest push and deletion, tag deletion, the clean-up of
unreferenced old blobs. Hard: no transaction anywhere; the same digest in several repositories; a push that
found a blob the clean-up has already selected. Correct when a published manifest can be pulled completely.

**Organizations: members, ownership, invitations, teams** (`routes/orgs.rs`,
`routes/org_invitations.rs`). State: memberships and roles, teams and their members, invitations, the MFA
requirement. Operations: create, update; add, change, remove a member; transfer the ownership; invite,
re-invite, revoke, accept, decline; create and delete a team, add and remove its members. Hard: the
actor is authorized once, before the statements that do the work; checks and inserts are separate
statements. Correct when there is one owner, an answer to an invitation is final, an acceptance does no more than
admit, and teams contain the organization's people.

**Native publish adapters** (`adapters/{npm,cargo-registry,nuget,composer,rubygems,maven,pypi}/src`).
State: package, release, artifacts, the ecosystem's metadata row, dist-tags, objects. Operations: publish or
deploy, yank, unlist, tag, and the index and the download that readers see. They write the tables the
control plane writes, but publish without scanning. Hard: seven different orders of statements without a
transaction; a refused object or a lost client between any two; two publishes of one version; a version
that takes several files over time. Correct when an index lists what can be downloaded, and the content of
a version never changes.

**Grants, authorization, packages, repositories and namespaces** (`request_auth.rs`,
`core/src/authz_queries.rs`, `routes/{orgs,packages,repositories,namespaces,search}.rs`, and the copies of
the decisions in every adapter). State: owners of the three kinds of resource, visibility, the grants
of teams, roles and team memberships. Operations: replace and remove a grant; transfer a package, a
repository, a claim; create a package, from either side; claim and release a namespace; change a
visibility. Hard: the actor is checked before the transaction that does the work; grants are replaced while
the resource changes hands; one rule is implemented eight times. Correct when only people of the present
owner write, no old grant comes back into force, and all implementations agree.

**Login, second factor, API tokens and trusted publishing** (`routes/{auth,tokens,trusted_publishers,
pypi_oidc}.rs`, `auth/src/mfa.rs`). State: the MFA columns of an account, JWTs, token rows, publishers, the
replay table. Operations: log in, set up, confirm and disable the second factor, answer its challenge; create, revoke
and expire a token; exchange an external assertion for a short-lived one. Hard: the account is read in one
statement and written whole in another, and one of those writes may be lost unnoticed. Correct when a
recovery code works once, and an assertion buys one token that works for one thing.

**Search** only as a decision: who is shown which package.

### Not modelled

- *OCI*: chunked upload sessions (they end in the same three steps as an upload in one request) and
  subject references (they protect no blob); the resolution of its packages, which is the adapters' once more.
- *Control plane*: creation of repositories, archiving, and fields of packages, repositories and organizations
  that decide nothing; scopes of credentials and the capability flags of responses (functions of the
  modelled rows); channel tags of other ecosystems than npm.
- *Authentication*: passwords, deactivated accounts, expiry of JWTs (the model may use one at any time, which
  only allows more), and the verification of external assertions (`auth/src/oidc.rs`: cryptography).
- *The search index*: a document that is out of date is filtered by the rows when it is shown.
- *Rate limiting*: one counter per window in Redis, which fails open; its key names its window.
- *Audit log* (append-only, read by no decision), *users, statistics and overview endpoints* (reads and
  one-statement updates), *package analysis, protocol parsing and validation* (functions over text, covered by
  unit tests; the registry's decisions depend on no more than their outcome), *storage, configuration, router,
  OpenAPI, health* (wiring), *web frontend* (a client), *migrations and test utilities* (the schema's
  constraints are part of the modules that rest on them).

## 2. Plan

| order | module | state |
|---|---|---|
| 1 | `QueueContract` (abstract), `JobQueue` | done; proofs in `JobQueueProofs` |
| 2 | `ReleasePipeline`, on top of `QueueContract` | done; proofs in `ReleaseProofs` |
| 3 | `OciBlobs` | done; proofs in `OciProofs` |
| 4 | `OrgMembership` | done; proofs in `OrgMembershipProofs` |
| 5 | `ResourceAccess`, `AdapterAccess`, `Governance` | done; proofs in `GovernanceProofs` |
| 6 | `FixedFiles` (abstract), `NativeRegistry`, one module per adapter, `NativePublish` | done; proofs in `NativeProofs` |
| 7 | `ApiTokens`, `Credentials` | done; proofs in `CredentialsProofs` |

Every invariant and action property the passing runs check is proved, and so are both refinements; liveness is not
(section 6). Worth having next: that `NativePublish` with a refusing Maven store still keeps the files of one
*release row*, and a history in `OciBlobs` fine enough to say which blob of a manifest listed twice survives.

## 3. Modules and the code

`PROJECT.json` maps each definition to its lines. Operators introduced by a comment "Mutant" or "Mutation" are not part
of a specification: they are forms of a definition with a plausible bug, used to confirm that a property would
notice it.

**`QueueContract`** is what users of the queue may rely on: a job is submitted, taken by one worker, settled by
that worker, orphaned when the worker is gone, reclaimed, retried when dead, discarded when old.

**`JobQueue`** is queue and workers in detail. `rows` is the table; of wall-clock time it keeps one flag per
row, `elapsed` (a pending job is due, a lock has expired, a finished row is old), set by `TimePasses`;
`ahead` is the order of `scheduled_at`. `life` and `mem` are the worker instances and the claimed batch.
`Poll`/`PollLost` are `claim_jobs` with and without an answer, `Record`/`RecordLost` the outcome with and
without an effect. An instance's id is used once, as in the code (a UUID per start). `attempts` saturates
just above `max_attempts`, because it is only compared with it. `LocksCanLapse` says whether a lock may expire
under a live worker: nothing in the code renews a lock, so what is claimed with it `FALSE` is what the
configured time-out must guarantee.

**`ReleasePipeline`** is one release (releases share no row these handlers write, except through search).
It composes with the queue through `QueueContract`, which `JobQueue` implements. A worker has one job in hand: the
rest of its batch is counted as unfinished just as a waiting job is. `upload`, `publish`, `manage` and `scan`
keep how far a running handler has come *and what it read before*, which is what a later step goes by.
Findings of one file are one member of a set; severity is the set `Blocking`.

**`OciBlobs`** is the whole registry's blobs and manifests. `inventory` keeps fresh / aged instead of
timestamps; a clean-up job is due or not. `disturbed` is history: what has been removed by one request
while another was using it, or was left by a request that broke off. Dead-lettered clean-ups are left out. An
upload is taken to last less than the grace period (a week). `Layers` is what a manifest lists, repetitions
included: the parser keeps them, and the second `INSERT` of the same reference violates the primary key.

**`OrgMembership`** is one organization. `request` keeps what an authorized administrative request is still
going to do: `Begin` is `ensure_org_admin_by_slug` with the checks on the body, the later steps do not look at the
actor again. Transfers, acceptances and refusals lock what they read and are one step each. Ids of teams
and invitations are used once. `admitted` is history: who has ever been a member.

**`NativeRegistry`** has what the seven adapters share: the rows of one version of one package, the artifact store,
and the statements of a publish request, each as a step of its own with the step that follows as a parameter
(`Resolve`, `CreatePackage`, `InsertVersion` or `FindVersion`/`AddVersion`, `Store`, `Record`, `Describe`, `Publish`,
`DropVersion`). A release row is deleted and inserted again under another id: here the request that inserted
it. **`NpmPublish`, `CargoPublish`, `NugetPush`, `ComposerPublish`, `RubygemsPush`, `MavenDeploy`, `PypiUpload`** put these
statements in the order of their handler, with what is theirs alone: npm's tags, Cargo's and NuGet's two-step yank
and unlist, Composer's second look at the permission, Maven's and PyPI's several files per version, what each
index lists and each download serves. **`NativePublish`** runs the adapter of `ecosystem` against changing
permissions and against the control plane's handlers (one step each: their own interleavings are
`ReleasePipeline`'s), and shows that it implements **`FixedFiles`**, the abstract registry whose files never
change their content. `spoilt` is history: a request was cut short.

**`ResourceAccess`** has the decisions as operators over the rows of roles, teams, owners, visibilities and grants:
`PackageWrite`, `ResourceWrite`, `PackageRead`, `RepositoryRead`, `Found` (search). A decision is allowed,
missing or lacks the second factor, and sources are asked in the code's order. **`AdapterAccess`** has the adapters' copies, one
operator per adapter and question, because they differ. **`Governance`** changes the rows: every handler
is a check and, later, a transaction. `InsertGrant` keeps what a transaction has seen when its `DELETE` ran, since
`READ COMMITTED` lets two replaces of one team's grants merge. `squatted` is history.

**`ApiTokens`** has the table of tokens, the replay table, the publishers, and what each kind of endpoint takes;
the row and the token of an exchange are one transaction. **`Credentials`** adds one account: every handler of
the second factor is a reading and a writing of all its columns. A set-up is its number, `disturbed` is history:
a write rested on an outdated reading, or was lost.

The `MC...` modules only name finite sets for the constants, symmetry sets and state constraints.

## 4. Runs

| run | what it shows | instance |
|---|---|---|
| `queue_lease` | the lease discipline, one delivery at a time, dead means exhausted, and `JobQueue` implements `QueueContract` | 2 jobs, 3 worker instances, batches of 2, 2 attempts, no lapse |
| `queue_live` | every job settles; lock and status agree also when locks lapse | 2 jobs (one kind without handler), 2 instances, lapsing locks |
| `release_gate` | stored before listed, immutable content, nothing readable unscanned, nothing unpublished, flags and status agree | 1 file name, 2 contents, 2 uploads, 1 publish, 1 management request, 2 workers, 2 jobs, failures anywhere |
| `release_live` | scanning ends; what is finalized is reindexed | 2 files, 1 worker, 3 jobs, no failures |
| `release_stuck` | **violation**: scanning never ends | the same with 2 workers |
| `oci_shared` | published manifests are complete unless a removal overlapped with a use; tags name what can be pulled | 1 blob shared by 2 manifests, 2 clients, 1 clean-up |
| `oci_failures` | the same when requests, inventory rows and clean-ups fail; no blob is forgotten | 2 blobs in 1 manifest, 1 client, 2 clean-ups, batches of 1 |
| `org_people` | one owner, final answers, admissions only, teams of the organization | 2 users (one with MFA), 2 requests, 2 invitations, 1 team |
| `native_publish` | what is listed is served, inserts are by writers, nothing is stuck in quarantine, tags are readable, and `NativePublish` implements `FixedFiles` | each of 7 ecosystems, 2 users, 2 contents, 2 publish requests, 1 yank or unlist request; Maven's store refuses nothing |
| `native_replaced` | **violation**: a Maven file is served with another content | Maven, 1 user, 2 contents, 3 requests, refused objects |
| `access` | writers are of the present owner, adapters admit no more, readers agree, the second factor is asked, no grant revives | 2 users (one with MFA), 2 organizations (one strict) with a team each, 2 roles, 3 requests, 2 visibilities |
| `credentials` | recovery codes work once and belong to their secret; an assertion buys one token for one thing | 1 account, 2 requests, 2 set-ups of 2 codes, 2 tokens, 1 assertion, 2 packages |

Five further configurations are kept for reading their counterexamples: `OrgOwner.cfg`, `OciSwept.cfg`,
`ReleaseSkipped.cfg`, `JobQueueAttempts.cfg`, `AccessClaims.cfg`. Each checks one invariant a document states and TLC
finds violated (section 5).

*Why the bounds are enough.* A race needs two actors and one thing to fight for; a third actor is there
where two of them can only disagree about a third one's state: three worker instances, so that a job lost by one
and recovered by another can be taken by a third while the first outcome is still under way; two clean-ups,
because one re-enqueues the next; three requests in `access`, so that a grant checked before a transfer can be inserted
after it and a second transfer can follow; three deploys in `native_replaced`, one to lose its object, one to publish
beside it, one to publish again. With two deploys Maven keeps its promise even with refused objects, but three requests
are the smallest that break it, so the passing run does not claim it for Maven at all. Batches of two give a copy
that waits while another is in its handler. Two scan
jobs suffice for each to be the other's last. Two organizations with a team each are what a transfer needs; the grants
that occur (`SmallGrants`) are one that lets publish, one that does everything, one that only reads. Every action and every
disjunct of the next-state relations fires in a passing run. The properties that the proofs cover do not depend on the
bounds at all.

*Deadlock* is checked for the queue and the OCI registry. `ReleasePipeline` is excepted because the bounded job
ids run out, and `OrgMembership` because an organization without an owner or administrator left really
allows no further step (`OrgOwner.cfg` shows how it comes to that). In `NativePublish` and `Governance` each request runs
once, and in `Credentials` set-ups and tokens run out.

*Symmetry* is used where the permuted values occur in no constant and in no property by name: clients and
(as both have the same layers) manifests in `oci_shared`; requests and invitations in `org_people`; users, contents
and publish requests in `native_publish`, where all users are hosts; requests in `access`; all sets of `credentials`.
No temporal liveness property is checked with symmetry.

*State constraints.* `Worthwhile` (`MCOciBlobs`) stops where everything is disturbed, where the
properties hold vacuously and `disturbed` never shrinks. `Apart` (`MCOrgMembership`) leaves out behaviours
that use the team *and* the second invitation: the two share no row but the memberships, each of them is
explored fully with one invitation, or without the team. Only safety is checked under a constraint.

*Fairness.* Queue (`Fairness`): a loop that is running goes on (`WF` on the start of an instance and on the end
of a handler, which has a time limit of its own), time passes, the poll and recovery timers are ticks of
`tokio::select!` that come again and again (`SF`, because a claim by one worker disables another's), a handled job's
outcome is not lost for ever (`SF` on `Settles`), and answers of claims are lost only finitely often. An instance stops
only when a replacement may be started. Release (`FairSpec`): requests that have begun and jobs that are due go on
(`WF`); no fairness on users starting anything.

## 5. Disagreements found

With a run of `PROJECT.json`:

1. `release_stuck` — the last two scans of a release run in two workers: each counts the other's job, which
   is completed only after its handler has returned, and leaves the finalization to it. Nothing looks at
   the release again; `publish` answers that scanning is already in progress.
2. `native_replaced` — a Maven deploy whose object cannot be stored deletes the release it inserted, together
   with the files other requests have added to it and published meanwhile. A later deploy may then publish other content under the
   same names, although releases are immutable.

With one of the further configurations:

3. `OrgOwner.cfg`, `OwnerRemains` — `add_member` refuses the owner's role for the *new* role, but its `ON CONFLICT DO UPDATE`
   overwrites the role the user *has*: adding the present owner with any role, by the owner or by any
   administrator, leaves the organization without an owner. ADR 0004 says generic member management rejects
   owner-role removal; `remove_member` does, `add_member` does not.
4. `ReleaseSkipped.cfg`, `ScannedBeforeReadable` — a file uploaded while scanning can have its row before its job, and the
   publish enqueues its jobs one by one outside the transaction: the scan of another file counts only itself and
   publishes a release whose other file is not scanned.
5. `OciSwept.cfg`, `PublishedIsComplete` — the clean-up selects candidates and then deletes them without looking again; a
   manifest whose push has already found the blob is published without it.
6. `JobQueueAttempts.cfg`, `AttemptsWithinLimit` — a job whose worker dies is recovered and claimed again without comparing
   `attempts` with `max_attempts`; only a handler's `Err` that reaches the database is ever dead-lettered.
7. `AccessClaims.cfg`, `ClaimsAreRespected` — a package appears in a namespace somebody else has claimed: npm and Composer
   never look at the claim, and `create_package` looks before its transaction only.

Seen while translating; the modules have them, no property is about them:

- The native adapters publish without a scan, and none asks for the second factor an organization requires.
- The loser of the race to create a package goes on without a check of its permission in npm, Cargo, NuGet
  and RubyGems (`InsertedByWriter` is about the other three).
- `yank_gem` updates whatever the status is, and so makes a version that never left quarantine readable as yanked.
- PyPI reads `status` without a cast and may take it for the empty string (`PypiFind`); NuGet makes every package it
  creates public for a similar reason, RubyGems makes those in `internal_org` and `quarantined` repositories public.
- NuGet and RubyGems create packages in a user's own repositories only, and ignore grants on repositories.
- A member of the organization that owns a package in another organization's private repository is not asked for a
  package grant of his team (`PackageRead`), although ADR 0012 lets it count.
- Grants on a repository count only for its owner's teams, and go on counting for a package that has been
  transferred away from that owner.
- People who have left an organization keep the rights of its teams.
- Two concurrent replaces of a team's grants leave the union of both.
- A transfer permitted by a check is carried out although the permission is gone by then.
- Two MFA challenges write back the recovery codes they have read, a lost write is ignored, and the challenge does
  not ask whether the second factor is still enabled.
- The OCI parser does not remove repeated blobs of a manifest, and the plain `INSERT` of the repeated reference fails on
  the primary key: such a push stores and lists its manifest and is then answered with an error.
- A trusted publisher removed during an exchange still yields a token, and publishers survive transfers.

## 6. Proofs

TLAPS checks these for every value of the constants allowed by the modules' assumptions.

**`JobQueueProofs`.** `TypeCorrect` and `LocksMatch` (a row has a lock exactly while it is running) hold with lapsing
locks too. `LeasesHold`, `OneDeliveryAtATime`, `DeadAreExhausted` and `ImplementsContract` assume
`~LocksCanLapse`. The argument is the lease: `OneDelivery` is not inductive, since it says nothing about the
copies waiting in a batch or about recovered rows. `LeaseInv` says that every unsettled copy of a live worker is
backed by a row that is running, locked by that worker and still has the attempt number of the copy; claims
pick pending rows only, recovery only rows whose lock has expired, so none of them disturbs another's lease.
The refinement maps a row to its stage (an expired or ownerless running row is orphaned) and each
step of the queue to a step of `QueueContract` or a stutter. `AttemptsGrow` is an action property that is
proved only: attempts never shrink while a row exists.

**`OrgMembershipProofs`.** `OwnershipIsNotShared`, `TeamsStayInTheOrg`, `AnswersStay`, `AcceptanceAdmits`,
`TypeCorrect`, with no assumption but that `None` is no user. `AtMostOneOwner` is not inductive: creation
would add an owner to an organization with one. `IInv` adds `Founded`: before the organization exists nobody has
a role, a running request or an open invitation. `TeamsAreOfTheOrg` needs `RequestsAreChecked`: a row about to be
inserted is that of someone who was a member when the check ran, and `admitted` only grows. That
no request or invitation carries the owner's role is part of the types, and what keeps appointments
from making a second owner.

**`ReleaseProofs`.** `TypeCorrect`, `ListedIsStored`, `ContentStays` and `ReadableStays` hold for any number of
files, contents, jobs, workers and requests and with every kind of failure, with no assumption but
`PipelineAssumption`. `StoredBeforeListed` is not inductive: the insertion of a row must know that its own
upload wrote the object. `IInv` adds `UploadsAreStored` (a running upload names a file and a content and has stored
the object before it inserts the row) and `ManagedIsReadable` (flags are set, and management requests are
under way, on readable releases only, so that the status a request writes replaces a readable one).
`ContentIsImmutable` and `NeverUnpublished` are action properties: only `UploadInsert` writes an artifact, and only
where there is none; only `Finalize` and management write the status of a release that may be
readable, and `Finalize` requires `scanning`.
Three more hold under a condition, without which they are false. `FlagsAndStatusAgree` is about the behaviours in
which management requests never overlap (`OneManagement`, for any number of them), since each writes what it derived from a
flag it read earlier; `FlagsFit` adds that a request still has the flag as it is, and that a scan that has seen a flag comes too late.
`OneFileIsScannedFirst` is about behaviours in which at most one file is listed (`OneFile`; a second one may be skipped, section 5)
and no scanner's failure is swallowed; `OnlyFileIsScanned` ties a handler that is past its scanners to a file that is listed
and scanned. `ReadableIsIndexed` leaves out a handler or worker that breaks off between the `UPDATE` and the enqueue, which nothing makes up for.

**`OciProofs`.** `TypeCorrect`, `PublishedCanBePulled`, `TagsAreServed` and `NoBlobIsForgotten`, for any blobs, manifests,
requests, clean-ups, batch sizes and failures. `OciAssumption` says that digests are finite in number, which the size of a
`LIMIT`ed batch needs. None of the three properties is inductive: each speaks of requests that have ended, and everything
happens while they run. The invariant has a part for every undisturbed manifest and for every undisturbed blob:
`ManifestOK` follows the row, the object, the tag and the references through pushes and deletions, `LayersOK` says that the blobs of a
published manifest, and those a push has checked, are stored and in nobody's hand, `BlobOK` that a blob nobody uploads has a
row and somebody who answers for it (a clean-up to come, a deletion that will schedule one, or a manifest).
A second push takes the references of a published manifest away before it inserts them again, so "the references are there" is
replaced by "or a request will insert them" (`Inserted`), "published" by "or will be" (`Closable`); `PutPersists` shows
that a push never takes away the last such request. `Apart` is the link to the history: what is used and
removed at once is disturbed, and so `Separate` may conclude that outside `disturbed` no push meets a
deletion, and no blob in use is in the hand of a clean-up.
The last three theorems assume `LayersOnce`: no manifest lists a blob twice. A manifest that does cannot be pushed without an error, and its
re-insertion breaks off where `Inserted` promises that it goes on; two pushes of it at once really leave a published manifest
without a reference.

**`NativeProofs`.** `TypeCorrect`, `IndexIsServed`, `VersionsAreInsertedByWriters`, `NoVersionIsBlocked` and `TagsAreReadable` for all
seven ecosystems, any users, contents, requests and refusals, and `FilesAreFixed`: `NativePublish` implements `FixedFiles`.
`ServedAsListed` says nothing of a request between its statements. `CoreInv` adds what each knows there: `RequestOK` (the
object is stored before the row is recorded; who has to look again has been let in), `OwnerOK` (where a
version is one file, the row a request works on is its own, and has the file from `Record` on), `RowOK`, `OneFileOK` (a quarantined single-file version has a request
that is on its way to publish or drop it) and `ManageOK` (a yank or unlist has found the row readable). The refinement needs `FirstOK`: the content that
was served first is the recorded one. It assumes that Maven's store refuses nothing, because that is the case in which the promise is
broken (`native_replaced`): the clean-up of one refused file deletes the others. In the other ecosystems any object may be refused.
The statements shared by the adapters have lemmas of their own (those that keep the row, those that insert or drop it), and every
adapter's step is an instance.

**`GovernanceProofs`.** `NoGrantRevives` is the action property `NoRevival` for any number of organizations, teams and
requests. It rests on one strengthening of the types, `GrantsNeedResource`: what is not there has no grants, so that
a new claim or package wakes up none; a transfer takes the grants along; a late `INSERT` touches the grants of its own
team and resource only (`InsertLeaves`). `WritersAreTheOwners`, `AdaptersAreNotLaxer`, `ReadersAlwaysAgree` and
`SecondFactorIsAsked` compare the eight implementations of the decisions: they hold of every state whose rows have
their types, whatever the handlers do, and so need all of `Governance` only for `TypeCorrect`.

**`CredentialsProofs`.** `TypeCorrect`, `SecondFactor` and `AssertionsBuyOnce`. `SecondFactorIsSound` needs to know what a
request carries between reading and writing (`RequestsFit`: the secret to be activated was the pending one when the
account was read, the code to be spent was on the list) and that codes, left or used, are those of set-ups already written
(`CodesAreOfSetups`), so that the next set-up's are new. `TokensAreBound` needs `BoughtOnce`: an assertion is spent
exactly when one token names it.

**Only model-checked**: liveness (`EveryJobSettles`, `ScanningEnds`), because fairness and `ENABLED` are beyond the prover, and the two
runs that show a violation, where the counterexample is the result. No recursive definition or induction over data is needed.

## 7. Running

`tlc -config <cfg> MC<module>.tla` for a run of `PROJECT.json`; `tlapm <module>Proofs.tla` for the proofs.
