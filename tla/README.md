# crates.io in TLA+

This directory is a verification development of the crates.io backend: TLA+ modules that model its
parts, TLC configurations that check them on small instances, and TLAPS proofs for every
instance. `PROJECT.json` says which definition models which lines, which run checks which
property, which mutated definition each property notices, and which hazard of the code each property
is aimed at.

Source paths below are relative to the repository's root unless they begin with a crate's name.

## 1. The system and its parts

crates.io is a Rust web service on PostgreSQL. Request handlers (`src/controllers`) change the
database and enqueue background jobs in the same database. A second process
(`src/bin/background-worker.rs`) runs the jobs (`src/worker`), which bring everything outside the
database (the git index, the sparse index, files, CDN caches, mails, feeds) in line with it. Nearly
all state that matters is in the database, and all of it is shared: several web servers,
several workers and the operators' command line tool (`src/bin/crates-admin`) change it at once, at
the isolation level READ COMMITTED and often with several statements outside a transaction. That is
where the difficulty of this program is, and what the modules are about.

| part | state it keeps | operations, and how it meets the others | what makes it correct |
|---|---|---|---|
| Background job queue, `crates/crates_io_worker` | `background_jobs`, its row locks, retry counts | handlers enqueue in their transactions (plain or deduplicated); workers poll, lock, run, delete, retry, shut down | no committed change is left without a run that will see it; a job is removed only by success; live runs exclude each other |
| Index synchronisation, `worker/jobs/index/sync.rs` | git index, sparse index | jobs read the crate, later write the file | an index never goes back, and is current once all jobs are done |
| Git index repository, `worker/jobs/index`, `crates_io_index` | branches, clone of a process, snapshots, archive | sync, bulk sync, normalise, squash (by git or API), archive; one worker, two during a release | files follow the database; no history is lost; a dry run stays apart |
| Rate limiter, `src/rate_limiter.rs` | `publish_limit_buckets`, overrides | publish, yank and update take a token; several servers at once | no more requests than burst and refills; the retry time it tells is right to the second |
| Crate publication, deletion, name reservation, storage | `crates`, `versions`, `deleted_crates`, crate files | publish (upload inside the transaction), delete by owner or operator, `DeleteCrateFromStorage` | a version has its own file; a reserved name is not given away; the daily limit |
| Versions: yank, update, admin deletion, default version | `versions`, `default_versions` | publish in a transaction; yank as single statements; a job recomputes the default version | the default version is a version of the crate and settles on the best; jobs follow what was written |
| Owners and owner invitations | `crate_owners`, `crate_owner_invitations` | add, remove, accept, decline, expire | an individual owner stays; an invitation is good once; owners have none |
| CDN invalidation | `cloudfront_invalidation_queue`, caches | jobs purge Fastly and queue paths; one worker sends batches | no invalidation is forgotten, and caches become current |
| Download counting and its archive | `processed_log_files`, `version_downloads`, totals, archive | jobs fed by SQS; update, clean-up, archive | a log file counts once while it is remembered; nothing is lost between rows, totals and archive but on dates that are being archived |
| Trusted publishing | configurations, `trustpub_tokens`, `trustpub_used_jtis`, key stores | exchange, revoke, clean-up; tokens authenticate publish | a JWT is exchanged once; a token has a configuration; namespaces are bound by success only |
| Sessions, users and mail addresses, API tokens, administrators | cookies, `users`, `emails`, `api_tokens`, `oauth_github` | login, verification by mail, creation and revocation, expiry mails, `SyncAdmins` | who is logged in has logged in; verified means opened; marked means told, and told once but for lost marks and overlapping runs; grants follow the team |
| Listings, crate views, database dump | none of their own | several statements per response, pages per listing, one export transaction | seeking misses and repeats nothing; the parts of a response agree; a dump is coherent but for two references to users, and can be imported |
| Publish request and manifest | none | body, tarball, manifest, features, index entry | limits hold; what is indexed is what was published |
| Feeds, readmes, images and line counts, publish notifications, similar names, archive pages | files, `readme_renderings`, mails, a cache per process | jobs of the default queue, overlapping with deletions | derived data is complete or a job is left; mails are sent once, unless a worker is lost |
| GitHub app token, secret scanning, database pools and followed crates, crate settings | caches, pools, `follows`, `crates.trustpub_only` | concurrent requests, failures of GitHub or of a database | tokens last long enough; a reported token is revoked; a request is turned away only if no pool could serve it; the setting is enforced once its change is committed |
| Teams, web server and middleware, frontend | | | not modelled (section 6) |

The hard behaviours are listed in `PROJECT.json` under `hazards`, forty of them, each at its line with the
properties that would catch it going wrong. The ones that shaped the models most:

- a deduplicating enqueue races a worker that starts the job it found
  (`crates_io_worker/src/background_job.rs:72`), and a worker dies or loses its session between
  the effects of a job and the deletion of its row (`worker.rs:60`);
- an index run writes what it read before a newer run wrote (`sync.rs:43`);
- publish reads whether a name is free before its transaction (`publish.rs:137`), and a job that
  deletes all files of a name may outlive the reservation of the name (`delete_crate.rs:36`);
- timestamps are taken on web servers, upserts happen in the order of the database
  (`rate_limiter.rs:84`);
- the default version is calculated in one statement and saved in another
  (`default_versions.rs`), and a yank is committed before its jobs are enqueued (`update.rs:145`);
- two removals of owners check what is left without seeing each other (`owners.rs:293`);
- a JWT is sent twice at the same time, and its jti cleaned up (`exchange/mod.rs:76`);
- totals are updated from rows that were read before a lock was waited for (`update_metadata.sql:4`).

## 2. Modules

```
JobQueue <--EXTENDS-- IndexSync --refines--> IndexCopy      (abstract specification)

MCPublication   = RateLimiter | Publication | GitIndex
MCCredentials   = Sessions | MailAddresses | ApiTokens | Admins | TrustedPublishing | Ownership
MCCatalogue     = Listing | CrateView | DatabaseDump (over Schema)
MCArtifacts     = Manifest | Feeds | Readmes | CrateImages | PublishMail | SimilarNames | ArchiveIndex
MCClients       = InstallationToken | SecretScanning | Downloads, two updates at a time | Downloads, two archives
MCCrates        = CrateVersions, with the default version job | with the index job | CrateSettings | Following
MCJobQueue, MCIndexSync, CdnInvalidation, Ownership: one component each

*Proofs: JobQueue (with IndexSync), Catalogue (CrateVersions, Listing), GitIndex,
         Downloads (with CrateView),
         Publication (with RateLimiter),
         Credentials (Sessions, MailAddresses, ApiTokens, Admins, Ownership, TrustedPublishing),
         Artifacts (ArchiveIndex, PublishMail, Readmes, CrateImages, SimilarNames, Feeds),
         Clients (InstallationToken, CrateSettings, Following, SecretScanning, CdnInvalidation)
```

A module with `|` composes components that share no state in the code, or only through a row whose
every value the component already allows for. A behaviour of it is a behaviour of *one*
of them, chosen by the variable `part` in the initial state, while the others stay where
they began: this checks each component as if it had a run of its own, without the product of their states.

Definitions named `X_something` above a definition `X` are mutated forms of it (a dropped guard, a
forgotten reset). No specification uses them: they show that a property notices the bug.

An invariant named `...Inv` is the conjunction of a type invariant and of named parts, each with a comment
that says what code behaviour it is about.

**JobQueue.** The table `background_jobs` as functions of the row id, workers as a program counter along
`Worker::run_next_job`, clients as open transactions. `Similar` is the deduplicating subquery with
`FOR UPDATE SKIP LOCKED`: it sees committed rows and its own and passes over those locked by
others. `StartJob` is `find_next_unlocked_job`, `ReadInput`, `BodyOk` and `BodyErr` the body, which
runs on other connections; `DeleteSuccessfulJob` and `UpdateFailedJob` end a run, `Abort` is a crash or a
failed commit, `LoseConnection` a lost session whose body runs on. Time is in minutes and relative: `age`
since `last_retry`, `elapsed` since the worker's transaction began. `unseen` and `missed` are history: the
kinds with a committed change that no successful run has read, and the runs that read too early.

**IndexSync, IndexCopy.** The queue with one crate: `db` and `index` number committed states of the
crate, `content` is what `get_index_data` returned, `WriteIndex` the push or put. The git index job has one
worker (`src/bin/background-worker.rs`, an assumption of the module). `IndexCopy` is the abstract
specification: a copy that lags, never goes back and never shows what was not committed.

**GitIndex.** Commits with their tree and past, branches on GitHub, the bare clone of each process, and all jobs
that write them, with refused pushes, faults, and a second process while a release replaces the first.

**RateLimiter.** One bucket. `TakeTime` (the server's clock), `ReadBurst` (the override) and `Answer`
(the upsert) are the steps of a request. Arithmetic is that of the SQL expression, floor for negative quotients;
`WholeSeconds` is the format of the time that a rejected user is told.

**Publication.** The tables of crates, versions with their dependencies, deleted crates; the files; storage jobs.
`PublishCheck` is everything before the transaction, `PublishTxn` the statements up to the upload, `Upload`,
`PublishCommit`; `PublishRefused`, `PublishRollback`, `PublishCut` and `UploadCut` are its ends by error and by a lost
connection. `DeleteCheck`/`DeleteCommit` are `delete_crate`, the `Admin...` actions the operator's tool,
`StorageList`/`StorageDelete`/`StorageFail` the job. Row locks appear as guards on `InTxn`. `excused` is history: the
names that have met one of the three races in which a file may really be lost (below).

**CrateVersions.** One crate; `Publish`, `DeleteVersions`, `DeleteCrate` are transactions; a yank is the
sequence of its statements, which `Interrupt` may cut; `StartRun`, `CalculateDefault`, `SaveDefault`, `RunOk`,
`RunFails` are `UpdateDefaultVersion`. Jobs are counted rows: what the queue adds is in JobQueue. `Below` is `ord_tuple`.

**Ownership.** One crate; `BeginModify` .. `CommitModify` are the transaction of `modify_owners`, with what
it has written in `removed` and `added`, invisible to others until the commit; `LoadInvite`, `Accept`, `Decline` the
answers. `skewed`, `doubled` and `crossed` are history, one for each overlap a property excepts.

**CdnInvalidation.** Origins, edge caches, the queue of paths, the jobs that write files, `InvalidateCdns` and
`ProcessCloudfrontInvalidationQueue` with its batches, backoff and retries; `lost` records what a job has given up.

**Sessions, MailAddresses, ApiTokens, Admins, TrustedPublishing.** Cookies that each request copies and may
write back late; addresses whose trigger draws a new token, and links opened at any time; tokens, scopes and
the job that mails and then marks, in any number of runs at a time (a job that runs is no obstacle to the next
enqueue, and the default queue has several workers): `shared` are the tokens that a run has read while another had
them, `unmarked` those whose mark was lost after the mail. `SyncAdmins` statement by statement, again with runs that
overlap: `known` are the people of whom a run's answer still holds, `sure` those of them nobody has met with an older
answer since, and `settled` those of whom such a run has ended well. Exchanges with key store, jti, configurations
and tokens, for either provider: `FetchKeys` is the answer of the provider, `UpdateKeys` the later moment at
which the store takes it over and stamps it; keys may be published, and time may pass, in between. `RequestTime` bounds
that, as the web server drops a request after 30 seconds (`TimeoutLayer`, `src/middleware.rs:90`).

**Listing, CrateView, Schema, DatabaseDump.** A client that follows the links of a listing while rows change, for
fourteen kinds of listing, with the total that each page tells (0 on a page without rows, `pagination.rs:190`); responses put together from several statements; the export in one transaction, in runs that may overlap and write
the two archives one after the other, and the import script in the order of the foreign keys, over the whole schema.

**Manifest, Feeds, Readmes, CrateImages, PublishMail, SimilarNames, ArchiveIndex.** A publish request from its body
to its index entry for every input of small sets; the jobs that a publication enqueues, statement by
statement, with overlapping runs, deletions and failures.

**InstallationToken, SecretScanning, Following, CrateSettings, Downloads.** Callers of GitHub's API under one lock;
alerts and cached signature keys; two databases with their pools and fallbacks, a follower that lags and may not have
a token yet, and connections that break between the query of the token and the statement; PATCH of a setting, whose
mails leave inside its transaction, before the commit; log files from SQS message to totals and archive. In Downloads any
number of runs of each job may be at work at once, and a run of the archive has any date (`--before`). `forgiven` and
`twice` are history: marks that were forgotten, dates whose log files came after their export, and rows that two runs
of the update have read at once.

## 3. Runs

| run | instance | what it shows |
|---|---|---|
| `jobqueue` | 2 workers that stop when the queue is empty, 2 enqueuing transactions, one deduplicated kind, 2 rows, 1 retry | `QueueInv` (no lost wake-up, live runs exclude each other), `OnlySuccessRemoves`, `DrainedOnShutdown`, with crashes, rollbacks and lost sessions |
| `jobqueue_liveness` | 1 worker, a kind of the higher priority that may fail for ever | `ChangesAreSeen`: the backoff lets the lower priority through |
| `indexsync_git` | the one repository worker, 2 handlers, 2 changes | `SyncInv` (current once all changes were seen), the refinement `GitIndexIsCopy`, and `GitIndexCatchesUp` |
| `cdn_invalidation` | one file of each of the three kinds, batches of one path, 2 attempts, 1 failure | `CdnInv` (an outdated cache is known to some job or row; no row is stranded), `StaleIsPurged` |
| `crates` | 2 requests or commands, 2 workers, a release and a later pre-release, with the default version job or the index job; 2 PATCHes, a publication, one owner who may change once, a failure; 2 requests over 2 pools of one connection, an outage | `RowsSound` (default version, message only on yanked versions), `VersionsSettle`; `SettingInv`; `FollowInv` |
| `crateversions_liveness` | 1 request at a time, 1 worker, a release and a later pre-release, both jobs | `DefaultCatchesUp` |
| `publication` | *Publication*: 2 publications, 1 deletion, 1 operator, 1 storage worker on one name, limit 1 a day. *RateLimiter*: 2 requests, burst 2, overrides 0 and 3, rate 2, seconds of 2 units, time 0..4, 3 answers. *GitIndex*: 2 crates, 2 processes, 2 edits, 1 order, 1 fault | `PublicationInv`, `NameNotReused`; `RateInv`, `RetryAfterHonoured`; `GitInv`, `HistoryKept` |
| `credentials` | 2 browsers and 2 logins; 2 accounts, 2 addresses, 2 updates; 2 tokens, one per user, in 2 runs of the job that read one row at a time; a team of 2 with 2 changes and 2 runs; 3 JWTs, 2 exchanges, 1 configuration at a time, requests of 1 unit of time; 2 users, a team, 2 requests | `SessionsInv`, `MailInv`, `TokensInv`, `AdminsInv`, `TrustpubInv`, `ExchangedOnce`, `OwnershipInv` |
| `catalogue` | lists of up to 4 rows in pages of 1 or 2, one change; a crate of 3 versions with 2 changes; 2 crates, 2 writes, 2 dumps that may overlap | `ListInv`, `ViewInv`, `DumpInv` |
| `artifacts` | all inputs over 8 tokens and small limits; per job 2 workers, 2 versions, one or two failures | `ManifestInv`, `FeedInv`, `ReadmeInv`, `ImageInv`, `NoticeInv`, `TypoInv`, `ArchiveInv` |
| `clients` | 2 concurrent callers of each; 5 log files, 3 messages, 2 days, 2 faults, and 2 runs of the update, an update and an archive, or 2 archives at a time | `AppInv`, `ScanInv`, `DownloadsInv` |
| `ownership_required` | 2 removals at a time | `IndividualOwnerRequired` is **violated** |

### The violated one

`owners.rs:295` says "cannot remove all individual owners of a crate ... at least one individual
owner is required". Two removals of different owners, in transactions at READ COMMITTED, each
count the owner that the other is removing (write skew), and a crate is left with teams only or
with nobody. `IndividualOwnerLeft`, which holds and is proved, says that this is the only way.

### What the properties except

Where the code has a race that loses something, the property says exactly which, by a history
variable, and claims the rest:

- `FilesComplete` excepts names in `excused`: a storage job that outlived the reservation of the name, a
  storage job for a crate that had been deleted before, and an upload by a handler whose transaction was gone.
- `RetryAfterHonoured` excepts the second that a rejected user was told itself (see below).
- `VersionsSettle` excepts handlers that were interrupted between the statements of a yank (a repeated yank changes
  no row and enqueues nothing) and two overlapping runs of `UpdateDefaultVersion`.
- `NameNotReused` excepts a request that had looked the name up before it was deleted.
- `HistoryKept` excepts the forced update of a squash through the API, which drops what was pushed after its drift check.
- `SavedOnce` excepts log files whose mark was forgotten. `DownloadsConserved` excepts dates for which a log file was saved
  after their rows were exported to the archive: what comes before the deletion is deleted unseen
  (`archive_version_downloads.rs:65`), what comes later makes a row whose file replaces the older one.
  `TotalsAgree` and `CountedIsTotal` except, for the total of the registry and for the bound of a version, rows that two
  runs of the update have read at once.
- `StaleIsRemembered` excepts invalidations that a job has given up.
- `OwnershipInv` excepts removals that overlap, an invitation that two requests had loaded, and one that was
  accepted during an `add_owners`.
- `ToldOnce` excepts tokens whose mark was lost after the mail, and those that a run read while another still had them.
- `AdminsSettle` speaks of each person by themselves: excepted is who got or lost the permission or an account since the
  run asked the repository, and whose `is_admin` a run has changed that asked before such a change.
- `KeyStoreFresh` excepts keys published within the time of a request before `last_update`. `TokensFollowConfigs`
  allows a token its life and the time of a request after the last configuration is gone.
- `SeekMissesNothing` excepts a listing by name when the crate that the link names was deleted. `TotalShown` and
  `NumbersExact` speak of walks during which nothing changed, as `CoherentView` does of a response.
- `DumpCoherent` excepts two references to users, `deleted_crates.deleted_by` and `crate_owners.created_by`, which the filter
  of users does not keep. `ArchivesAgree` excepts runs that overlapped, `DeclaredFirst` the table `crate_downloads`.
- `FeedComplete` and the images except jobs that overlapped; a feed does not fill the places of deleted rows.
- `RecordedIsStored` excepts versions that `render-readmes` has recorded, `NothingLeftBehind` these and the versions of
  which `delete-version` could not delete a file.
- `MailOnce` excepts a worker that ended in the middle of a run; `SomeoneTold` a version that was deleted and a time with
  nobody to tell.
- `AlarmsExact` speaks of crates that have not changed, and for missing alarms of times in which no crate has.
- `ToldLast` excepts owners who changed, whose mail failed, or who were mailed by a request that failed afterwards.
  `SettingEnforced` lets a publication through that has read the setting before the commit of its change, even one that
  was begun after the owners had their mail.
- `ReadsSurvive` excepts reads that lose the database of their connection midway: the other pool is not tried then.
  `TokensAccepted` excepts a token that the lagging follower does not have yet, and lost connections.

### Observed while modelling, not stated as a run

- `crates_io_worker/README.md:44` says that each job is processed exactly once. A process that dies after the body
  returned Ok and before its row is deleted leaves the row: delivery is at least once.
- `crates_io_worker/README.md:140` speaks of a retry limit; `storage.rs` has none.
- Two runs of `SyncToSparseIndex` for one crate may overlap in the default queue, which has several workers; the
  one that read first may write last. The git index is safe only because its queue has one worker.
- A bucket can have -1 tokens when an upsert is older than a refill; `AdmissionBound` counts these inversions.
- The time that a rejected user is told is cut to whole seconds (`errors/json.rs:54`), while `last_refill` has fractions: a
  client back exactly when told may be refused once more, and is let through when that second is over.
- `SendTokenExpiryNotifications` reads the tokens without a lock: two runs that overlap mail about the same ones.
- `SyncAdmins --force` (`enqueue_job.rs:51`) lets two runs overlap; the one that asked the team repository first may write
  last, and what it granted stays until the next run.
- Two overlapping runs of `UpdateDownloads` add the difference of the same row twice. Versions and crates are brought back
  by the next batch, whose difference is negative; `metadata.total_downloads` is updated only `where sum > 0`
  (`update_metadata.sql:41`) and stays too high for good.
- `configuration.rs:13` says that a table in `dump-db.toml` should list all tables it refers to, by which the tables are
  ordered; `crate_downloads` lists none, is sorted before `crates`, and its rows refer to crates that follow.
- A token that was just created is refused (403) by a request over the read-only pool as long as the follower lacks it
  (`crates_io_database/src/models/token.rs:104`); so is one whose query loses its connection (`auth.rs:297`).
- The owners of a crate are told that trusted publishing is required before the change is committed (`update.rs:131`); a
  publication with a user's token begun in between is let through, and a commit that fails leaves them misinformed.
- `delete_crate` looks for reverse dependencies before its transaction; one published in between loses its row.
- A request that only sets a message on a yanked version writes back `yanked` as it was loaded, and so yanks
  again a version that was unyanked meanwhile (`update.rs:126`). `MessageOnlyOnYanked` holds because of it.

### Bounds

Every bound is a constant of its module and is in a guard. Two of each actor give every
pairwise interleaving, which is all that the locks, the deduplication and the read-then-write
sequences can be disturbed by; the proofs cover any number.

- Queue: two rows are a job that runs and one enqueued meanwhile; `AgeCap` is past the longest backoff,
  so that a saturated age is as good as any larger one; one retry gives two different backoffs.
- Index: two changes let the index go back by one.
- Rate limiter: two refills and three answers include a burst, a rejection, another one before the time that was told, a
  refill, an upsert older than a refill, and a refill between two seconds.
- Publication: one name, two crates in succession, a limit of one, and a clock that passes the reservation. Spelling
  variants of a name behave as one name in all guards (`Canon`); the proofs are about any `Canon` that is idempotent.
- Versions: a release with a later pre-release is where the order of versions and of numbers disagree.
- Owners: two invitations are one and a new one after its expiry or removal.
- Listings: four rows in pages of one and two have a page boundary before, at and after a change.
- Manifest: three features and two dependencies have chains, cycles and doubles; the limits are small so that inputs
  lie below, at and above each.
- Tokens: one token per user and pages of one row let a run end its page, mail or lose its mark while another has read the same
  token; a tick is enough for a token to come within the threshold or expire.
- Administrators: two people and two changes are one who changes under a run and one who does not, between two runs.
- Trusted publishing: a request of one unit of time, like the life of a token and the least age of the key store, puts a key or
  the deletion of a configuration between the steps of an exchange.
- Dumps: two workers and two dumps are a run that overlaps the next, fails between its archives, or is repeated.
- Downloads: two days are one that is written late, frozen or archived, and the next; any date may be archived. Marks
  are forgotten on the next day (`KeepMarks`). `FewRuns` in `MCClients` allows two runs of the update, or one with one of the
  archive, or in a part of its own two of the archive; batches of one row let two runs read the same row.
- Followed crates: `OneOfAKind` in `MCCrates` takes one environment of those that give the same pools.

Symmetry is used in runs of safety properties only, for sets of model values that no definition
tells apart. `CHECK_DEADLOCK FALSE` is set where bounds, or the deletion of the crate, may end a behaviour; `jobqueue` and
the index run check for deadlock.

### Fairness

- `SchedulingFairness`: time passes, a transaction ends, a tokio task makes progress. Polling is
  strongly fair: a worker polls for ever, so a row that is again and again first in its order is
  picked at some point.
- `TransientFailures`: jobs of the kinds in `Healthy` do not fail for ever. For other kinds nothing
  is assumed; in `jobqueue_liveness` the kind of the higher priority is one of these.
- `CrashesStop`: from some time on no worker crashes or loses its session. It is needed: a rolled
  back run leaves `retries` as it was, so a job that kills its process each time is ready at once,
  first in the order, for ever.
- `SyncFairness`: the above, and a run that has read goes on to write.
- `CdnFairness`: jobs that wait or run go on; whether they succeed is up to the environment, whose failures are bounded.
- `CrateVersions!FairSpec`: handlers that have begun and runs go on, and from some time on runs fail only when
  they must (the version they calculated is gone). `DefaultCatchesUp` speaks of behaviours in which requests cease.

## 4. Proofs

All proofs are for arbitrary sets of actors and every value of the bounds, from the named assumptions of the
modules, which TLC evaluates in every run: bounds are naturals, and positive where zero would leave nothing to
do (rows of an image or feed job, installations, signature keys, the life of their cache, days, configurations of a crate, the life
of their tokens and the least age of a key store, the length of a second, contents of a
file); versions, crate names, the files of a crate, log files, users who get mail, processes of the worker,
requests in flight, the rows of a listing and the versions that a view shows (at least one) are finitely many;
kinds of listings are those of the endpoints; the lines of a log file are well-typed; kinds of actors, and
values that stand for "none", are disjoint; the refill rate is positive; canonical names are canonical; the
git index has one worker.

| theorem | property | inductive invariant, and why it is needed |
|---|---|---|
| `QueueIsSound`, `SuccessRemoves` | `QueueInv`, `OnlySuccessRemoves` | `LocksMatch`: a row is locked by exactly the live run or the open transaction that works on it. `EnqueuedHeld`: an open transaction that has enqueued a kind holds the lock of a row of it, so no run can read before its commit. `FreshStart`: a run that has not read has missed nothing. The heart is `Commit`: the row held by the committing transaction will be read afterwards |
| `ShutdownDrains` | `DrainedOnShutdown` | a worker that stopped has seen no ready unlocked row; needs that all workers have the same kinds |
| `SyncIsSound`, `GitIndexImplementsCopy` | `SyncInv`, `GitIndexIsCopy` | every step is a step of the queue or a stutter, so the queue's invariant carries over. `ContentBetween`: what a run has read lies between index and database, and equals the database as long as the run has missed no change; needs the single worker |
| `RateIsSound`, `RetryTimeIsHonoured` | `RateInv`, `RetryAfterHonoured` | `RejectedIsEmpty`: the retry time that was told is the second of the next refill of an empty bucket; `SecondsCut`: cutting a time to the second loses less than a second |
| `RowsAreSound` | `RowsSound` | `MessagesYank`: a request past `validate_yank_update` that brings a message will yank, whatever has become of the version. `TxnSound`: an open transaction of a handler leaves a default version that exists |
| `VersionsAreSettled` | `VersionsSettle` | `RunsRight`: as long as no job is `Pending` and no two runs have overlapped, a run that has calculated holds the best of the versions there are, and between runs `default_versions` and an open deletion do. `BestExists`, `BestUnique`: the order of versions, with yanked ones last, is total, so a finite set of versions has one best version, which the step of the job finds |
| `OwnershipIsSound` | `OwnershipInv` | `ChecksHold`: a checked removal leaves an owner when it commits, because without a skew no other has written. `AnswersAreBacked`: who will answer has an invitation nobody else answers. `OwnersAreSeen`: an `add_owners` under way has loaded all individual owners |
| `SessionsAreSound` | `SessionsInv` | `StatesStay`: a state that was handed out stays with its browser. `CopyByLogin`, `RequestsSound`: the copies of the cookie that requests carry are as good as the cookie, since they may come back late |
| `MailIsSound` | `MailInv` | `LettersAgree`: a letter with the token of a row went to the address of that row. `RowsAgree`: tokens are unique and from the past. `ResentStays`: a resend under way does not outlive the address it read |
| `TokensAreAnnounced` | `TokensInv` | `ToldAreMailed`: what a run is about to mark has been mailed, if it could be. `ReadOnce`: a token that no two runs had at once, and whose mark was not lost, is unmarked while the one run has it, and has no mail before that run has told or marked it |
| `AdminsAreSynced` | `AdminsInv` | `AnswerHolds`: of the people a run knows, the answer it was given still holds. `SureHolds`: of those it is sure of, the rows it has read show what it has yet to grant or revoke; a run with another answer about them ends this. `NamedRows`: only who was in the answer will be granted access |
| `TrustpubIsSound` | `TrustpubInv` | `RequestsInTime`: no request is older than `RequestTime`. `KeyStoreInd` with `LoadingHolds`: the one request that loads has been answered every key that was published before it began, so keys that are missing after its refresh are younger than that. `TokensBacked`: a crate that a token, or an open exchange, may still publish has a configuration, or lost the last one since that request began. `IdsAgree`: an id is bound only by a committed exchange |
| `JwtsAreExchangedOnce` | `ExchangedOnce` | `JtisUsed`: the jti of an exchanged JWT is in the table until the JWT has expired for every leeway |
| `PublicationIsSound` | `PublicationInv` | `TxnsApart`: an open transaction has the one row of its name to itself. `MarkedEmpty`: without a race, a name with a storage job has neither versions nor uploads. `RoomLeft`: an open transaction has room for one more version, because nobody else inserts one |
| `NamesAreReserved` | `NameNotReused` | `SeenExpired`: what a request saw of `deleted_crates` has not reserved its name since; with it only a later reservation can be overlooked |
| `ArchiveIsListed` | `ArchiveInv` | `LastRunComplete`: when no job waits, the run at work has seen every file |
| `OwnersAreMailedOnce` | `NoticeInv` | `InboxBounded`, `UntriedAreEmpty`: who is still to be mailed has got a mail only from a killed run. `SentBounded`, `CountIsReal`: the count of a run is at most the users it has tried, and above zero only if a mail arrived |
| `ReadmesAreKept` | `ReadmeInv` | what a deletion has still to remove covers every file without a row |
| `ImagesSettle` | `ImageInv` | `Coming`, `ImageFollows`: a job that waits, or a run that has not read yet, will still draw what the image lacks |
| `TyposAreReported` | `TypoInv` | `TasksApart`: one task loads and a job runs in one. `CorpusFits`: what was loaded knows the owners of now, and every crate that is certainly among the top ones, as long as nothing has changed. `AlarmFits`: alarms so far are exact |
| `FeedsAreComplete` | `FeedInv` | `FeedFits`: as long as no job waits, what the job at work is about to upload holds all that is promised, and one that pads had too few young items. Two facts about counting (`YoungSuffice`, `NewestSuffice`) say that what either query returns is what was promised. `DoomedFits`: a crate whose feed is to be deleted has no rows and gets none |
| `AppTokenIsFresh` | `AppInv` | `OneLocked`: one call at a time is past the lock. `LookedUp`: the id it has looked up is still GitHub's if nothing changed |
| `SettingsAreKept` | `SettingInv` | `PatchSound`: what a request has read is the setting, or another request has changed it since. `LoyalAreTold`: the holder of the row lock has told, or will tell before it commits, every loyal owner its value. `PubSound`: what a publication has read was a value of its time |
| `FollowsAreKept` | `FollowInv` | `CallFits`: a request has still to ask every pool that could have served it all the time. `CallLive`: a reading request knows what the leader holds now, and those pools can serve it now; a database that did not have the token when the request began is a follower |
| `ScanIsSound` | `ScanInv` | `TokenFits`: a token that is no clash has one request that works at it, before its only mail (`OneMail`), and one that is revoked has its mail and answer, or both on their way (`OnItsWay`). `ReportFits`, `KeysFit`: a key in the cache, or fetched, had not been replaced when the fetch began |
| `GitIndexIsRight` | `GitInv` | `PastsClosed`: the past of a commit is made of older commits and contains their pasts, so a push without force only adds to what a branch leads to. `FollowsInd`: what the run of the one process has read, committed or pushed of a crate is right, or a job for the crate waits again. `DryApart`: what a run may push to master leads to no commit of a dry run. `ArchiveInd`: what the archive job has cloned is still behind its snapshot branch |
| `HistoryIsKept` | `HistoryKept` | `SquashRuns`: the commit that a squash has made has the files of the head it has read, and through the API its snapshot branch leads to that head before master is looked at again. `LooseFresh`: a commit that a run has made and not pushed is known to no branch, no other run and no other commit, so the squash's commit on master was put there by the squash |
| `CdnIsSound` | `CdnInv` | `PurgeInd`, `InvalidateInd`: for either CDN, which jobs, steps of a run and rows will still reach an outdated file; a row counts until CloudFront has accepted its batch. `CrateInd`: what a deletion does not find any more was removed by a run that failed, and is given up. `StrandedInd`: once a run has passed over the index rows, whoever has queued one since is about to enqueue the next job. `FetchBatchOldest`: the rows with fewer than BATCH_SIZE older ones are at most BATCH_SIZE, and at least one if there are any |
| `DownloadsAreCounted` | `DownloadsInv` | `MarksInd`: a mark is inserted by one transaction at a time, so a file is saved as often as it was forgotten, and once more while it is marked. `BatchInd`: what a run has read of a row that no two runs have read at once is still open, unless the row is gone; `SoleReader` says that it is then in no other batch. `FilesFull`: every file that was exported, and every one in the archive whose date is deleted or about to be, has all downloads of its date, unless a log file came late. `RemovedGone`: dates that were deleted have no rows but of late log files. `RowsComplete`: while a date has rows, a version without one has no downloads on it. `TotalsBounded`: what was counted, and what is due with the read differences of rows that are gone (`Due`), is at most what the log files had |
| `PagesAreComplete` | `ListInv` | `KeySound`: the key of a link is that of a row that was shown, as it was then. `SeekInd`: between two pages, nothing that was shown and has not changed is behind the key, and every row that was there all along was shown or comes after it. Each page extends this because the orders compare rows by what a key holds: they are asymmetric, and of two keys in order any third comes after the first or before the second (`BeforeByKeys`, `KeyAsymmetric`, `KeyCotransitive`, `KeyTotal`). `NumberInd`: pages by number are a beginning of the one sorted sequence of the rows (`OneOrder`). `TotalInd`: the total that was told is the number of rows, 0 after a page without any |
| `ResponsesAgree` | `ViewInv` | `FoundInd`: what a request has read of the crate and its versions is what they are, as long as nothing was written since it began. `SplitInd`: the versions shown one by one are above the others, and the sum of the rest is over some of those, so no download is in both parts (`TwoParts`). `TracksUpTo`: the fold that makes release tracks holds the tracks of the versions so far and the track of the lowest of them; a version on a track that is not the last one opens it, because versions come in order (`AddTrackStep`) |

`GitIndexImplementsCopy` is a refinement: initial states map to initial states and every step to a step of
`IndexCopy` or a stutter.

Only model-checked:

- liveness (`ChangesAreSeen`, `GitIndexCatchesUp`, `DefaultCatchesUp`, `StaleIsPurged`): it rests on fairness, and
  so on ENABLED, which the prover does not handle;
- what definitions compute over strings and tables: parsing and features (`ManifestInv`) and the order of tables
  (`DumpInv`), in modules that declare RECURSIVE operators. Sums of downloads, folds over the lines of a log file and
  release tracks are recursive too; `DownloadsProofs` proves what they are for every
  input by the smallest counterexample among the subsets of a finite set, since the library's induction theorems take
  an operator. That a finite set of rows has one sorted sequence needs no induction: `CatalogueProofs` counts, for
  each row, the rows before it (`PlaceInOrder`).

## 5. What is not modelled

Teams as GitHub knows them (a team never has full rights; teams as owners are in Ownership), the router and the
middleware, and the Ember frontend. Within the modelled parts: the signing and encoding of cookies, JWTs and requests to
the CDNs, SSH and credentials of git, the syntax of HTML, RSS and CSV, text search, the wording of mails,
names and avatars. The components in `PROJECT.json` say for each part what is left out.

## 6. Plan

Every safety invariant of the components that change state is proved. What could come next:

1. `DumpInv`: a dump is coherent and its tables can be imported in their order, once the order of tables is written
   without recursion.
2. Teams, as far as GitHub's answers decide who may act for a crate.
