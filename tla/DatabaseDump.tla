----------------------------- MODULE DatabaseDump -----------------------------
(***************************************************************************)
(* The public dump of the database.  The job dump_db copies the public     *)
(* columns of the public rows of every table to CSV files, in one          *)
(* transaction, packs the files into a tarball and a zip file and uploads  *)
(* the two; whoever downloads one runs its import script.  Handlers write  *)
(* to the database meanwhile.  A running job does not keep another one     *)
(* from being enqueued, and the queue has several workers: two runs may    *)
(* overlap.  A row is a record of the columns that the dump tells apart:   *)
(* keys, references, and what the filters look at.                         *)
(***************************************************************************)
EXTENDS Naturals, Sequences, FiniteSets, SequencesExt

CONSTANTS
  DumpUsers,     \* users, as strings
  DumpTeams,     \* teams, as strings
  DumpCrates,    \* crates, as strings
  DumpWorkers,   \* workers that run the job
  MaxDbWrites,   \* bound: writes to the database
  MaxDumps       \* bound: runs of the job

ASSUME DumpAssumption == MaxDbWrites \in Nat /\ MaxDumps \in Nat

Db == INSTANCE Schema

VARIABLES
  db,         \* per table: its rows
  dbWrites,   \* history: number of writes
  job,        \* per worker: what its run does, its snapshot, the CSV files it has, its number
  archives,   \* the archives in storage: which run they are of, their tables in order
  target,     \* a database the dump is imported to, and how that went
  runs        \* history: the runs begun, the last that ended well, whether two overlapped

dumpVars == <<db, dbWrites, job, archives, target, runs>>

NoId == "null"

-----------------------------------------------------------------------------
(* The configuration, dump-db.toml.                                        *)

\* Every table, by name: the order of a BTreeMap.
ConfiguredTables ==
  <<"__diesel_schema_migrations", "api_tokens", "background_jobs", "categories",
    "cloudfront_invalidation_queue", "crate_downloads", "crate_owner_invitations",
    "crate_owners", "crates", "crates_categories", "crates_keywords", "default_versions",
    "deleted_crates", "dependencies", "emails", "follows", "keywords", "metadata",
    "oauth_github", "processed_log_files", "publish_limit_buckets", "publish_rate_overrides",
    "readme_renderings", "reserved_crate_names", "teams", "trustpub_configs_github",
    "trustpub_configs_gitlab", "trustpub_tokens", "trustpub_used_jtis", "users",
    "version_downloads", "version_owner_actions", "versions", "versions_published_by">>

PrivateTables ==
  {"__diesel_schema_migrations", "api_tokens", "background_jobs",
   "cloudfront_invalidation_queue", "crate_owner_invitations", "emails", "follows",
   "oauth_github", "processed_log_files", "publish_limit_buckets", "publish_rate_overrides",
   "readme_renderings", "trustpub_configs_github", "trustpub_configs_gitlab",
   "trustpub_tokens", "trustpub_used_jtis", "version_owner_actions", "versions_published_by"}

PrivateColumns(t) ==
  CASE t = "crate_owners" -> {"deleted", "updated_at", "email_notifications"}
    [] t = "crates" -> {"textsearchable_index_col"}
    [] t = "users" -> {"account_lock_reason", "account_lock_until", "is_admin",
                       "publish_notifications", "gh_encrypted_token"}
    [] t = "version_downloads" -> {"counted", "processed"}
    [] t = "versions" -> {"semver_ord", "lib_name", "yank_message", "trustpub_data", "linecounts"}
    [] OTHER -> {}

PublicColumns(t) == IF t \in PrivateTables THEN {} ELSE Db!Columns(t) \ PrivateColumns(t)

Dependencies(t) ==
  CASE t = "crate_owners" -> {"crates", "users"}
    [] t = "crates_categories" -> {"categories", "crates"}
    [] t = "crates_keywords" -> {"crates", "keywords"}
    [] t = "default_versions" -> {"crates", "versions"}
    [] t = "deleted_crates" -> {"users"}
    [] t = "dependencies" -> {"crates", "versions"}
    [] t = "trustpub_configs_github" -> {"crates"}
    [] t = "trustpub_configs_gitlab" -> {"crates"}
    [] t = "version_downloads" -> {"versions"}
    [] t = "versions" -> {"crates", "users"}
    [] OTHER -> {}

\* The rows of a table that are dumped.
Filter(t, from) ==
  CASE t = "crate_owners" -> {r \in from[t] : ~r.deleted}
    [] t = "users" ->
         LET owners == {o \in from["crate_owners"] : ~o.deleted /\ o.owner_kind = 0}
         IN {r \in from[t] : r.id \in {o.owner_id : o \in owners}
                                        \cup {v.published_by : v \in from["versions"]}}
    [] OTHER -> from[t]

ColumnDefaults(t) ==
  CASE t = "users" -> {"gh_encrypted_token"} [] t = "oauth_github" -> {"encrypted_token"}
    [] OTHER -> {}

\* Columns with a default in the schema.
SchemaDefaults(t) ==
  CASE t = "crate_owners" -> {"deleted", "updated_at", "email_notifications"}
    [] t = "users" -> {"is_admin", "publish_notifications"}
    [] t = "version_downloads" -> {"counted", "processed"}
    [] OTHER -> {}

-----------------------------------------------------------------------------
(* The order of the tables.                                                *)

\* The last of a table's dependencies is done.
Unblocked(t, done) == Dependencies(t) \subseteq done

\* topological_sort: the queue holds what is ready; a table makes ready, in the order of
\* their names, the tables that waited for it alone.
RECURSIVE Drain(_, _)
Drain(ready, result) ==
  IF ready = <<>> THEN result
  ELSE LET table == Head(ready)
           before == ToSet(result)
           done == before \cup {table}
           waits(t) == table \in Dependencies(t) /\ Unblocked(t, done) /\ ~Unblocked(t, before)
       IN Drain(Tail(ready) \o SelectSeq(ConfiguredTables, waits), Append(result, table))

TopologicalSort ==
  LET free(t) == Dependencies(t) = {}
  IN Drain(SelectSeq(ConfiguredTables, free), <<>>)

\* template_context: the tables that have public columns.
DumpedTables == LET dumped(t) == PublicColumns(t) # {} IN SelectSeq(TopologicalSort, dumped)

-----------------------------------------------------------------------------
(* The database.                                                           *)

Row(t, r) == [db EXCEPT ![t] = @ \cup {r}]

Owner(c, id, kind, by) ==
  [crate_id |-> c, owner_id |-> id, owner_kind |-> kind, deleted |-> FALSE, created_by |-> by]

Empty == [t \in DOMAIN Db!Tables |-> {}]

Writes ==
  /\ dbWrites < MaxDbWrites
  /\ dbWrites' = dbWrites + 1
  /\ UNCHANGED <<job, archives, target, runs>>

VersionId(c, n) == c \o n

\* The rows of a new version, which depends on all other crates and is higher than the
\* default version; published_by is null for a trusted publisher.  Its downloads, which
\* come later, are taken with it.
VersionRows(from, c, n, by) ==
  [from EXCEPT
     !["versions"] = @ \cup {[id |-> VersionId(c, n), crate_id |-> c, published_by |-> by]},
     !["version_downloads"] = @ \cup {[version_id |-> VersionId(c, n), date |-> 1]},
     !["default_versions"] = {r \in @ : r.crate_id # c}
                               \cup {[crate_id |-> c, version_id |-> VersionId(c, n)]},
     !["dependencies"] = @ \cup {[id |-> VersionId(c, n) \o d, version_id |-> VersionId(c, n),
                                  crate_id |-> d] : d \in {r.id : r \in from["crates"]} \ {c}}]

\* NewCrate::create; a trigger adds the row of crate_downloads.
PublishNewCrate(c, u) ==
  /\ Writes
  /\ \A r \in db["crates"] : r.id # c
  /\ db' = VersionRows([db EXCEPT !["crates"] = @ \cup {[id |-> c]},
                                  !["crate_downloads"] = @ \cup {[crate_id |-> c]},
                                  !["keywords"] = @ \cup {[id |-> "k"]},
                                  !["crates_keywords"] = @ \cup {[crate_id |-> c, keyword_id |-> "k"]},
                                  !["crate_owners"] = @ \cup {Owner(c, u, 0, u)}],
                       c, "1", u)

PublishNewVersion(c, by) ==
  /\ Writes
  /\ \E r \in db["crates"] : r.id = c
  /\ \A v \in db["versions"] : v.id # VersionId(c, "2")
  /\ db' = VersionRows(db, c, "2", by)

\* CrateOwner::insert: an owner who was removed keeps the rest of the row.  Whoever invited
\* a user may have been removed when the invitation is accepted.
AddDumpOwner(c, id, kind, by) ==
  LET old == {o \in db["crate_owners"] : o.crate_id = c /\ o.owner_id = id}
  IN /\ Writes
     /\ \E o \in db["crate_owners"] :
          o.crate_id = c /\ o.owner_id = by /\ (kind = 1 => ~o.deleted)
     /\ \A o \in old : o.deleted
     /\ db' = [db EXCEPT
          !["crate_owners"] = IF old = {} THEN @ \cup {Owner(c, id, kind, by)}
                              ELSE (@ \ old) \cup {[o EXCEPT !.deleted = FALSE] : o \in old},
          !["teams"] = IF kind = 1 THEN @ \cup {[id |-> id]} ELSE @]

\* owner_remove keeps the row.
RemoveDumpOwner(c, id) ==
  /\ Writes
  /\ \E o \in db["crate_owners"] :
       /\ o.crate_id = c /\ o.owner_id = id /\ ~o.deleted
       /\ db' = [db EXCEPT !["crate_owners"] = (@ \ {o}) \cup {[o EXCEPT !.deleted = TRUE]}]

\* The rows that go when the crate does: every reference is ON DELETE CASCADE.
Cascade(from, c) ==
  LET gone == {v.id : v \in {w \in from["versions"] : w.crate_id = c}}
  IN [t \in DOMAIN from |->
        {r \in from[t] : /\ t = "crates" => r.id # c
                         /\ "crate_id" \in DOMAIN r => r.crate_id # c
                         /\ "version_id" \in DOMAIN r => r.version_id \notin gone}]

\* Only crates that nothing depends on.
DeleteDumpCrate(c, u) ==
  /\ Writes
  /\ \E o \in db["crate_owners"] : o.crate_id = c /\ o.owner_id = u /\ ~o.deleted
  /\ \A d \in db["dependencies"] : d.crate_id # c
  /\ db' = [Cascade(db, c) EXCEPT !["deleted_crates"] = @ \cup {[id |-> c, deleted_by |-> u]}]

-----------------------------------------------------------------------------
(* The job.                                                                *)

Idle == [pc |-> "idle", snapshot |-> Empty, csv |-> Empty, next |-> 1, run |-> 0]
NoArchive == [run |-> 0, tables |-> <<>>, csv |-> Empty]

\* populate: README.md, metadata.json and schema.sql are written, then export.sql begins
\* its transaction, REPEATABLE READ, on the replica.
BeginExport(w) ==
  /\ job[w].pc = "idle" /\ runs.begun < MaxDumps
  /\ job' = [job EXCEPT ![w] = [Idle EXCEPT !.pc = "export", !.snapshot = db, !.run = runs.begun + 1]]
  /\ runs' = [runs EXCEPT !.begun = @ + 1,
                          !.overlapped = @ \/ \E x \in DumpWorkers : job[x].pc # "idle"]
  /\ UNCHANGED <<db, dbWrites, archives, target>>

\* Mutant: READ COMMITTED
Visible_committed(w) == db

\* Every statement of the transaction sees the rows there were when it began.
Visible(w) == job[w].snapshot

\* \copy of a table: the public columns of the rows that pass the filter.
CopyTable(w) ==
  /\ job[w].pc = "export" /\ job[w].next <= Len(DumpedTables)
  /\ LET t == DumpedTables[job[w].next]
     IN job' = [job EXCEPT
          ![w].next = @ + 1,
          ![w].csv[t] = {[c \in DOMAIN r \cap PublicColumns(t) |-> r[c]] : r \in Filter(t, Visible(w))}]
  /\ UNCHANGED <<db, dbWrites, archives, target, runs>>

\* run_psql is done; create_archives packs the tables in the same order.
CreateArchives(w) ==
  /\ job[w].pc = "export" /\ job[w].next > Len(DumpedTables)
  /\ job' = [job EXCEPT ![w].pc = "tar"]
  /\ UNCHANGED <<db, dbWrites, archives, target, runs>>

Packed(w) == [run |-> job[w].run, tables |-> DumpedTables, csv |-> job[w].csv]

\* upload_db_dump(TAR_PATH)
UploadTar(w) ==
  /\ job[w].pc = "tar"
  /\ archives' = [archives EXCEPT !.tar = Packed(w)]
  /\ job' = [job EXCEPT ![w].pc = "zip"]
  /\ UNCHANGED <<db, dbWrites, target, runs>>

\* upload_db_dump(ZIP_PATH); the job is done.
UploadZip(w) ==
  /\ job[w].pc = "zip"
  /\ archives' = [archives EXCEPT !.zip = Packed(w)]
  /\ job' = [job EXCEPT ![w] = Idle]
  /\ runs' = [runs EXCEPT !.ended = job[w].run]
  /\ UNCHANGED <<db, dbWrites, target>>

\* psql, pg_dump or an upload fails, or the worker dies; the temporary directory is gone
\* with it, and the job will be retried.
DumpFails(w) ==
  /\ job[w].pc # "idle"
  /\ job' = [job EXCEPT ![w] = Idle]
  /\ UNCHANGED <<db, dbWrites, archives, target, runs>>

-----------------------------------------------------------------------------
(* The import script.                                                      *)

\* The columns a trigger fills that import.sql enables again.
EnabledTriggers(t) == IF t = "crates" THEN {"textsearchable_index_col"} ELSE {}

\* A \copy fails if it leaves a column null that must not be.
Unfilled(t) ==
  (Db!Tables[t].notNull \cap Db!Columns(t))
    \ (PublicColumns(t) \cup ColumnDefaults(t) \cup SchemaDefaults(t) \cup EnabledTriggers(t))

\* TRUNCATE ... CASCADE
RECURSIVE Truncated(_)
Truncated(ts) ==
  LET more == {r.table : r \in {x \in Db!References : x.target \in ts}}
  IN IF more \subseteq ts THEN ts ELSE Truncated(ts \cup more)

\* import.sql, one transaction: all tables are truncated before the first is filled, with
\* the triggers off, which foreign keys are checked by.
Import ==
  /\ archives.tar.run # 0 /\ target.from # archives.tar.run
  /\ LET dumped == ToSet(archives.tar.tables)
         broken == {t \in dumped : Unfilled(t) # {}}
     IN target' = IF broken # {} THEN [target EXCEPT !.ok = FALSE, !.from = archives.tar.run]
                  ELSE [ok |-> TRUE, from |-> archives.tar.run,
                        db |-> [t \in DOMAIN target.db |->
                                  IF t \in dumped THEN archives.tar.csv[t]
                                  ELSE IF t \in Truncated(dumped) THEN {} ELSE target.db[t]]]
  /\ UNCHANGED <<db, dbWrites, job, archives, runs>>

-----------------------------------------------------------------------------
\* The target has data of its own, of tables that are dumped and of others.
DumpInit ==
  /\ db = [Empty EXCEPT !["users"] = {[id |-> u] : u \in DumpUsers}]
  /\ dbWrites = 0
  /\ job = [w \in DumpWorkers |-> Idle]
  /\ runs = [begun |-> 0, ended |-> 0, overlapped |-> FALSE]
  /\ archives = [tar |-> NoArchive, zip |-> NoArchive]
  /\ target = [ok |-> TRUE, from |-> 0,
               db |-> [Empty EXCEPT !["users"] = {[id |-> "local"]},
                                    !["crates"] = {[id |-> "local"]},
                                    !["emails"] = {[id |-> "e", user_id |-> "local"]},
                                    !["follows"] = {[user_id |-> "local", crate_id |-> "local"]},
                                    !["versions_published_by"] = {[version_id |-> "local"]},
                                    !["background_jobs"] = {[id |-> "j"]}]]

DumpNext ==
  \/ \E c \in DumpCrates, u \in DumpUsers :
       \/ PublishNewCrate(c, u)
       \/ DeleteDumpCrate(c, u)
       \/ \E v \in DumpUsers : AddDumpOwner(c, v, 0, u)
       \/ \E v \in DumpTeams : AddDumpOwner(c, v, 1, u)
  \/ \E c \in DumpCrates, by \in DumpUsers \cup {NoId} : PublishNewVersion(c, by)
  \/ \E c \in DumpCrates, id \in DumpUsers \cup DumpTeams : RemoveDumpOwner(c, id)
  \/ \E w \in DumpWorkers :
       \/ BeginExport(w) \/ CopyTable(w) \/ CreateArchives(w)
       \/ UploadTar(w) \/ UploadZip(w) \/ DumpFails(w)
  \/ Import

DumpSpec == DumpInit /\ [][DumpNext]_dumpVars

-----------------------------------------------------------------------------
\* What the runs and the target may be.
DumpTypeOK ==
  /\ DOMAIN db = DOMAIN Db!Tables
  /\ \A w \in DumpWorkers :
       /\ job[w].pc \in {"idle", "export", "tar", "zip"}
       /\ job[w].pc = "export" => job[w].next \in 1..Len(DumpedTables) + 1
       /\ job[w].run \in 0..runs.begun
  /\ runs.begun \in 0..MaxDumps /\ runs.ended \in 0..runs.begun

\* References to users that the filter of users does not keep: who deleted a crate, and
\* who added an owner, may own nothing and have published nothing.
Unfiltered == {Db!Ref("deleted_crates", "deleted_by", "users"),
               Db!Ref("crate_owners", "created_by", "users")}

\* The references of a database that hold, of the rows of all its tables.
Resolved(tables) ==
  /\ \A ref \in Db!References \ Unfiltered : \A r \in tables[ref.table] :
       ref.column \in DOMAIN r /\ r[ref.column] # NoId =>
         \E x \in tables[ref.target] : x.id = r[ref.column]
  /\ \A o \in tables["crate_owners"] :
       \E x \in tables[IF o.owner_kind = 0 THEN "users" ELSE "teams"] : x.id = o.owner_id

\* dump-export.sql: the files of a finished dump fit together, whatever was published,
\* deleted or handed over while they were written one by one: every crate, version, user
\* and team that a row refers to is in the dump, the polymorphic owners included - except
\* users who are only named as having deleted a crate or added an owner, although
\* dump-db.toml declares both tables to depend on users.
DumpCoherent ==
  \A a \in {archives.tar, archives.zip} : a.run # 0 => Resolved(a.csv)

\* dump-import.sql: the import goes through, with every column filled that must not be
\* null, and leaves no row of the data there was that refers to a row that is gone, but for
\* the users that the dump does not have.
ImportCoherent == target.ok /\ (target.from # 0 => Resolved(target.db))

\* DumpDb::run: unless two runs overlapped, the zip file is of the run that last ended well,
\* and so is the tarball, or it is of a later run that failed or has not ended: when the job
\* has ended well the two archives are of one run.
ArchivesAgree ==
  /\ archives.zip.run = archives.tar.run => archives.zip = archives.tar
  /\ ~runs.overlapped =>
       /\ archives.zip.run = runs.ended
       /\ archives.tar.run \in runs.ended..runs.begun
       /\ runs.ended = runs.begun => archives.tar = archives.zip

\* topological_sort: the archive has every table with public columns once, after all that
\* its public columns refer to, so that it can be imported while it is unpacked - but for
\* crate_downloads, which does not declare that it depends on crates and comes before it.
DeclaredFirst ==
  LET order == archives.tar.tables
      before(t, u) == \E i, j \in DOMAIN order : i < j /\ order[i] = t /\ order[j] = u
  IN order # <<>> =>
       /\ IsInjective(order)
       /\ ToSet(order) = {t \in ToSet(ConfiguredTables) : PublicColumns(t) # {}}
       /\ \A t \in ToSet(order) : \A d \in Dependencies(t) : before(d, t)
       /\ \A ref \in Db!References \ {Db!Ref("crate_downloads", "crate_id", "crates")} :
            ref.column \in PublicColumns(ref.table) => before(ref.target, ref.table)

\* DumpDb and its import script: the files refer only to rows of each other, except for the
\* users above; the import leaves a database that is as coherent; both archives are of one
\* run once it has ended well, unless two overlapped; and tables come after those they
\* refer to, except crate_downloads.
DumpInv == DumpTypeOK /\ DumpCoherent /\ ImportCoherent /\ ArchivesAgree /\ DeclaredFirst
=============================================================================
