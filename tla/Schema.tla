-------------------------------- MODULE Schema --------------------------------
(***************************************************************************)
(* The tables of the database: their keys, the columns that must not be    *)
(* null, those that may be, and the columns that refer to rows of other    *)
(* tables.                                                                 *)
(***************************************************************************)

Table(key, notNull, nullable) ==
  [key |-> key, notNull |-> key \cup notNull, nullable |-> nullable]

api_tokens == Table({"id"},
  {"created_at", "name", "revoked", "token", "user_id"},
  {"crate_scopes", "endpoint_scopes", "expired_at", "expiry_notification_at",
   "last_used_at"})
background_jobs == Table({"id"},
  {"created_at", "data", "job_type", "last_retry", "priority", "retries"},
  {})
categories == Table({"id"}, {"category", "crates_cnt", "created_at", "description", "slug"}, {})
cloudfront_invalidation_queue == Table({"id"}, {"created_at", "distribution", "path"}, {})
crate_downloads == Table({"crate_id"}, {"downloads"}, {})
crate_owner_invitations == Table({"invited_user_id", "crate_id"},
  {"created_at", "expires_at", "invited_by_user_id", "token"},
  {})
crate_owners == Table({"crate_id", "owner_id", "owner_kind"},
  {"created_at", "deleted", "email_notifications", "updated_at"},
  {"created_by"})
crates == Table({"id"},
  {"created_at", "name", "textsearchable_index_col", "trustpub_only", "updated_at"},
  {"description", "documentation", "homepage", "max_features", "max_upload_size", "readme",
   "repository"})
crates_categories == Table({"crate_id", "category_id"}, {}, {})
crates_keywords == Table({"crate_id", "keyword_id"}, {}, {})
default_versions == Table({"crate_id"}, {"version_id"}, {"num_versions"})
deleted_crates == Table({"id"},
  {"available_at", "created_at", "deleted_at", "name"},
  {"deleted_by", "message"})
dependencies == Table({"id"},
  {"crate_id", "default_features", "features", "kind", "optional", "req", "version_id"},
  {"explicit_name", "target"})
emails == Table({"id"}, {"email", "token", "user_id", "verified"}, {"token_generated_at"})
follows == Table({"user_id", "crate_id"}, {}, {})
keywords == Table({"id"}, {"crates_cnt", "created_at", "keyword"}, {})
metadata == Table({"total_downloads"}, {}, {})
oauth_github == Table({"account_id"}, {"encrypted_token", "login", "user_id"}, {"avatar"})
processed_log_files == Table({"path"}, {"time"}, {})
publish_limit_buckets == Table({"user_id", "action"}, {"last_refill", "tokens"}, {})
publish_rate_overrides == Table({"user_id", "action"}, {"burst"}, {"expires_at"})
readme_renderings == Table({"version_id"}, {"rendered_at"}, {})
reserved_crate_names == Table({"name"}, {}, {})
teams == Table({"id"}, {"github_id", "login", "org_id"}, {"avatar", "name"})
trustpub_configs_github == Table({"id"},
  {"crate_id", "created_at", "repository_name", "repository_owner", "repository_owner_id",
   "workflow_filename"},
  {"environment"})
trustpub_configs_gitlab == Table({"id"},
  {"crate_id", "created_at", "namespace", "project", "workflow_filepath"},
  {"environment", "namespace_id"})
trustpub_tokens == Table({"id"},
  {"crate_ids", "created_at", "expires_at", "hashed_token"},
  {"trustpub_data"})
trustpub_used_jtis == Table({"id"}, {"expires_at", "jti", "used_at"}, {})
users == Table({"id"},
  {"gh_encrypted_token", "gh_id", "gh_login", "is_admin", "publish_notifications"},
  {"account_lock_reason", "account_lock_until", "gh_avatar", "name"})
version_downloads == Table({"version_id", "date"}, {"counted", "downloads", "processed"}, {})
version_owner_actions == Table({"id"},
  {"action", "time", "user_id", "version_id"},
  {"api_token_id"})
versions == Table({"id"},
  {"categories", "checksum", "crate_id", "crate_size", "created_at", "downloads",
   "features", "keywords", "num", "num_no_build", "updated_at", "yanked"},
  {"bin_names", "description", "documentation", "edition", "has_lib", "homepage",
   "lib_name", "license", "linecounts", "links", "published_by", "repository",
   "rust_version", "semver_ord", "trustpub_data", "yank_message"})
versions_published_by == Table({"version_id"}, {"email"}, {})

\* A materialized view, which is no table and is never written.
recent_crate_downloads == Table({"crate_id"}, {"downloads"}, {})

Tables ==
  [api_tokens |-> api_tokens, background_jobs |-> background_jobs, categories |->
   categories, cloudfront_invalidation_queue |-> cloudfront_invalidation_queue,
   crate_downloads |-> crate_downloads, crate_owner_invitations |-> crate_owner_invitations,
   crate_owners |-> crate_owners, crates |-> crates, crates_categories |->
   crates_categories, crates_keywords |-> crates_keywords, default_versions |->
   default_versions, deleted_crates |-> deleted_crates, dependencies |-> dependencies,
   emails |-> emails, follows |-> follows, keywords |-> keywords, metadata |-> metadata,
   oauth_github |-> oauth_github, processed_log_files |-> processed_log_files,
   publish_limit_buckets |-> publish_limit_buckets, publish_rate_overrides |->
   publish_rate_overrides, readme_renderings |-> readme_renderings, reserved_crate_names |->
   reserved_crate_names, teams |-> teams, trustpub_configs_github |->
   trustpub_configs_github, trustpub_configs_gitlab |-> trustpub_configs_gitlab,
   trustpub_tokens |-> trustpub_tokens, trustpub_used_jtis |-> trustpub_used_jtis, users |->
   users, version_downloads |-> version_downloads, version_owner_actions |->
   version_owner_actions, versions |-> versions, versions_published_by |->
   versions_published_by]

Columns(t) == Tables[t].notNull \cup Tables[t].nullable

Ref(table, column, target) == [table |-> table, column |-> column, target |-> target]

\* Foreign keys.  The owner of a crate is a user or a team, depending on owner_kind: that
\* is not one.
References ==
  {Ref("api_tokens", "user_id", "users"), Ref("crate_downloads", "crate_id", "crates"),
   Ref("crate_owner_invitations", "crate_id", "crates"),
   Ref("crate_owner_invitations", "invited_user_id", "users"),
   Ref("crate_owner_invitations", "invited_by_user_id", "users"),
   Ref("crate_owners", "crate_id", "crates"), Ref("crate_owners", "created_by", "users"),
   Ref("crates_categories", "category_id", "categories"),
   Ref("crates_categories", "crate_id", "crates"), Ref("crates_keywords", "crate_id", "crates"),
   Ref("crates_keywords", "keyword_id", "keywords"),
   Ref("default_versions", "crate_id", "crates"),
   Ref("default_versions", "version_id", "versions"),
   Ref("deleted_crates", "deleted_by", "users"), Ref("dependencies", "crate_id", "crates"),
   Ref("dependencies", "version_id", "versions"), Ref("emails", "user_id", "users"),
   Ref("follows", "crate_id", "crates"), Ref("follows", "user_id", "users"),
   Ref("oauth_github", "user_id", "users"), Ref("publish_limit_buckets", "user_id", "users"),
   Ref("publish_rate_overrides", "user_id", "users"),
   Ref("readme_renderings", "version_id", "versions"),
   Ref("trustpub_configs_github", "crate_id", "crates"),
   Ref("trustpub_configs_gitlab", "crate_id", "crates"),
   Ref("version_downloads", "version_id", "versions"),
   Ref("version_owner_actions", "api_token_id", "api_tokens"),
   Ref("version_owner_actions", "user_id", "users"),
   Ref("version_owner_actions", "version_id", "versions"),
   Ref("versions", "crate_id", "crates"), Ref("versions", "published_by", "users"),
   Ref("versions_published_by", "version_id", "versions")}

=============================================================================
