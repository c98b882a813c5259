------------------------- MODULE TrustedPublishing --------------------------
(***************************************************************************)
(* Trusted publishing: a CI job shows the JWT of its identity provider,    *)
(* which is checked against the configurations of crates and exchanged for *)
(* a short-lived access token that may publish those crates.               *)
(*                                                                         *)
(* An exchange looks the signing key up (a cache in the process, refreshed *)
(* from the provider), decodes the JWT and then runs one transaction: it   *)
(* records the JWT's jti, loads the configurations of the repository,      *)
(* filters them and inserts the token.  Keys are published and withdrawn,  *)
(* configurations created and deleted, crates deleted, tokens revoked and  *)
(* expired rows cleaned up in between, and time passes, until the server   *)
(* drops the request.  Owner ids are GitHub's repository_owner_id, fixed when a      *)
(* configuration is created, and GitLab's namespace_id, which the first    *)
(* successful exchange stores.                                             *)
(*                                                                         *)
(* The two providers have key stores, tables and handlers of their own: a  *)
(* behaviour is about one of them, chosen in the initial state.            *)
(***************************************************************************)
EXTENDS Integers, FiniteSets

CONSTANTS
  Crates,       \* ids of crates; a name that is published anew gets a new id
  Jwts,         \* tokens that providers have signed,
  Claims,       \*   and their claims
  Lower,        \* the lower case of names, a function
  Offers,       \* what a configuration may say: crate, provider, repo, owner,
                \*   workflow and environment
  Keys,         \* key ids of each provider
  Exchanges,    \* exchange requests at a time
  Creators,     \* requests that create a configuration at a time
  MaxConfigs,   \* MAX_CONFIGS_PER_CRATE
  Leeway,       \* what jsonwebtoken allows a clock to be off
  TokenLife,    \* how long an access token is valid
  MinAge,       \* MIN_AGE_BEFORE_REFRESH
  RequestTime,  \* how long a request may take before the server drops it
  MaxConfigId,  \* bound: configurations created
  MaxToken,     \* bound: tokens issued
  MaxNow        \* bound: time

Providers == {"github", "gitlab"}
NoOwner == "no owner id"
NoEnvironment == "no environment"
NoWorkflow == "no workflow"
Never == -1
None == "none"

ASSUME TrustedPublishingAssumption ==
  /\ \A j \in Jwts : Claims[j].provider \in Providers /\ Claims[j].exp \in Nat
  /\ None \notin Jwts
  /\ \A o \in Offers : o.crate \in Crates
  /\ MaxConfigs \in Nat \ {0}
  /\ TokenLife \in Nat \ {0}
  /\ MinAge \in Nat \ {0}
  /\ RequestTime \in Nat
  /\ Leeway \in Nat
  /\ MaxNow \in Nat

VARIABLES
  provider,     \* the provider, which never changes
  now,
  provided,     \* per key: since when the provider publishes it
  cache,        \* the keys of its key store, and last_update
  alive,        \* the crates that exist
  configs,      \* rows of trustpub_configs_github or trustpub_configs_gitlab
  jtis,         \* rows of trustpub_used_jtis: jti and expires_at
  tokens,       \* rows of trustpub_tokens
  issued,       \* history: per JWT, the tokens it was exchanged for
  gone,         \* history: per crate, when it last ceased to have a configuration
  xpc,          \* per exchange: "idle", "loading" (with the write lock of the key store),
                \*   "decoded" or "txn"
  jwt,          \* per exchange: the JWT it was given
  begun,        \* per exchange: when the request began
  jwks,         \* per exchange: the keys the provider has answered
  loaded,       \* per exchange: the configurations it has loaded
  counted,      \* per creator: the configuration it will insert, if any
  nextConfig

tables == <<alive, configs, jtis, tokens>>
exchangeHistory == <<issued, gone>>
keyStore == <<provider, provided, cache>>
exchanges == <<xpc, jwt, begun, jwks, loaded>>
trustpubVars == <<now, tables, exchangeHistory, keyStore, exchanges, counted, nextConfig>>

TrustpubInit ==
  /\ provider \in Providers
  /\ now = 0
  /\ provided = [k \in Keys[provider] |-> Never]
  /\ cache = [keys |-> {}, updated |-> Never]
  /\ alive = Crates
  /\ configs = {}
  /\ jtis = {}
  /\ tokens = {}
  /\ issued = [j \in Jwts |-> 0]
  /\ gone = [c \in Crates |-> Never]
  /\ xpc = [x \in Exchanges |-> "idle"]
  /\ jwt = [x \in Exchanges |-> None]
  /\ begun = [x \in Exchanges |-> 0]
  /\ jwks = [x \in Exchanges |-> {}]
  /\ loaded = [x \in Exchanges |-> {}]
  /\ counted = [r \in Creators |-> {}]
  /\ nextConfig = 1

-----------------------------------------------------------------------------
(* The key store.                                                          *)

Published == {k \in DOMAIN provided : provided[k] # Never}

\* The provider publishes a key, or withdraws one (external).
RotateKeys(k) ==
  /\ provided' = [provided EXCEPT ![k] = IF @ = Never THEN now ELSE Never]
  /\ UNCHANGED <<provider, now, tables, exchangeHistory, cache, exchanges, counted, nextConfig>>

\* Cache::recently_updated
RecentlyUpdated == cache.updated # Never /\ now - cache.updated < MinAge

\* GitHubClaims::decode, GitLabClaims::decode: signature, issuer and audience, and
\* the times with the leeway of the library.
Decodes(j) ==
  /\ Claims[j].valid
  /\ now - Leeway <= Claims[j].exp
  /\ Claims[j].iat <= now + Leeway

\* The request to exchange a JWT begins.
Begun(x, j, step) ==
  /\ xpc[x] = "idle"
  /\ xpc' = [xpc EXCEPT ![x] = step]
  /\ jwt' = [jwt EXCEPT ![x] = j]
  /\ begun' = [begun EXCEPT ![x] = now]

Answered(x) ==
  /\ xpc' = [xpc EXCEPT ![x] = "idle"]
  /\ jwt' = [jwt EXCEPT ![x] = None]
  /\ begun' = [begun EXCEPT ![x] = 0]
  /\ jwks' = [jwks EXCEPT ![x] = {}]
  /\ loaded' = [loaded EXCEPT ![x] = {}]

\* The lock of the cache: nobody is loading keys.
CacheUnlocked == \A y \in Exchanges : xpc[y] # "loading"

\* exchange_trustpub_token when get_oidc_key answers from the cache.  (When the JWT cannot
\* be decoded, or its key is not there and the cache was refreshed just now, it is refused,
\* which changes nothing.)
KeyCached(x, j) ==
  /\ CacheUnlocked
  /\ Claims[j].key \in cache.keys /\ Decodes(j)
  /\ Begun(x, j, "decoded")
  /\ UNCHANGED <<now, tables, exchangeHistory, keyStore, jwks, loaded, counted, nextConfig>>

\* get_oidc_key under the write lock: the provider answers load_jwks.
FetchKeys(x, j) ==
  /\ CacheUnlocked
  /\ Claims[j].key \notin cache.keys
  /\ ~RecentlyUpdated
  /\ Begun(x, j, "loading")
  /\ jwks' = [jwks EXCEPT ![x] = Published]
  /\ UNCHANGED <<now, tables, exchangeHistory, keyStore, loaded, counted, nextConfig>>

\* Cache::update: the keys replace the cache, last_update is set, and the JWT is decoded
\* with its key or refused.
UpdateKeys(x) ==
  /\ xpc[x] = "loading"
  /\ cache' = [keys |-> jwks[x], updated |-> now]
  /\ \/ /\ Claims[jwt[x]].key \in jwks[x] /\ Decodes(jwt[x])
        /\ xpc' = [xpc EXCEPT ![x] = "decoded"]
        /\ jwks' = [jwks EXCEPT ![x] = {}]
        /\ UNCHANGED <<jwt, begun, loaded>>
     \/ ~(Claims[jwt[x]].key \in jwks[x] /\ Decodes(jwt[x])) /\ Answered(x)
  /\ UNCHANGED <<provider, now, tables, exchangeHistory, provided, counted, nextConfig>>

\* Cache::update fails at a key it cannot parse: the cache was cleared and holds
\* the keys before it, and last_update is not set.  The request is refused.
UpdateKeysFails(x) ==
  /\ xpc[x] = "loading"
  /\ \E some \in SUBSET jwks[x] : cache' = [cache EXCEPT !.keys = some]
  /\ Answered(x)
  /\ UNCHANGED <<provider, now, tables, exchangeHistory, provided, counted, nextConfig>>

-----------------------------------------------------------------------------
(* The exchange.                                                           *)

\* The configurations of the repository of a JWT.
OfRepository(j) ==
  {c \in configs : Lower[c.repo] = Lower[Claims[j].repo]}

\* What handle_github_token_inner refuses before it looks for configurations: two
\* events, and claims it cannot take apart.
GitHubWellFormed(j) ==
  /\ Claims[j].event \notin {"pull_request_target", "workflow_run"}
  /\ Claims[j].workflow # NoWorkflow
  /\ Claims[j].owner # NoOwner

\* handle_gitlab_token_inner looks at no event, and takes the namespace id as it is.
GitLabWellFormed(j) == Claims[j].workflow # NoWorkflow

WellFormed(j) == IF provider = "github" THEN GitHubWellFormed(j) ELSE GitLabWellFormed(j)

\* Mutant: the jti may be there already.
InsertJti_again(x) == TRUE

\* insert_jti: the unique index makes the insert wait for a transaction that has
\* inserted the same jti, and fail when it is committed.
InsertJti(x) ==
  /\ \A r \in jtis : r.jti # Claims[jwt[x]].jti
  /\ \A y \in Exchanges \ {x} :
       xpc[y] = "txn" => Claims[jwt[y]].jti # Claims[jwt[x]].jti

\* handle_github_token_inner, handle_gitlab_token_inner: up to the configurations.
BeginExchange(x) ==
  /\ xpc[x] = "decoded"
  /\ InsertJti(x)
  /\ WellFormed(jwt[x])
  /\ OfRepository(jwt[x]) # {}
  /\ xpc' = [xpc EXCEPT ![x] = "txn"]
  /\ loaded' = [loaded EXCEPT ![x] = OfRepository(jwt[x])]
  /\ UNCHANGED <<now, tables, exchangeHistory, keyStore, jwt, begun, jwks, counted, nextConfig>>

\* The filter on environments, which is the same for both.
EnvironmentAgrees(c, claims) ==
  \/ c.environment = NoEnvironment
  \/ /\ claims.environment # NoEnvironment
     /\ Lower[c.environment] = Lower[claims.environment]

\* The filters on owner id, workflow and environment.
GitHubMatching(x, claims) ==
  {c \in loaded[x] : /\ c.owner = claims.owner
                     /\ c.workflow = claims.workflow
                     /\ EnvironmentAgrees(c, claims)}

\* A configuration that was loaded without a namespace_id agrees with every one.
GitLabMatching(x, claims) ==
  {c \in loaded[x] : /\ c.owner \in {NoOwner, claims.owner}
                     /\ c.workflow = claims.workflow
                     /\ EnvironmentAgrees(c, claims)}

Matching(x) ==
  IF provider = "github" THEN GitHubMatching(x, Claims[jwt[x]])
                         ELSE GitLabMatching(x, Claims[jwt[x]])

\* GitLab: the rows that were loaded without a namespace_id and still have none.
Stored(x) ==
  {IF /\ provider = "gitlab"
      /\ c.owner = NoOwner
      /\ \E l \in loaded[x] : l.id = c.id /\ l.owner = NoOwner
   THEN [c EXCEPT !.owner = Claims[jwt[x]].owner] ELSE c : c \in configs}

\* The tokens there have been, for the bound.
AllIssued == {p \in Jwts \X (1 .. MaxToken) : p[2] <= issued[p[1]]}

\* The transaction stores namespace ids and the token, and commits.
FinishExchange(x) ==
  /\ xpc[x] = "txn"
  /\ Matching(x) # {}
  /\ Cardinality(AllIssued) < MaxToken
  /\ configs' = Stored(x)
  /\ jtis' = jtis \cup {[jti |-> Claims[jwt[x]].jti, expires |-> Claims[jwt[x]].exp]}
  /\ tokens' = tokens \cup {[jwt |-> jwt[x], nr |-> issued[jwt[x]] + 1,
                             expires |-> now + TokenLife,
                             crates |-> {c.crate : c \in Matching(x)}]}
  /\ issued' = [issued EXCEPT ![jwt[x]] = @ + 1]
  /\ Answered(x)
  /\ UNCHANGED <<now, alive, gone, keyStore, counted, nextConfig>>

\* Mutant: the namespace ids are stored before the transaction.
RefuseExchange_stored(x) ==
  /\ xpc[x] # "idle"
  /\ configs' = IF xpc[x] = "txn" THEN Stored(x) ELSE configs
  /\ Answered(x)
  /\ UNCHANGED <<now, alive, jtis, tokens, exchangeHistory, keyStore, counted, nextConfig>>

\* The exchange is refused, for one of the checks above or an error of the provider or
\* the database, or it has taken too long and is dropped; an open transaction is rolled
\* back, its jti with it.
RefuseExchange(x) ==
  /\ xpc[x] # "idle"
  /\ Answered(x)
  /\ UNCHANGED <<now, tables, exchangeHistory, keyStore, counted, nextConfig>>

-----------------------------------------------------------------------------
(* Configurations.                                                         *)

Count(c) == Cardinality({r \in configs : r.crate = c})

\* create_trustpub_github_config, create_trustpub_gitlab_config: a verified owner
\* of the crate; the configurations are counted, then GitHub is asked for the id.
CheckConfig(r, o) ==
  /\ counted[r] = {}
  /\ o.provider = provider
  /\ o.crate \in alive
  /\ Count(o.crate) < MaxConfigs
  /\ counted' = [counted EXCEPT ![r] = {o}]
  /\ UNCHANGED <<now, tables, exchangeHistory, keyStore, exchanges, nextConfig>>

Config(id, o, owner) ==
  [id |-> id, crate |-> o.crate, repo |-> o.repo, workflow |-> o.workflow,
   environment |-> o.environment, owner |-> owner]

\* NewGitHubConfig has the owner id that GitHub gave,
NewGitHubConfig(id, o) == Config(id, o, o.owner)

\* and NewGitLabConfig no namespace_id.
NewGitLabConfig(id, o) == Config(id, o, NoOwner)

\* The insert; a foreign key needs the crate.  Mail to the owners may fail.
InsertConfig(r) ==
  \E o \in counted[r] :
    /\ o.crate \in alive
    /\ nextConfig <= MaxConfigId
    /\ configs' = configs \cup {IF provider = "github" THEN NewGitHubConfig(nextConfig, o)
                                                       ELSE NewGitLabConfig(nextConfig, o)}
    /\ nextConfig' = nextConfig + 1
    /\ counted' = [counted EXCEPT ![r] = {}]
    /\ UNCHANGED <<now, alive, jtis, tokens, exchangeHistory, keyStore, exchanges>>

\* GitHub knows no such owner, or the insert fails.
GiveUpConfig(r) ==
  /\ counted[r] # {}
  /\ counted' = [counted EXCEPT ![r] = {}]
  /\ UNCHANGED <<now, tables, exchangeHistory, keyStore, exchanges, nextConfig>>

\* The crates that have configurations before and none after.
Ceased(after) ==
  [c \in Crates |-> IF /\ \E r \in configs : r.crate = c
                       /\ \A r \in after : r.crate # c
                    THEN now ELSE gone[c]]

RemoveConfig(r) ==
  /\ configs' = configs \ {r}
  /\ gone' = Ceased(configs \ {r})
  /\ UNCHANGED <<now, alive, jtis, tokens, issued, keyStore, exchanges, counted, nextConfig>>

\* delete_trustpub_github_config and delete_trustpub_gitlab_config, by an owner of the
\* crate.  Tokens stay.
DeleteGitHubConfig(r) == provider = "github" /\ RemoveConfig(r)
DeleteGitLabConfig(r) == provider = "gitlab" /\ RemoveConfig(r)

\* delete_crate: the configurations go by cascade.
DeleteCrateRow(c) ==
  LET after == {r \in configs : r.crate # c} IN
  /\ c \in alive
  /\ alive' = alive \ {c}
  /\ configs' = after
  /\ gone' = Ceased(after)
  /\ UNCHANGED <<now, jtis, tokens, issued, keyStore, exchanges, counted, nextConfig>>

-----------------------------------------------------------------------------
(* Tokens.                                                                 *)

\* revoke_trustpub_token: who has the token deletes its row.
RevokeToken(t) ==
  /\ tokens' = tokens \ {t}
  /\ UNCHANGED <<now, alive, configs, jtis, exchangeHistory, keyStore, exchanges,
                 counted, nextConfig>>

\* alert_revoke_token: GitHub has found the token.  Its row is deleted whether or not
\* mail can be sent to the owners.
AlertRevokeToken(t) == RevokeToken(t)

DeleteExpiredJtis ==
  /\ jtis' = {r \in jtis : r.expires >= now}
  /\ UNCHANGED <<now, alive, configs, tokens, exchangeHistory, keyStore, exchanges,
                 counted, nextConfig>>

DeleteExpiredTokens ==
  /\ tokens' = {t \in tokens : t.expires >= now}
  /\ UNCHANGED <<now, alive, configs, jtis, exchangeHistory, keyStore, exchanges,
                 counted, nextConfig>>

\* publish: the token is there, has not expired and was issued for this crate.
MayPublish(t, c) == c \in alive /\ c \in t.crates /\ t.expires > now

\* Time passes, but TimeoutLayer drops the requests that take too long.
TickTrustpub ==
  /\ now < MaxNow
  /\ \A x \in Exchanges : xpc[x] # "idle" => now - begun[x] < RequestTime
  /\ now' = now + 1
  /\ UNCHANGED <<tables, exchangeHistory, keyStore, exchanges, counted, nextConfig>>

ExchangeNext(x) ==
  \/ \E j \in Jwts : /\ Claims[j].provider = provider
                     /\ KeyCached(x, j) \/ FetchKeys(x, j)
  \/ UpdateKeys(x) \/ UpdateKeysFails(x)
  \/ BeginExchange(x) \/ FinishExchange(x) \/ RefuseExchange(x)

ConfigNext ==
  \/ \E r \in Creators : (\E o \in Offers : CheckConfig(r, o)) \/ InsertConfig(r) \/ GiveUpConfig(r)
  \/ \E r \in configs : DeleteGitHubConfig(r) \/ DeleteGitLabConfig(r)
  \/ \E c \in Crates : DeleteCrateRow(c)

TokenNext ==
  \/ \E t \in tokens : RevokeToken(t) \/ AlertRevokeToken(t)
  \/ DeleteExpiredJtis
  \/ DeleteExpiredTokens

TrustpubNext ==
  \/ \E x \in Exchanges : ExchangeNext(x)
  \/ \E k \in DOMAIN provided : RotateKeys(k)
  \/ ConfigNext
  \/ TokenNext
  \/ TickTrustpub

TrustpubSpec == TrustpubInit /\ [][TrustpubNext]_trustpubVars

-----------------------------------------------------------------------------
\* Exchanges and rows have their types.
TrustpubTypeOK ==
  /\ now \in 0 .. MaxNow
  /\ alive \subseteq Crates
  /\ \A c \in configs : c.crate \in alive /\ c.id < nextConfig
  /\ \A t \in tokens : t.jwt \in Jwts /\ t.crates # {}
  /\ \A x \in Exchanges : xpc[x] \in {"idle", "loading", "decoded", "txn"}
  /\ \A x \in Exchanges : (xpc[x] = "idle" <=> jwt[x] = None) /\ (loaded[x] # {} <=> xpc[x] = "txn")
  /\ \A j \in Jwts : issued[j] \in Nat

\* RealOidcKeyStore: while the key store refuses to refresh, it holds every key that the
\* provider had published for longer than a request takes when it was last refreshed, and
\* publishes still: a key published between the provider's answer and last_update is missed,
\* but one is refused only within MIN_AGE_BEFORE_REFRESH and the time of a request of being
\* published.  A refresh that fails half way does not begin this time.
KeyStoreFresh ==
  RecentlyUpdated =>
    {k \in Published : provided[k] + RequestTime < cache.updated} \subseteq cache.keys

\* trustpub_used_jtis: a JWT is exchanged once; a second exchange can only happen
\* in the leeway after it has expired, when its jti may have been cleaned up.
ExchangedOnce ==
  [][\A j \in Jwts : issued[j] > 0 /\ issued'[j] # issued[j] => now > Claims[j].exp]_trustpubVars

\* A crate without a configuration cannot be published by trusted publishing once the life
\* of a token has passed since it lost the last one, although neither the deletion of a
\* configuration nor that of a crate revokes the tokens issued for it; the exchange that had
\* loaded the configurations before adds no more than the time of a request.
TokensFollowConfigs ==
  \A t \in tokens : \A c \in t.crates : MayPublish(t, c) =>
    \/ \E r \in configs : r.crate = c
    \/ gone[c] # Never /\ now - gone[c] < TokenLife + RequestTime

\* A namespace_id is stored for a GitLab configuration only by a successful
\* exchange of that namespace, never by one that was refused.
NamespaceFromExchange ==
  \A c \in configs : provider = "gitlab" /\ c.owner # NoOwner =>
    \E j \in Jwts : /\ issued[j] > 0
                    /\ Claims[j].owner = c.owner
                    /\ Lower[Claims[j].repo] = Lower[c.repo]

\* Trusted publishing: the key store is fresh whenever it says so, a configuration is
\* bound only to the namespace of an exchange that succeeded, and tokens are good only
\* for crates that were configured.
TrustpubInv ==
  /\ TrustpubTypeOK
  /\ KeyStoreFresh
  /\ NamespaceFromExchange
  /\ TokensFollowConfigs
=============================================================================
