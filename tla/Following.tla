------------------------------ MODULE Following ------------------------------
(***************************************************************************)
(* The database pools of the web server, and the requests about followed   *)
(* crates that use them: follow, unfollow, following, and a search among   *)
(* the followed crates.                                                    *)
(*                                                                         *)
(* The environment decides which pools there are, which database each one  *)
(* connects to, and which connections are read-only.  A request takes a    *)
(* connection from the pool that suits it, or from another one when that   *)
(* one gives none in time, and returns it at its end.  The follower is a   *)
(* copy of the leader that lags behind.  There is one user, with a session *)
(* and a token that the follower may not have yet, and one crate, which    *)
(* may be deleted.                                                         *)
(***************************************************************************)
EXTENDS Integers, FiniteSets, Sequences

CONSTANTS
  Calls,         \* requests in flight at a time
  PoolSize,      \* DB_PRIMARY_ASYNC_POOL_SIZE, DB_REPLICA_ASYNC_POOL_SIZE
  MaxOutages,    \* bound: times a database becomes unreachable
  MaxFollowCalls \* bound: requests

ASSUME FollowingAssumption ==
  IsFiniteSet(Calls) /\ PoolSize \in Nat \ {0} /\ MaxOutages \in Nat /\ MaxFollowCalls \in Nat

VARIABLES
  dbEnv,       \* READ_ONLY_REPLICA_URL, DB_OFFLINE and READ_ONLY_MODE
  dbUp,        \* the databases that can be reached
  leaderDb,    \* the id of the crate, 0 once it is deleted, the followed crates, and
               \* whether the user's token is there
  followerDb,  \* the same, some time ago
  calls,       \* the requests
  outages,     \* outages so far
  followCalls, \* requests so far
  wrote        \* history: the pools whose connections have changed data

followVars == <<dbEnv, dbUp, leaderDb, followerDb, calls, outages, followCalls, wrote>>
followWorld == <<dbEnv, dbUp, leaderDb, followerDb, outages>>

WriteOps == {"follow", "unfollow"}
ReadOps == {"following", "search"}

\* expect: history: the answers the leader would have given during the request.
\* steady: history: the pools that it may use and that could give a connection all the time.
\* known: history: whether the follower had the token when the request began.
\* via: history: the pool whose connection was in use when it was answered.
NoCall == [op |-> "none", auth |-> "cookie", step |-> "idle", asks |-> <<>>, pool |-> "none", krate |-> 0,
           answer |-> "none", expect |-> {}, steady |-> {}, known |-> TRUE, via |-> "none"]

-----------------------------------------------------------------------------
(***************************************************************************)
(* The pools                                                               *)
(***************************************************************************)

PoolConfig ==
  LET primary == [url |-> "leader", readOnly |-> dbEnv.readOnly]
      replica == [url |-> dbEnv.replicaUrl, readOnly |-> TRUE]
  IN  CASE dbEnv.offline = "leader" -> [p \in {"primary"} |-> replica]
        [] dbEnv.offline = "follower" \/ dbEnv.replicaUrl = "none" -> [p \in {"primary"} |-> primary]
        [] OTHER -> [p \in {"primary", "replica"} |-> IF p = "primary" THEN primary ELSE replica]

Pools == DOMAIN PoolConfig

FollowInit ==
  /\ dbEnv \in [replicaUrl : {"none", "leader", "follower"}, offline : {"no", "leader", "follower"}, readOnly : BOOLEAN]
  /\ dbEnv.offline = "leader" => dbEnv.replicaUrl # "none"
  /\ dbUp = {"leader", "follower"}
  /\ leaderDb = [krate |-> 1, follows |-> {}, token |-> TRUE]
  /\ followerDb \in {leaderDb, [leaderDb EXCEPT !.token = FALSE]}
  /\ calls = [c \in Calls |-> NoCall]
  /\ outages = 0 /\ followCalls = 0 /\ wrote = {}

InUse(p) == {c \in Calls : calls[c].pool = p}

Available(p) == PoolConfig[p].url \in dbUp /\ Cardinality(InUse(p)) < PoolSize

PoolOrder(op) ==
  IF op \in WriteOps \/ "replica" \notin Pools THEN <<"primary">>
  ELSE IF op = "search" THEN <<"replica", "primary">> ELSE <<"primary", "replica">>

\* What a connection of the pool sees, and whether it may write: the session
\* setting of ConnectionConfig::apply, and the follower's own refusal.
Data(p) == IF PoolConfig[p].url = "leader" THEN leaderDb ELSE followerDb
MayWrite(p) == PoolConfig[p].url = "leader" /\ ~ PoolConfig[p].readOnly

\* Whether the crate with this id is followed.
FollowAnswer(data, id) == IF id # 0 /\ id \in data.follows THEN "yes" ELSE "no"

\* The histories of the requests after a step.
Observed(cs, data, up) ==
  LET free(p, c) == PoolConfig[p].url \in up /\ Cardinality({d \in Calls \ {c} : cs[d].pool = p}) < PoolSize
  IN  [c \in Calls |->
        IF cs[c].step = "answered" THEN cs[c]
        ELSE [cs[c] EXCEPT !.expect = IF cs[c].op \in ReadOps THEN @ \cup {FollowAnswer(data, data.krate)} ELSE @,
                           !.steady = {p \in @ : free(p, c)}]]

\* The call moves on; the connection goes back to its pool when it is answered.
Goes(c, call, data) == calls' = Observed([calls EXCEPT ![c] = call], data, dbUp)
Answered(call, answer) ==
  [op |-> call.op, auth |-> "cookie", step |-> "answered", asks |-> <<>>, pool |-> "none", krate |-> 0,
   answer |-> answer, expect |-> call.expect, steady |-> call.steady, known |-> call.known, via |-> call.pool]

-----------------------------------------------------------------------------
(***************************************************************************)
(* The requests                                                            *)
(***************************************************************************)

BeginRequest(c, op, auth) ==
  /\ calls[c] = NoCall /\ followCalls < MaxFollowCalls
  /\ op = "following" => auth = "cookie"
  /\ followCalls' = followCalls + 1
  /\ Goes(c, [NoCall EXCEPT !.op = op, !.auth = auth, !.step = "pool", !.asks = PoolOrder(op),
                           !.steady = IF op \in ReadOps THEN Pools ELSE {"primary"},
                           !.known = auth = "cookie" \/ followerDb.token], leaderDb)
  /\ UNCHANGED <<followWorld, wrote>>

\* The pool gives a connection: one that is idle and works, or a new one.
Obtain(c) ==
  LET p == calls[c].asks[1] IN
  /\ calls[c].step = "pool" /\ Available(p)
  /\ Goes(c, [calls[c] EXCEPT !.step = "auth", !.asks = <<>>, !.pool = p], leaderDb)
  /\ UNCHANGED <<followWorld, followCalls, wrote>>

\* It does not: the database cannot be reached, or all connections are in use
\* until the timeout.  The other pool is tried, if there is one.
Refused(c) ==
  LET rest == Tail(calls[c].asks) IN
  /\ calls[c].step = "pool" /\ ~ Available(calls[c].asks[1])
  /\ Goes(c, IF rest = <<>> THEN Answered(calls[c], "unavailable") ELSE [calls[c] EXCEPT !.asks = rest], leaderDb)
  /\ UNCHANGED <<followWorld, followCalls, wrote>>

Holds(c, step) == calls[c].step = step /\ PoolConfig[calls[c].pool].url \in dbUp

\* A query fails: the connection is lost.  Whatever happens to the query for the
\* token is answered with "authentication failed"; the next one is for the user.
QueryFails(c) ==
  /\ calls[c].pool # "none" /\ PoolConfig[calls[c].pool].url \notin dbUp
  /\ \E answer \in {"error", "forbidden"} :
       /\ answer = "forbidden" => calls[c].step = "auth" /\ calls[c].auth = "token"
       /\ Goes(c, Answered(calls[c], answer), leaderDb)
  /\ UNCHANGED <<followWorld, followCalls, wrote>>

\* The connection of c is used for a change.
Writes(c) == wrote' = IF MayWrite(calls[c].pool) THEN wrote \cup {calls[c].pool} ELSE wrote

\* The UPDATE of last_used_at, and the SELECT where that fails: neither finds a
\* token that the database does not have.
AuthToken_update(c) ==
  /\ Holds(c, "auth") /\ calls[c].auth = "token"
  /\ Goes(c, IF MayWrite(calls[c].pool) THEN [calls[c] EXCEPT !.step = "target"]
             ELSE Answered(calls[c], "forbidden"), leaderDb)
  /\ Writes(c)
  /\ UNCHANGED <<followWorld, followCalls>>

AuthToken(c) ==
  /\ Holds(c, "auth") /\ calls[c].auth = "token"
  /\ Goes(c, IF Data(calls[c].pool).token THEN [calls[c] EXCEPT !.step = "target"]
             ELSE Answered(calls[c], "forbidden"), leaderDb)
  /\ Writes(c)
  /\ UNCHANGED <<followWorld, followCalls>>

AuthCookie(c) ==
  /\ Holds(c, "auth") /\ calls[c].auth = "cookie"
  /\ Goes(c, [calls[c] EXCEPT !.step = "target"], leaderDb)
  /\ UNCHANGED <<followWorld, followCalls, wrote>>

\* follow_target: the id of the crate; a search has none.
FollowTarget(c) ==
  LET id == Data(calls[c].pool).krate IN
  /\ Holds(c, "target")
  /\ Goes(c, IF calls[c].op # "search" /\ id = 0 THEN Answered(calls[c], "not found")
             ELSE [calls[c] EXCEPT !.step = "run", !.krate = id], leaderDb)
  /\ UNCHANGED <<followWorld, followCalls, wrote>>

\* The insertion (a crate deleted meanwhile breaks the foreign key) or the
\* deletion.
ChangeFollow(c) ==
  LET id == calls[c].krate
      able == calls[c].op = "unfollow" \/ leaderDb.krate = id
      follows == IF calls[c].op = "follow" THEN leaderDb.follows \cup {id} ELSE leaderDb.follows \ {id}
      data == IF MayWrite(calls[c].pool) /\ able THEN [leaderDb EXCEPT !.follows = follows] ELSE leaderDb
      answer == IF ~ MayWrite(calls[c].pool) THEN "read only" ELSE IF able THEN "ok" ELSE "error"
  IN
  /\ Holds(c, "run") /\ calls[c].op \in WriteOps
  /\ leaderDb' = data /\ Writes(c)
  /\ Goes(c, Answered(calls[c], answer), data)
  /\ UNCHANGED <<dbEnv, dbUp, followerDb, outages, followCalls>>

\* Whether the crate is followed; a search finds it among the followed ones.
ReadFollow(c) ==
  LET data == Data(calls[c].pool)
      id == IF calls[c].op = "search" THEN data.krate ELSE calls[c].krate
  IN
  /\ Holds(c, "run") /\ calls[c].op \in ReadOps
  /\ Goes(c, Answered(calls[c], FollowAnswer(data, id)), leaderDb)
  /\ UNCHANGED <<followWorld, followCalls, wrote>>

EndCall(c) ==
  /\ calls[c].step = "answered"
  /\ calls' = [calls EXCEPT ![c] = NoCall]
  /\ UNCHANGED <<followWorld, followCalls, wrote>>

-----------------------------------------------------------------------------
(***************************************************************************)
(* The rest of the world                                                   *)
(***************************************************************************)

\* The crate is deleted, and its followers with it.
DeleteFollowed ==
  /\ leaderDb.krate # 0
  /\ leaderDb' = [leaderDb EXCEPT !.krate = 0, !.follows = {}]
  /\ calls' = Observed(calls, leaderDb', dbUp)
  /\ UNCHANGED <<dbEnv, dbUp, followerDb, outages, followCalls, wrote>>

Replicate ==
  /\ followerDb # leaderDb
  /\ followerDb' = leaderDb
  /\ UNCHANGED <<dbEnv, dbUp, leaderDb, calls, outages, followCalls, wrote>>

Outage(db) ==
  /\ db \in dbUp /\ outages < MaxOutages
  /\ outages' = outages + 1
  /\ dbUp' = dbUp \ {db}
  /\ calls' = Observed(calls, leaderDb, dbUp')
  /\ UNCHANGED <<dbEnv, leaderDb, followerDb, followCalls, wrote>>

Recovery(db) ==
  /\ db \notin dbUp
  /\ dbUp' = dbUp \cup {db}
  /\ UNCHANGED <<dbEnv, leaderDb, followerDb, calls, outages, followCalls, wrote>>

FollowNext ==
  \/ \E c \in Calls, op \in WriteOps \cup ReadOps, auth \in {"cookie", "token"} : BeginRequest(c, op, auth)
  \/ \E c \in Calls : Obtain(c)
  \/ \E c \in Calls : Refused(c)
  \/ \E c \in Calls : QueryFails(c)
  \/ \E c \in Calls : AuthToken(c)
  \/ \E c \in Calls : AuthCookie(c)
  \/ \E c \in Calls : FollowTarget(c)
  \/ \E c \in Calls : ChangeFollow(c)
  \/ \E c \in Calls : ReadFollow(c)
  \/ \E c \in Calls : EndCall(c)
  \/ DeleteFollowed
  \/ Replicate
  \/ \E db \in {"leader", "follower"} : Outage(db)
  \/ \E db \in {"leader", "follower"} : Recovery(db)

FollowSpec == FollowInit /\ [][FollowNext]_followVars

-----------------------------------------------------------------------------

\* Types; no pool gives more connections than it has, and followed crates exist.
FollowTypeOK ==
  /\ dbUp \subseteq {"leader", "follower"} /\ wrote \subseteq {"primary", "replica"}
  /\ outages \in 0..MaxOutages /\ followCalls \in 0..MaxFollowCalls
  /\ \A db \in {leaderDb, followerDb} : db.krate \in 0..1 /\ db.follows \subseteq {db.krate} \ {0} /\ db.token \in BOOLEAN
  /\ \A c \in Calls : calls[c].pool \in Pools \cup {"none"} /\ calls[c].op \in WriteOps \cup ReadOps \cup {"none"}
  /\ \A p \in Pools : Cardinality(InUse(p)) =< PoolSize

\* Nothing is ever changed over a connection of the replica pool, even where it
\* leads to the leader, nor at all in read-only mode or without the leader.
ReadOnlyKept ==
  /\ "replica" \notin wrote
  /\ dbEnv.readOnly \/ dbEnv.offline = "leader" => wrote = {}

\* A request is turned away only if none of the pools it may use could have
\* served it all the time (for a reading one: one database, or one pool, is
\* enough), and a reading one fails only if the database of its connection was
\* lost on the way; the other pool is not tried then.
ReadsSurvive ==
  \A c \in Calls :
    /\ calls[c].answer = "unavailable" => calls[c].steady = {}
    /\ calls[c].op \in ReadOps /\ calls[c].answer = "error" => calls[c].via \notin calls[c].steady

\* get_following_crate tells the user what holds, their own earlier change
\* included, however far the follower is behind, unless the primary pool could
\* not serve it all the time (or is the follower: DB_OFFLINE).
ReadYourWrites ==
  \A c \in Calls :
    /\ calls[c].op = "following" /\ calls[c].answer \in {"yes", "no"}
    /\ "primary" \in calls[c].steady /\ PoolConfig["primary"].url = "leader"
    => calls[c].answer \in calls[c].expect

\* A token is good over every connection, those included on which its use
\* cannot be recorded: a request is answered "forbidden" only if the database of
\* its connection was lost on the way, or is a follower that did not have the
\* token yet when the request began (a search over the replica pool).
TokensAccepted ==
  \A c \in Calls :
    calls[c].answer = "forbidden" =>
      \/ calls[c].via \notin calls[c].steady
      \/ ~ calls[c].known /\ PoolConfig[calls[c].via].url # "leader"

\* Pools and their users: reads go on with one of two databases, a user reads what they
\* wrote, a read-only pool writes nothing and the tokens it has are accepted over it.
FollowInv ==
  /\ FollowTypeOK
  /\ ReadOnlyKept
  /\ ReadsSurvive
  /\ ReadYourWrites
  /\ TokensAccepted
=============================================================================
