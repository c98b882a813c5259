------------------------------- MODULE Feeds --------------------------------
(***************************************************************************)
(* The RSS feeds: the one of all updates, the one of new crates and one    *)
(* per crate.  A publication enqueues their jobs in its transaction; a job *)
(* reads the latest rows, with two queries, and writes the file anew.      *)
(*                                                                         *)
(* Behaviours follow one feed each: the jobs of the other feeds share      *)
(* nothing with its jobs but the workers.  A feed is the set of its items  *)
(* (their order and their wording are left out).  The jobs run on the      *)
(* default queue, which has several workers.                               *)
(* After the upload a job invalidates the CDNs and ignores a failure of    *)
(* that: this is the subject of CdnInvalidation.  A deleted crate is not   *)
(* published again here: that is the subject of Publication.               *)
(***************************************************************************)
EXTENDS Integers, FiniteSets

CONSTANTS
  FeedCrates,        \* names of crates
  FeedNums,          \* version numbers, all above 0
  FeedPublishers,    \* publish requests at work at a time
  FeedWorkers,       \* workers of the default queue
  NumItems,          \* NUM_ITEMS of the three kinds of feed
  AlwaysIncludeAge,  \* ALWAYS_INCLUDE_AGE of the three kinds, in ticks
  MaxFeedNow,        \* bound: the clock
  MaxFeedJobs,       \* bound: rows of one feed's job that wait
  MaxItems           \* bound: versions and crates ever committed

Kinds == {"updates", "crates", "crate"}
FeedIds == {"updates", "crates"} \cup FeedCrates
Kind(f) == IF f \in FeedCrates THEN "crate" ELSE f

NoPublish == [crate |-> "", num |-> 0, at |-> 0]

ASSUME FeedsAssumption ==
  /\ FeedNums \subseteq Nat \ {0}
  /\ {"updates", "crates"} \cap FeedCrates = {} /\ NoPublish.crate \notin FeedCrates
  /\ NumItems \in [Kinds -> Nat]
  /\ AlwaysIncludeAge \in [Kinds -> Nat]
  /\ MaxFeedNow \in Nat /\ MaxFeedJobs \in Nat \ {0} /\ MaxItems \in Nat

VARIABLES
  watched,   \* the feed that is followed
  feedNow,   \* the clock
  items,     \* every row ever committed; num is 0 for a row of crates
  gone,      \* the items whose rows were deleted
  request,   \* per publish request: the version it publishes, with created_at
  feedRows,  \* the rows of its job that no worker has locked
  doomed,    \* whether a DeleteCrateFromStorage job of its crate waits
  syncing,   \* per worker: its run of the job, and what it has loaded
  feed,      \* the feed in storage, as a set of items
  overlap    \* history: whether two of its jobs have run at a time

feedVars == <<watched, feedNow, items, gone, request, feedRows, doomed, syncing, feed, overlap>>

NoSync == [step |-> "idle", loaded |-> {}]

FeedInit ==
  /\ watched \in FeedIds
  /\ feedNow = 0
  /\ items = {} /\ gone = {}
  /\ request = [p \in FeedPublishers |-> NoPublish]
  /\ feedRows = 0
  /\ doomed = FALSE
  /\ syncing = [w \in FeedWorkers |-> NoSync]
  /\ feed = {}
  /\ overlap = FALSE

\* The rows the feed is about, whether they still exist or not.
Subjects ==
  CASE watched = "updates" -> {i \in items : i.num # 0}
    [] watched = "crates"  -> {i \in items : i.num = 0}
    [] OTHER               -> {i \in items : i.crate = watched /\ i.num # 0}

Query == Subjects \ gone

\* created_at > now - ALWAYS_INCLUDE_AGE
Young(rows) == {i \in rows : i.at > feedNow - AlwaysIncludeAge[Kind(watched)]}

\* ORDER BY created_at DESC LIMIT n, for any order of equal times.
Newest(rows, n) ==
  {s \in SUBSET rows :
     /\ Cardinality(s) = IF Cardinality(rows) < n THEN Cardinality(rows) ELSE n
     /\ \A i \in s, j \in rows \ s : i.at >= j.at}

-----------------------------------------------------------------------------
(***************************************************************************)
(* Publication and deletion, as far as the feeds see them                  *)
(***************************************************************************)

\* A deduplicated enqueue: a row that no worker has locked is enough.
EnqueueFeeds_running(fs) ==
  feedRows' = IF watched \in fs /\ feedRows = 0 /\ \A w \in FeedWorkers : syncing[w] = NoSync
              THEN 1 ELSE feedRows

EnqueueFeeds(fs) ==
  feedRows' = IF watched \in fs /\ feedRows = 0 THEN 1 ELSE feedRows

\* The transaction of a publication starts; its rows will have this time as
\* created_at.  The row of the crate is locked until it ends.
PublishBegin(p, c, n) ==
  /\ request[p] = NoPublish
  /\ \A q \in FeedPublishers : request[q].crate # c
  /\ \A i \in gone : i.crate = c => i.num \notin {0, n}
  /\ \A i \in items : ~ (i.crate = c /\ i.num = n)
  /\ Cardinality(items) + 2 * Cardinality({q \in FeedPublishers : request[q] # NoPublish}) + 2 =< MaxItems
  /\ request' = [request EXCEPT ![p] = [crate |-> c, num |-> n, at |-> feedNow]]
  /\ UNCHANGED <<watched, feedNow, items, gone, feedRows, doomed, syncing, feed, overlap>>

\* It commits: the rows and the jobs appear together.
PublishEnd(p) ==
  LET r == request[p]
      new == \A i \in items : ~ (i.crate = r.crate /\ i.num = 0)
  IN /\ r # NoPublish
     /\ items' = items \cup {r} \cup (IF new THEN {[r EXCEPT !.num = 0]} ELSE {})
     /\ EnqueueFeeds({r.crate, "updates"} \cup (IF new THEN {"crates"} ELSE {}))
     /\ request' = [request EXCEPT ![p] = NoPublish]
     /\ UNCHANGED <<watched, feedNow, gone, doomed, syncing, feed, overlap>>

\* The owner deletes the crate: no feed is enqueued, and the crate's own is
\* deleted by the job that deletes its files.
DeleteCrateRows(c) ==
  /\ \A q \in FeedPublishers : request[q].crate # c
  /\ \E i \in items \ gone : i.crate = c /\ i.num = 0
  /\ gone' = gone \cup {i \in items : i.crate = c}
  /\ doomed' = (doomed \/ c = watched)
  /\ UNCHANGED <<watched, feedNow, items, request, feedRows, syncing, feed, overlap>>

\* delete_feed of DeleteCrateFromStorage
DeleteFeed ==
  /\ doomed
  /\ doomed' = FALSE
  /\ feed' = {}
  /\ UNCHANGED <<watched, feedNow, items, gone, request, feedRows, syncing, overlap>>

\* crates-admin delete-version
DeleteVersionRow(i) ==
  /\ i \in items \ gone /\ i.num # 0
  /\ \A q \in FeedPublishers : request[q].crate # i.crate
  /\ gone' = gone \cup {i}
  /\ UNCHANGED <<watched, feedNow, items, request, feedRows, doomed, syncing, feed, overlap>>

\* crates-admin enqueue-job sync-updates-feed and sync-crates-feed
EnqueueFeedJob(f) ==
  /\ f \notin FeedCrates
  /\ EnqueueFeeds({f})
  /\ UNCHANGED <<watched, feedNow, items, gone, request, doomed, syncing, feed, overlap>>

-----------------------------------------------------------------------------
(***************************************************************************)
(* A run of SyncUpdatesFeed, SyncCratesFeed or SyncCrateFeed               *)
(***************************************************************************)

SyncFeed(w) ==
  /\ syncing[w] = NoSync
  /\ feedRows > 0
  /\ feedRows' = feedRows - 1
  /\ overlap' = (overlap \/ \E v \in FeedWorkers : syncing[v] # NoSync)
  /\ syncing' = [syncing EXCEPT ![w].step = "load"]
  /\ UNCHANGED <<watched, feedNow, items, gone, request, doomed, feed>>

\* The first query: every row that is young, whatever their number; when
\* they are too few, a second query follows.
LoadYoung(w) ==
  LET young == Young(Query)
      enough == Cardinality(young) >= NumItems[Kind(watched)]
  IN /\ syncing[w].step = "load"
     /\ syncing' = [syncing EXCEPT ![w].step = IF enough THEN "upload" ELSE "pad",
                                   ![w].loaded = IF enough THEN young ELSE {}]
     /\ UNCHANGED <<watched, feedNow, items, gone, request, feedRows, doomed, feed, overlap>>

LoadPadded(w) ==
  /\ syncing[w].step = "pad"
  /\ \E rows \in Newest(Query, NumItems[Kind(watched)]) :
       syncing' = [syncing EXCEPT ![w].step = "upload", ![w].loaded = rows]
  /\ UNCHANGED <<watched, feedNow, items, gone, request, feedRows, doomed, feed, overlap>>

UploadFeed(w) ==
  /\ syncing[w].step = "upload"
  /\ feed' = syncing[w].loaded
  /\ syncing' = [syncing EXCEPT ![w] = NoSync]
  /\ UNCHANGED <<watched, feedNow, items, gone, request, feedRows, doomed, overlap>>

\* An error, or the end of the worker, at any point: the job waits again.
SyncFails(w) ==
  /\ syncing[w] # NoSync
  /\ feedRows < MaxFeedJobs
  /\ feedRows' = feedRows + 1
  /\ syncing' = [syncing EXCEPT ![w] = NoSync]
  /\ UNCHANGED <<watched, feedNow, items, gone, request, doomed, feed, overlap>>

FeedTick ==
  /\ feedNow < MaxFeedNow
  /\ feedNow' = feedNow + 1
  /\ UNCHANGED <<watched, items, gone, request, feedRows, doomed, syncing, feed, overlap>>

FeedNext ==
  \/ \E p \in FeedPublishers, c \in FeedCrates, n \in FeedNums : PublishBegin(p, c, n)
  \/ \E p \in FeedPublishers : PublishEnd(p)
  \/ \E c \in FeedCrates : DeleteCrateRows(c)
  \/ DeleteFeed
  \/ \E i \in items : DeleteVersionRow(i)
  \/ \E f \in FeedIds : EnqueueFeedJob(f)
  \/ \E w \in FeedWorkers : SyncFeed(w)
  \/ \E w \in FeedWorkers : LoadYoung(w)
  \/ \E w \in FeedWorkers : LoadPadded(w)
  \/ \E w \in FeedWorkers : UploadFeed(w)
  \/ \E w \in FeedWorkers : SyncFails(w)
  \/ FeedTick

FeedSpec == FeedInit /\ [][FeedNext]_feedVars

-----------------------------------------------------------------------------

Item == [crate : FeedCrates, num : FeedNums \cup {0}, at : 0..MaxFeedNow]

\* Types: items are rows of crates and versions; a feed, and what a job has
\* loaded, are sets of items of its own subject.
FeedTypeOK ==
  /\ watched \in FeedIds
  /\ feedNow \in 0..MaxFeedNow
  /\ items \subseteq Item /\ gone \subseteq items
  /\ request \in [FeedPublishers -> Item \cup {NoPublish}]
  /\ feedRows \in 0..MaxFeedJobs
  /\ doomed \in BOOLEAN /\ overlap \in BOOLEAN
  /\ \A w \in FeedWorkers :
       /\ syncing[w].step \in {"idle", "load", "pad", "upload"}
       /\ syncing[w].loaded \subseteq Subjects
  /\ feed \subseteq Subjects

\* What the documentation of the feeds promises: all items that are young, and
\* the latest NUM_ITEMS, of all rows that were ever committed.
Promised ==
  {i \in Subjects :
     \/ i \in Young(Subjects)
     \/ Cardinality({j \in Subjects : j.at >= i.at}) =< NumItems[Kind(watched)]}

\* Once no job of a feed waits or runs, the feed holds what it promises, except
\* the rows deleted since: whatever was committed, in any order of created_at,
\* between the two queries, or while a job failed or was running.  Deleted rows
\* count among the latest NUM_ITEMS, as delete-version enqueues no job that
\* would fill their places.  Two jobs of the same feed may overlap, and then the
\* older one may write last: such a feed is left out.
FeedComplete ==
  ~ overlap /\ feedRows = 0 /\ (\A w \in FeedWorkers : syncing[w] = NoSync)
    => Promised \ gone \subseteq feed

\* The feeds: when no job is left, a feed has every entry it promises that still exists,
\* unless two jobs overlapped.
FeedInv == FeedTypeOK /\ FeedComplete
=============================================================================
