------------------------------ MODULE CrateView -------------------------------
(***************************************************************************)
(* What the API shows of a crate.  A response is put together from several *)
(* statements, each of which sees the database as it is then: GET          *)
(* /crates/{name} (find), the crates of /summary and of a search (summary),*)
(* /crates/{name}/downloads and the release tracks of                      *)
(* /crates/{name}/versions, while versions are published, yanked and       *)
(* deleted and the job UpdateDefaultVersion runs.                          *)
(*                                                                         *)
(* A version is its id; ids are given out in the order of publication.     *)
(* Its number is its place in the order of semver; two numbers share a     *)
(* release track.                                                          *)
(***************************************************************************)
EXTENDS Integers, Sequences, FiniteSets, SequencesExt, FiniteSetsExt

CONSTANTS
  VersionIds,      \* 1..n: ids
  Latest,          \* the number of versions whose downloads are shown one by one
  MaxWrites        \* bound: changes of the database

ASSUME CrateViewAssumption ==
  /\ IsFiniteSet(VersionIds) /\ VersionIds = 1..Cardinality(VersionIds) /\ VersionIds # {}
  /\ Latest \in Nat /\ MaxWrites \in Nat

VARIABLES
  num,        \* per version: the place of its number
  pre,        \* per version: it is a pre-release
  current,    \* the database: [live, yanked, default, total, recent, downloads]
  writes,     \* changes so far
  view        \* the request: what it has read so far, and the response

viewVars == <<num, pre, current, writes, view>>

None == 0

Present == current.live \cup current.yanked
TrackOf(v) == (num[v] + 1) \div 2

\* semver order, descending
ByNum(S) ==
  CHOOSE s \in SetToSeqs(S) : \A i, j \in DOMAIN s : i < j => num[s[i]] > num[s[j]]

\* The default version: not yanked, not a pre-release, highest.
Best(live, yanked) ==
  LET Score(v) == <<IF v \in live THEN 1 ELSE 0, IF pre[v] THEN 0 ELSE 1, num[v]>>
      Worse(a, b) == \E i \in 1..3 : a[i] < b[i] /\ \A j \in 1..(i - 1) : a[j] = b[j]
  IN CHOOSE v \in live \cup yanked :
       \A w \in (live \cup yanked) \ {v} : Worse(Score(w), Score(v))

NoView == [pc |-> "idle", kind |-> "none", include |-> {}, writes |-> 0, settled |-> FALSE,
           default |-> None, yanked |-> FALSE, count |-> 0, total |-> 0, recent |-> None,
           listed |-> {}, live |-> {}, shown |-> {}, latest |-> {}, extra |-> 0,
           tracks |-> {}, top |-> <<>>]

ViewInit ==
  /\ num \in {f \in [VersionIds -> VersionIds] : IsInjective(f)}
  /\ pre \in [VersionIds -> BOOLEAN]
  /\ \E recent \in {None, 3} :
       current = [live |-> {1}, yanked |-> {}, default |-> 1, total |-> 2, recent |-> recent,
                downloads |-> [v \in VersionIds |-> v]]
  /\ writes = 0
  /\ view = NoView

-----------------------------------------------------------------------------
(* The database changes.                                                   *)

Write(t) ==
  /\ writes < MaxWrites
  /\ writes' = writes + 1
  /\ current' = t
  /\ UNCHANGED <<num, pre, view>>

PublishVersion(v) ==
  /\ \A w \in Present : w < v
  /\ Write([current EXCEPT !.live = @ \cup {v}])

YankVersion(v) ==
  /\ v \in current.live
  /\ Write([current EXCEPT !.live = @ \ {v}, !.yanked = @ \cup {v}])

\* crates-admin delete-version, which keeps the default version right; the last version
\* of a crate goes with the crate.
RemoveVersion(v) ==
  /\ v \in Present /\ Present # {v}
  /\ Write([current EXCEPT !.live = @ \ {v}, !.yanked = @ \ {v},
                          !.default = Best(current.live \ {v}, current.yanked \ {v})])

UpdateDefaultVersion ==
  /\ current.default # Best(current.live, current.yanked)
  /\ Write([current EXCEPT !.default = Best(current.live, current.yanked)])

-----------------------------------------------------------------------------
(* What is computed.                                                       *)

\* TopVersions::from_date_version_pairs; each is empty if there is no such version.
TopVersions(listed) ==
  [highest |-> {v \in listed : \A w \in listed : num[w] <= num[v]},
   newest  |-> {v \in listed : \A w \in listed : w <= v},
   stable  |-> {v \in listed : ~pre[v] /\ \A w \in listed : ~pre[w] => num[w] <= num[v]}]

\* ReleaseTracks::from_sorted_semver_iter: a version opens a track unless the last entry
\* of the map is of the same track.
ReleaseTracks(sorted) ==
  LET Add(acc, v) ==
        IF pre[v] \/ acc.last = TrackOf(v) THEN acc
        ELSE [last |-> TrackOf(v),
              map |-> {e \in acc.map : e.track # TrackOf(v)}
                        \cup {[track |-> TrackOf(v), highest |-> v]}]
  IN FoldLeft(Add, [last |-> None, map |-> {}], sorted).map

\* EncodableCrate::from: the total is at least the recent downloads.
ShownDownloads(total, recent) == IF recent # None /\ recent > total THEN recent ELSE total

-----------------------------------------------------------------------------
(* Requests.                                                               *)

Ask(kind, include) ==
  /\ view.pc = "idle"
  /\ view' = [NoView EXCEPT !.pc = "start", !.kind = kind, !.include = include,
       !.writes = writes, !.settled = current.default = Best(current.live, current.yanked)]
  /\ UNCHANGED <<num, pre, current, writes>>

Step(pc) == view.pc = pc /\ UNCHANGED <<num, pre, current, writes>>

\* The crate with its default version, whether that is yanked, and its downloads
FindCrate ==
  /\ Step("start") /\ view.kind \in {"find", "summary"}
  /\ view' = [view EXCEPT !.pc = "crate", !.default = current.default,
       !.yanked = current.default \in current.yanked, !.count = Cardinality(Present),
       !.total = current.total,
       !.recent = IF view.kind = "summary" THEN current.recent ELSE None]

\* load_versions_and_publishers
LoadVersions ==
  /\ Step("crate") /\ view.kind = "find" /\ "versions" \in view.include
  /\ view' = [view EXCEPT !.pc = "versions", !.listed = Present, !.live = current.live]

\* load_default_versions_and_publishers: the default version that was read, if it is
\* still there
LoadDefaultVersion ==
  /\ Step("crate") /\ view.kind = "find"
  /\ "versions" \notin view.include
  /\ view' = [view EXCEPT !.pc = "versions",
       !.listed = IF "default_version" \in view.include THEN {view.default} \cap Present ELSE {}]

LoadRecentDownloads ==
  /\ Step("versions") /\ view.kind = "find"
  /\ view' = [view EXCEPT !.pc = "loaded",
       !.recent = IF "downloads" \in view.include THEN current.recent ELSE None]

\* encode_crates, and the search: the versions that are not yanked, for TopVersions
EncodeCrates ==
  /\ Step("crate") /\ view.kind = "summary"
  /\ view' = [view EXCEPT !.pc = "loaded", !.live = current.live]

\* The response: TopVersions are shown if the versions were asked for.
EncodableCrate ==
  /\ Step("loaded")
  /\ view' = [view EXCEPT !.pc = "done",
       !.total = ShownDownloads(view.total, view.recent),
       !.top = IF view.kind = "summary" \/ "versions" \in view.include
               THEN <<TopVersions(view.live)>> ELSE <<>>]

\* get_crate_downloads: the versions are sorted and split.
LoadDownloadVersions ==
  /\ Step("start") /\ view.kind = "downloads"
  /\ LET sorted == ByNum(Present)
         n == IF Len(sorted) < Latest THEN Len(sorted) ELSE Latest
     IN view' = [view EXCEPT !.pc = "split", !.listed = Present,
                             !.latest = Range(SubSeq(sorted, 1, n))]

SumDownloads(S) == MapThenSumSet(LAMBDA v : current.downloads[v], S)

\* belonging_to(latest_five)
LoadLatestDownloads ==
  /\ Step("split")
  /\ view' = [view EXCEPT !.pc = "latest", !.shown = view.latest \cap Present]

\* Mutant: all other versions are summed up, those published meanwhile too.
LoadExtraDownloads_all ==
  /\ Step("latest")
  /\ view' = [view EXCEPT !.pc = "done", !.extra = SumDownloads(Present \ view.shown)]

\* belonging_to(rest)
LoadExtraDownloads ==
  /\ Step("latest")
  /\ view' = [view EXCEPT !.pc = "done",
       !.extra = SumDownloads((view.listed \ view.latest) \cap Present)]

\* list: without pages the tracks are of the versions that were read, with pages they
\* are of a second statement
ListVersions ==
  /\ Step("start") /\ view.kind = "versions"
  /\ view' = [view EXCEPT !.pc = "tracks", !.listed = Present, !.live = current.live]

ListReleaseTracks ==
  /\ Step("tracks")
  /\ LET live == IF "pages" \in view.include THEN current.live ELSE view.live
     IN view' = [view EXCEPT !.pc = "done", !.live = live, !.tracks = ReleaseTracks(ByNum(live))]

ViewNext ==
  \/ \E v \in VersionIds : PublishVersion(v) \/ YankVersion(v) \/ RemoveVersion(v)
  \/ UpdateDefaultVersion
  \/ \E include \in SUBSET {"versions", "default_version", "downloads"} : Ask("find", include)
  \/ \E include \in SUBSET {"pages"} : Ask("versions", include)
  \/ Ask("summary", {})
  \/ Ask("downloads", {})
  \/ FindCrate
  \/ LoadVersions
  \/ LoadDefaultVersion
  \/ LoadRecentDownloads
  \/ EncodeCrates
  \/ EncodableCrate
  \/ LoadDownloadVersions
  \/ LoadLatestDownloads
  \/ LoadExtraDownloads
  \/ ListVersions
  \/ ListReleaseTracks

ViewSpec == ViewInit /\ [][ViewNext]_viewVars

-----------------------------------------------------------------------------
(* Properties.                                                             *)

\* The versions of the crate, and what a response may hold.
ViewTypeOK ==
  /\ current.live \cap current.yanked = {} /\ Present \subseteq VersionIds
  /\ current.default \in Present
  /\ view.listed \subseteq VersionIds /\ view.shown \subseteq view.latest

\* Nothing was written since the request began.
Quiet == view.pc = "done" /\ view.writes = writes

\* find_crate, encode_crates: the parts of a response agree, though they come from
\* several statements, when nothing was written meanwhile and the default version is up
\* to date: "yanked" says that all versions are, num_versions counts the list, the list
\* has the default version, and the newest and the highest version are yanked only when
\* all are.  A response that asks for the default version alone lists just that.
CoherentView ==
  Quiet /\ view.settled /\ view.kind \in {"find", "summary"} =>
    /\ view.yanked <=> current.live = {}
    /\ "versions" \in view.include =>
         view.count = Cardinality(view.listed) /\ view.default \in view.listed
    /\ view.include \cap {"versions", "default_version"} = {"default_version"} =>
         view.listed = {view.default}
    /\ view.top # <<>> /\ ~view.yanked =>
         /\ Cardinality(view.top[1].newest) = 1 /\ view.top[1].newest \subseteq current.live
         /\ ~pre[view.default] => view.top[1].stable = {view.default}

\* EncodableCrate::from, whatever was written meanwhile: the total that is shown is never
\* below the recent downloads, and a version that is shown as the highest is not below
\* the newest.
ShownDownloadsSound ==
  view.pc = "done" /\ view.kind \in {"find", "summary"} =>
    /\ view.total >= view.recent
    /\ view.top # <<>> =>
         \A h \in view.top[1].highest, n \in view.top[1].newest \cup view.top[1].stable :
           num[h] >= num[n] /\ {h, n} \subseteq view.live

\* ReleaseTracks: for each track its highest version that is neither yanked nor a
\* pre-release, one entry per track, whichever statement the versions come from.
TracksSound ==
  view.pc = "done" /\ view.kind = "versions" =>
    view.tracks =
      {[track |-> TrackOf(v), highest |-> v] :
         v \in {w \in view.live : ~pre[w] /\ \A u \in view.live :
                  ~pre[u] /\ TrackOf(u) = TrackOf(w) => num[u] <= num[w]}}

\* get_crate_downloads: a download is counted once.  The downloads of the versions shown
\* one by one and the sum of the rest are those of the versions the request began with,
\* less those that were deleted while it ran.
DownloadsOnce ==
  view.pc = "done" /\ view.kind = "downloads" =>
    /\ view.writes = writes => SumDownloads(view.shown) + view.extra = SumDownloads(Present)
    /\ SumDownloads(view.shown) + view.extra <= SumDownloads(view.listed)
    /\ view.writes = writes =>
         \A v \in view.shown, w \in view.listed \ view.latest : num[v] > num[w]

\* Responses about a crate that are put together from several statements: what they show
\* of versions, tracks and downloads fits together though the tables change meanwhile.
ViewInv ==
  /\ ViewTypeOK
  /\ CoherentView
  /\ ShownDownloadsSound
  /\ TracksSound
  /\ DownloadsOnce
=============================================================================
