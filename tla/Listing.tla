------------------------------- MODULE Listing --------------------------------
(***************************************************************************)
(* Listings in pages.  A client asks for the first page of a listing and   *)
(* follows the link of every response to the next one; the rows change     *)
(* between its requests.  Most endpoints seek: the link carries the key of *)
(* the last row of the page, and the next page is filtered by "comes after *)
(* that key".  Others, and the search when the client asks for a page by   *)
(* number, skip the rows of the pages before.                              *)
(*                                                                         *)
(* A kind of listing stands for an endpoint and its sort order:            *)
(*   name, new, recent-updates, recent-downloads, downloads, query,        *)
(*   relevance      GET /crates                                            *)
(*   semver, date   GET /crates/{name}/versions                            *)
(*   id             GET /trusted_publishing/{github,gitlab}_configs        *)
(*   invitation     GET /crate_owner_invitations                           *)
(*   counts         GET /keywords by number of crates                      *)
(*   followed       GET /me/updates                                        *)
(*   reverse        GET /crates/{name}/reverse_dependencies                *)
(* "col" is the column the kind sorts by (for invitations, the crate; for  *)
(* relevance, the rank), a row's facets are the filters it satisfies, and  *)
(* names are their places in the alphabet.                                 *)
(***************************************************************************)
EXTENDS Integers, Sequences, FiniteSets, SequencesExt

CONSTANTS
  RowIds,        \* 1..n: ids, in the order they are given out
  Kinds,         \* the kinds of listings
  ParamSets,     \* the sets of filters a search is asked for with
  PerPage,       \* sizes of pages
  MaxPage,       \* max_allowed_page_offset
  MaxChanges     \* bound: changes of the rows during a walk

Searches == {"name", "new", "recent-updates", "recent-downloads", "downloads", "query", "relevance"}
ByName == {"name", "query", "relevance", "reverse"}
OffsetOnly == {"counts", "followed", "reverse"}

ASSUME ListingAssumption ==
  /\ IsFiniteSet(RowIds) /\ RowIds = 1..Cardinality(RowIds)
  /\ Kinds \subseteq Searches \cup {"semver", "date", "id", "invitation"} \cup OffsetOnly
  /\ PerPage \subseteq Nat \ {0}
  /\ MaxPage \in Nat /\ MaxChanges \in Nat

VARIABLES
  entries,    \* per id: the row, which may not be there yet or any more
  names,      \* per id: the name
  exact,      \* per id: the name is the query's
  walk,       \* what the client asks for, the key it seeks after or its page, its state
  shown,      \* the ids the client was shown, page after page
  changed     \* history: the rows that changed since the walk began, with repetitions

listVars == <<entries, names, exact, walk, shown, changed>>

Null == -1
NoName == 0
NoKey == [id |-> 0, col |-> Null, exact |-> FALSE]
NoRow == [present |-> FALSE, col |-> Null, facets |-> {}]

\* The columns that change, and may go down as well as up.
Mutable == {"recent-updates", "recent-downloads", "downloads", "relevance", "counts", "reverse"}

\* The values a row may have in the column that the kind sorts by.
Columns(kind) ==
  CASE kind \in {"name", "id", "query"} -> {Null}
    [] kind = "recent-downloads" -> {Null, 1, 2}
    [] OTHER -> {1, 2}

-----------------------------------------------------------------------------
(* Which rows.                                                             *)

Chain == <<"all_keywords", "keyword", "letter", "user_id", "team_id", "following", "ids">>

\* make_query: the query string, the category and include_yanked always filter; of the
\* others the first that is given does.
Applied(params) ==
  LET given == {i \in DOMAIN Chain : Chain[i] \in params}
  IN params \ {Chain[i] : i \in {j \in given : \E k \in given : k < j}}

\* What the descriptions of the parameters say: a parameter is ignored if one of these
\* is set.
IgnoredIf(p) ==
  CASE p = "keyword"   -> {"all_keywords"}
    [] p = "letter"    -> {"all_keywords", "keyword"}
    [] p = "user_id"   -> {"all_keywords", "keyword", "letter"}
    [] p = "team_id"   -> {"all_keywords", "keyword", "letter", "user_id"}
    [] p = "following" -> {"all_keywords", "keyword", "letter", "user_id", "team_id"}
    [] p = "ids"       -> {"all_keywords", "keyword", "letter", "user_id", "team_id", "following"}
    [] OTHER           -> {}
Documented(params) == {p \in params : IgnoredIf(p) \cap params = {}}

Listed == {i \in RowIds : entries[i].present /\ Applied(walk.params) \subseteq entries[i].facets}

-----------------------------------------------------------------------------
(* ORDER BY of each kind: row i comes before row j.                        *)

\* a desc nulls last
ColDesc(a, b) == a # Null /\ (b = Null \/ a > b)

SearchBefore(kind, i, j) ==
  LET a == entries[i].col
      b == entries[j].col
  IN CASE kind = "name" -> names[i] < names[j]
       [] kind = "query" ->
            \/ exact[i] /\ ~exact[j]
            \/ exact[i] = exact[j] /\ names[i] < names[j]
       [] kind = "relevance" ->
            \/ exact[i] /\ ~exact[j]
            \/ exact[i] = exact[j] /\ (a > b \/ (a = b /\ names[i] < names[j]))
       [] OTHER -> ColDesc(a, b) \/ (a = b /\ i > j)

VersionBefore(i, j) == entries[i].col > entries[j].col \/ (entries[i].col = entries[j].col /\ i > j)

ConfigBefore(i, j) == i < j

InvitationBefore(i, j) ==
  entries[i].col < entries[j].col \/ (entries[i].col = entries[j].col /\ i < j)

\* by number of crates, by date: rows may be equal
CountsBefore(i, j) == entries[i].col > entries[j].col
FollowedBefore(i, j) == entries[i].col > entries[j].col

ReverseBefore(i, j) ==
  entries[i].col > entries[j].col \/ (entries[i].col = entries[j].col /\ names[i] < names[j])

Before(kind, i, j) ==
  CASE kind \in {"semver", "date"} -> VersionBefore(i, j)
    [] kind = "id" -> ConfigBefore(i, j)
    [] kind = "invitation" -> InvitationBefore(i, j)
    [] kind = "counts" -> CountsBefore(i, j)
    [] kind = "followed" -> FollowedBefore(i, j)
    [] kind = "reverse" -> ReverseBefore(i, j)
    [] OTHER -> SearchBefore(kind, i, j)

-----------------------------------------------------------------------------
(* The seek conditions: row i comes after the key k.  A key by name has    *)
(* only the id: the name is looked up, and nothing compares with the name  *)
(* of a crate that is gone.                                                *)

CrateNameById(id) == IF entries[id].present THEN names[id] ELSE NoName

NameAfter(k, i) == CrateNameById(k.id) # NoName /\ names[i] > CrateNameById(k.id)

\* New and RecentUpdates
TimeAfter(k, i) == (entries[i].col = k.col /\ i < k.id) \/ entries[i].col < k.col

DownloadsAfter(k, i) == (entries[i].col = k.col /\ i < k.id) \/ entries[i].col < k.col

\* Semver and Date
VersionAfter(k, i) == (entries[i].col = k.col /\ i < k.id) \/ entries[i].col < k.col

\* Mutant: a key without recent downloads is taken for one with none.
RecentDownloadsAfter_zero(k, i) ==
  LET col == IF k.col = Null THEN 0 ELSE k.col
  IN \/ entries[i].col = col /\ i < k.id
     \/ entries[i].col # Null /\ entries[i].col < col

RecentDownloadsAfter(k, i) ==
  IF k.col # Null
  THEN \/ entries[i].col = k.col /\ i < k.id
       \/ entries[i].col # Null /\ entries[i].col < k.col
       \/ entries[i].col = Null
  ELSE entries[i].col = Null /\ i < k.id

QueryAfter(k, i) ==
  \/ exact[i] = k.exact /\ NameAfter(k, i)
  \/ ~exact[i] /\ k.exact

RelevanceAfter(k, i) ==
  \/ exact[i] = k.exact /\ entries[i].col = k.col /\ NameAfter(k, i)
  \/ exact[i] = k.exact /\ entries[i].col < k.col
  \/ ~exact[i] /\ k.exact

ConfigAfter(k, i) == i > k.id

InvitationAfter(k, i) == entries[i].col > k.col \/ (entries[i].col = k.col /\ i > k.id)

SeekAfter(k, i) ==
  CASE walk.kind = "name" -> NameAfter(k, i)
    [] walk.kind = "downloads" -> DownloadsAfter(k, i)
    [] walk.kind = "recent-downloads" -> RecentDownloadsAfter(k, i)
    [] walk.kind = "query" -> QueryAfter(k, i)
    [] walk.kind = "relevance" -> RelevanceAfter(k, i)
    [] walk.kind \in {"semver", "date"} -> VersionAfter(k, i)
    [] walk.kind = "id" -> ConfigAfter(k, i)
    [] walk.kind = "invitation" -> InvitationAfter(k, i)
    [] OTHER -> TimeAfter(k, i)

-----------------------------------------------------------------------------
(* The walk.                                                               *)

\* The rows in an order the database may give them in: rows that the ORDER BY does not
\* tell apart come in any.
Sorted(S) ==
  {s \in SetToSeqs(S) : \A i, j \in DOMAIN s : i < j => ~Before(walk.kind, s[j], s[i])}

Take(s, n) == SubSeq(s, 1, IF Len(s) < n THEN Len(s) ELSE n)
Drop(s, n) == SubSeq(s, n + 1, Len(s))

\* to_payload
Payload(i) == [id |-> i, col |-> entries[i].col, exact |-> exact[i]]

Facets(params) == IF Cardinality(params) = 1 THEN {params} ELSE SUBSET params

\* All rows but one, whose id is still to be given out, are there.
ListInit ==
  \E kind \in Kinds, per \in PerPage, paged \in BOOLEAN, params \in ParamSets :
    /\ paged => kind \in Searches \cup OffsetOnly
    /\ kind \in OffsetOnly => paged
    /\ kind # "name" => params = {"keyword"}
    /\ walk = [kind |-> kind, per |-> per, params |-> params, paged |-> paged,
               page |-> 1, key |-> NoKey, pc |-> "ask", total |-> 0, last |-> <<>>, cut |-> FALSE]
    /\ names \in {f \in [RowIds -> RowIds] : IsInjective(f)}
    /\ kind \notin ByName \/ params # {"keyword"} => names = [i \in RowIds |-> i]
    /\ exact \in {[i \in RowIds |-> i = e] : e \in RowIds \cup {0}}
    /\ kind \notin {"query", "relevance"} => exact = [i \in RowIds |-> FALSE]
    /\ \E cols \in [RowIds -> Columns(kind)], facets \in [RowIds -> Facets(params)] :
         /\ entries = [i \in RowIds |-> IF i = Cardinality(RowIds) THEN NoRow
                      ELSE [present |-> TRUE, col |-> cols[i], facets |-> facets[i]]]
    /\ shown = <<>>
    /\ changed = <<>>

\* Invitations are read with one more than the page has, which is taken off again.
InvitationPage(s) ==
  LET raw == Take(s, walk.per + 1) IN IF Len(raw) > walk.per THEN Front(raw) ELSE raw

\* The total of a search comes with each row of the page, counted without the seek
\* condition: a page without rows has the total 0.
SeekTotal(found) == Cardinality(Listed)

\* next_seek_params, next_page_params: there is a next page if the page is full.
FullPage(data) == Len(data) >= walk.per

\* A page of a seek is read in one statement.
LoadSeekPage ==
  /\ walk.pc = "ask" /\ ~walk.paged
  /\ LET found == {i \in Listed : walk.key = NoKey \/ SeekAfter(walk.key, i)}
         lost == walk.key # NoKey /\ walk.kind \in {"name", "query", "relevance"}
                   /\ ~walk.key.exact /\ CrateNameById(walk.key.id) = NoName
     IN \E s \in Sorted(found) :
          LET data == IF walk.kind = "invitation" THEN InvitationPage(s) ELSE Take(s, walk.per)
              next == IF walk.kind = "invitation" THEN Len(s) > walk.per ELSE FullPage(data)
          IN /\ walk' = [walk EXCEPT
                  !.last = data,
                  !.cut = @ \/ lost,
                  !.key = IF next THEN Payload(data[Len(data)]) ELSE @,
                  !.pc = IF next THEN "rest" ELSE "last",
                  !.total = IF walk.kind \in Searches /\ data # <<>> THEN SeekTotal(found) ELSE 0]
             /\ shown' = shown \o data
  /\ UNCHANGED <<entries, names, exact, changed>>

Offset(page, per) == (page - 1) * per

\* A page by number; gather refuses numbers that are too large, for the search.
LoadNumberedPage ==
  /\ walk.pc = "ask" /\ walk.paged
  /\ walk.kind \in Searches => walk.page <= MaxPage
  /\ \E s \in Sorted(Listed) :
       LET data == Take(Drop(s, Offset(walk.page, walk.per)), walk.per)
       IN /\ walk' = [walk EXCEPT
               !.last = data,
               !.page = @ + 1,
               !.pc = IF FullPage(data) THEN "rest" ELSE "last",
               !.total = IF data # <<>> THEN Cardinality(Listed) ELSE 0]
          /\ shown' = shown \o data
  /\ UNCHANGED <<entries, names, exact, changed>>

PageRefused ==
  /\ walk.pc = "ask" /\ walk.paged
  /\ walk.kind \in Searches /\ walk.page > MaxPage
  /\ walk' = [walk EXCEPT !.pc = "refused"]
  /\ UNCHANGED <<entries, names, exact, shown, changed>>

\* A list of configurations that fits on its first page counts that page.
ConfigTotal ==
  IF walk.pc = "last" /\ shown = walk.last THEN Len(walk.last) ELSE Cardinality(Listed)

\* What the response still needs, in statements of its own: the total, for configurations
\* and for versions; a page without versions has the total 0.
FinishPage ==
  /\ walk.pc \in {"rest", "last"}
  /\ walk' = [walk EXCEPT
       !.pc = IF walk.pc = "last" THEN "end" ELSE "ask",
       !.total = CASE walk.kind = "id" -> ConfigTotal
                   [] walk.kind \in {"semver", "date"} ->
                        IF walk.last # <<>> THEN Cardinality(Listed) ELSE 0
                   [] OTHER -> @]
  /\ UNCHANGED <<entries, names, exact, shown, changed>>

\* The crates and the users of invitations are read after them; when one is missing the
\* request fails, and the client asks again.
InvitationsFail ==
  /\ walk.pc \in {"rest", "last"} /\ walk.kind = "invitation"
  /\ \E i \in Range(walk.last) : ~entries[i].present
  /\ shown' = SubSeq(shown, 1, Len(shown) - Len(walk.last))
  /\ walk' = [walk EXCEPT !.pc = "ask",
                          !.key = IF shown' = <<>> THEN NoKey ELSE Payload(shown'[Len(shown')])]
  /\ UNCHANGED <<entries, names, exact, changed>>

-----------------------------------------------------------------------------
(* The rows change.                                                        *)

Change(i) ==
  /\ walk.pc \notin {"end", "refused"}
  /\ Len(changed) < MaxChanges
  /\ changed' = Append(changed, i)
  /\ UNCHANGED <<names, exact, walk, shown>>

InsertRow(i) ==
  /\ Change(i)
  /\ ~entries[i].present
  /\ \A j \in Range(changed) : j # i
  /\ \E c \in Columns(walk.kind) :
       entries' = [entries EXCEPT ![i] = [present |-> TRUE, col |-> c, facets |-> walk.params]]

DeleteRow(i) ==
  /\ Change(i)
  /\ entries[i].present
  /\ entries' = [entries EXCEPT ![i].present = FALSE]

\* A crate is updated, downloaded, described anew; the crates of a keyword are counted.
MoveRow(i) ==
  /\ Change(i)
  /\ entries[i].present
  /\ walk.kind \in Mutable
  /\ \E c \in Columns(walk.kind) \ {entries[i].col} : entries' = [entries EXCEPT ![i].col = c]

\* A row no longer satisfies a filter, or does again: keywords, owners, follows; an
\* invitation expires.
RefilterRow(i) ==
  /\ Change(i)
  /\ entries[i].present
  /\ \E p \in Applied(walk.params) :
       entries' = [entries EXCEPT ![i].facets = IF p \in @ THEN @ \ {p} ELSE @ \cup {p}]

ListNext ==
  \/ LoadSeekPage
  \/ LoadNumberedPage
  \/ PageRefused
  \/ FinishPage
  \/ InvitationsFail
  \/ \E i \in RowIds : InsertRow(i) \/ DeleteRow(i) \/ MoveRow(i) \/ RefilterRow(i)

ListSpec == ListInit /\ [][ListNext]_listVars

-----------------------------------------------------------------------------
(* Properties.                                                             *)

\* The state of a walk; no page has more rows than were asked for.
ListTypeOK ==
  /\ walk.kind \in Kinds /\ walk.per \in PerPage /\ walk.params \in ParamSets
  /\ walk.pc \in {"ask", "rest", "last", "end", "refused"}
  /\ walk.key.id \in RowIds \cup {0}
  /\ Len(walk.last) <= walk.per
  /\ Range(shown) \subseteq RowIds /\ Range(changed) \subseteq RowIds

\* Rows that were there when the walk began and have not changed since.
Stable == {i \in RowIds : entries[i].present /\ i \notin Range(changed)}
Expected == {i \in Stable : Documented(walk.params) \subseteq entries[i].facets}

\* Seeking skips nothing: when the client has followed all links, it has seen every row
\* that was there all along and that the documented filters let through, and no other
\* such row, whatever happened to the rows around - except that a listing by name ends
\* early when the crate that the link names has been deleted.
SeekMissesNothing ==
  walk.pc = "end" /\ ~walk.paged /\ ~walk.cut =>
    \A i \in Stable : i \in Range(shown) <=> i \in Expected

\* Seeking repeats nothing: rows that did not change are shown once, in the order of the
\* listing, across all pages.
SeekRepeatsNothing ==
  ~walk.paged =>
    \A m, n \in DOMAIN shown :
      m < n /\ {shown[m], shown[n]} \subseteq Stable => Before(walk.kind, shown[m], shown[n])

\* Pages by number are exact while nothing changes, where the order tells all rows apart.
NumbersExact ==
  walk.pc = "end" /\ walk.paged /\ changed = <<>> /\ walk.kind \notin {"counts", "followed"} =>
    \E s \in Sorted(Expected) : shown = s

\* The total of the last response, while nothing changes: the number of rows that the
\* client was shown in all; 0 if that response has no rows - as it has when the rows fill
\* their pages - except for configurations, which are counted then too.
TotalShown ==
  walk.pc = "end" /\ changed = <<>> /\ walk.kind \notin {"invitation", "followed"} =>
    walk.total = IF walk.last = <<>> /\ walk.kind # "id" THEN 0 ELSE Len(shown)

\* Paging: a client that follows next_page sees every crate that stayed as it was, once,
\* for each filter and order; pages by number are exact while nothing changes.
ListInv ==
  /\ ListTypeOK
  /\ SeekMissesNothing
  /\ SeekRepeatsNothing
  /\ NumbersExact
  /\ TotalShown
=============================================================================
