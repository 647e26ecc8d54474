---------------------------- MODULE ReportPages ----------------------------
(***************************************************************************)
(* The pages about finished tests, in one tab of the browser: the groups   *)
(* of pages/Dashboard.tsx with components/ClientMatrix.tsx,                *)
(* pages/TestList.tsx and pages/TestDetails.tsx, over hooks/useReports.ts, *)
(* useConfig.ts and useDumpFile.ts.                                        *)
(*                                                                         *)
(* A page keeps most of its state in the URL; the reports are in the cache *)
(* of React Query, which outlives the pages, under a key made of the       *)
(* directories asked and the limit.  Leaving a page unmounts it.           *)
(*                                                                         *)
(* A report stands for its entry of index.json.  cols has what localeCompare *)
(* or subtraction sorts a column by.  How a value is displayed is left out. *)
(***************************************************************************)
EXTENDS Naturals, Sequences, FiniteSets, SequencesExt, WebFetch

CONSTANTS
    Report,       \* all the reports: their id, the order of their timestamps
    RawConfig,    \* the values config.json may have
    NetworkOrder, \* the networks: mainnet, then the rest by name
    Column,       \* what the list can be sorted by, "timestamp" among them
    Limit,        \* results per page (10, 20, 50, 100, 200)
    DefaultLimit, \* the one of a URL without limit (20)
    Window,       \* page numbers under the list (5)
    ListLimit,    \* what the dashboard and the list ask for (10000)
    LookupLimit,  \* what the details page asks for (1000)
    RowsShown,    \* rows of a group on the dashboard (3)
    BoxCount,     \* runs of a cell of the client matrix (5, 10, 15, 20, 25)
    All,          \* no value: of a filter, of a parameter, of a state
    Late,         \* bound: the reports that may be published while the tab is open
    Bookmarked,   \* bound: the tests and networks whose URLs the user has
    MaxDumps,     \* bound: dumps asked about at once
    MaxClicks     \* bound: what the user does

ASSUME ReportAssumption ==
    /\ IsFiniteSet(Report)
    /\ \A r, s \in Report : r.id = s.id => r = s
    /\ \A r \in Report :
          /\ r.id \in Nat /\ r.duration \in Nat
          /\ \A col \in Column : r.cols[col] \in Nat
          /\ All \notin {r.dir, r.network, r.el, r.cl}
    /\ "timestamp" \in Column
    /\ Late \subseteq Report /\ Bookmarked \subseteq Report
    /\ DefaultLimit \in Limit /\ Limit \subseteq Nat \ {0}
    /\ Window \in Nat /\ MaxClicks \in Nat

VARIABLES
    published,  \* the reports in the index files
    config,     \* the directories of config.json, none when it was refused
    cache,      \* the queries of useReports
    view,       \* the page that is mounted: its URL and its state
    clicks,     \* how many things of MaxClicks the user has done
    dumpInfo,   \* the report whose dump useDumpFileInfo has described
    dumpAsked,  \* the reports whose dumps it is asking about
    overtaken   \* observation: one of these answers overtook another

reportVars == <<published, config, cache, view, clicks, dumpInfo, dumpAsked, overtaken>>

Dir     == {r.dir : r \in Report}
Network == {r.network : r \in Report}
EL      == {r.el : r \in Report}
CL      == {r.cl : r \in Report}

-----------------------------------------------------------------------------
(* config.json: its directories, name by name, whether their URLs parse and
   whether they are enabled, and the refresh interval. *)

ValidConfig(raw) ==
    /\ raw.directories # <<>>
    /\ \A n \in DOMAIN raw.directories :
          raw.directories[n].name # "" /\ raw.directories[n].parses
    /\ raw.refreshInterval >= 1000

ConfigOf(raw) == IF ValidConfig(raw) THEN raw.directories ELSE <<>>
Configured == config # <<>>
Names(ds)  == [n \in DOMAIN ds |-> ds[n].name]
Enabled(ds) == {ds[n].name : n \in {m \in DOMAIN ds : ds[m].enabled}}

-----------------------------------------------------------------------------
(* useReports. *)

Newest(n, S) == {r \in S : Cardinality({s \in S : s.id > r.id}) < n}

\* The directories a page asks, and how many of their reports it takes.
Key(v) ==
    IF v.at # "details" THEN [dirs |-> Enabled(config), limit |-> ListLimit]
    ELSE [dirs  |-> IF v.dir = All THEN Enabled(config) ELSE Enabled(config) \cap {v.dir},
          limit |-> LookupLimit]

NewQuery == [data |-> {}, loaded |-> FALSE, fetching |-> FALSE]

CachedQuery(c, k) == IF k \in DOMAIN c THEN c[k] ELSE NewQuery
Put(c, k, q) == [l \in DOMAIN c \cup {k} |-> IF l = k THEN q ELSE c[l]]

\* The caches after a page that needs query k mounted: it is fetched, or not
\* if it was loaded in the last 30 seconds.  A query without directories is
\* not enabled.
Asked(c, k) ==
    (IF k.dirs = {} \/ CachedQuery(c, k).loaded \/ CachedQuery(c, k).fetching THEN {c} ELSE {})
    \cup (IF k.dirs = {} THEN {} ELSE {Put(c, k, [CachedQuery(c, k) EXCEPT !.fetching = TRUE])})

Reports(c, v) == IF Configured THEN CachedQuery(c, Key(v)).data ELSE {}

\* Neither reportsLoading, nor configError: the page is there.
Ready(c, v) ==
    /\ Configured
    /\ CachedQuery(c, Key(v)).fetching => CachedQuery(c, Key(v)).loaded

-----------------------------------------------------------------------------
(* Dashboard. *)

Directories(data) == SelectSeq(Names(config), LAMBDA d : \E r \in data : r.dir = d)
NetworksOf(data, d) ==
    SelectSeq(NetworkOrder, LAMBDA n : \E r \in data : r.dir = d /\ r.network = n)

\* The tabs in front: the state, or the first there is.
ActiveDirectory(v, data) == IF v.dir # All THEN v.dir ELSE Directories(data)[1]
ActiveNetwork(v, data, d) ==
    IF v.networks[d] # All THEN v.networks[d] ELSE NetworksOf(data, d)[1]

\* groupReportsByDirectoryNetworkAndClient
Group(data, d, n, el) == {r \in data : r.dir = d /\ r.network = n /\ r.el = el}

\* The CL client filter of a group: the URL, then the state, if there are
\* reports of it, else all.
ActiveCL(v, data, d, n, el) ==
    LET available == {r.cl : r \in Group(data, d, n, el)}
    IN  IF v.url.cl[el] \in available THEN v.url.cl[el]
        ELSE IF v.clients[<<d, n, el>>] \in available THEN v.clients[<<d, n, el>>]
        ELSE All

GroupShown(v, data, d, n, el) ==
    LET cl == ActiveCL(v, data, d, n, el)
    IN  {r \in Group(data, d, n, el) : cl = All \/ r.cl = cl}

\* The tabs in front that have a content: a directory or a network of the
\* state without reports leaves none.
InFront(v, data) ==
    LET d == ActiveDirectory(v, data)
    IN  IF data = {} \/ ~\E r \in data : r.dir = d THEN {}
        ELSE {<<d, ActiveNetwork(v, data, d)>>}

\* The cards of the groups in front.
Cards(v, data) ==
    {<<f[1], f[2], el>> : f \in InFront(v, data), el \in EL}
        \cap {<<r.dir, r.network, r.el>> : r \in data}

\* ClientMatrix: the latest runs of each pair of clients of the network.
Matrix(v, data, boxes) ==
    UNION {Newest(boxes, {r \in Group(data, c[1], c[2], c[3]) : r.cl = cl}) :
              c \in Cards(v, data), cl \in CL}

\* A report without a status, which is "" here, counts as a success.
StatusOf(r) == IF r.status = "" THEN "success" ELSE r.status

\* The points of the charts of a group, which needs two to draw them.
ChartPoints(S) ==
    LET good == {r \in S : StatusOf(r) = "success"}
    IN  IF Cardinality(good) > 1 THEN good ELSE {}

\* The reports the dashboard links to.
DashboardLinks(v, data) ==
    UNION {Matrix(v, data, boxes) : boxes \in BoxCount}
    \cup UNION {LET S == GroupShown(v, data, c[1], c[2], c[3])
                IN  Newest(RowsShown, S) \cup ChartPoints(S) : c \in Cards(v, data)}

NoFilter == [dir |-> All, network |-> All, el |-> All, cl |-> All, status |-> All,
             minDuration |-> All, maxDuration |-> All]

\* Mutant: the link takes the client from the state, not from the tab in front.
BadMoreLinkOfState(v, data, c) ==
    [NoFilter EXCEPT !.dir = c[1], !.network = c[2], !.el = c[3], !.cl = v.clients[c]]

\* The filter in the link "View N more", of a group with more than it shows.
MoreLink(v, data, c) ==
    [NoFilter EXCEPT !.dir = c[1], !.network = c[2], !.el = c[3],
                     !.cl = ActiveCL(v, data, c[1], c[2], c[3])]
HasMore(v, data, c) == Cardinality(GroupShown(v, data, c[1], c[2], c[3])) > RowsShown

NoDirectories == [dir |-> All, network |-> All, cl |-> [el \in EL |-> All]]

\* The effect that sets the defaults when there are reports and no directory.
Defaulted(v, data) ==
    IF v.at = "dashboard" /\ v.dir = All /\ Directories(data) # <<>>
    THEN LET d == Directories(data)[1]
             n == NetworksOf(data, d)[1]
         IN  [v EXCEPT !.dir = d, !.networks = [e \in Dir |-> IF e = d THEN n ELSE All],
                       !.url = [NoDirectories EXCEPT !.dir = d, !.network = n]]
    ELSE v

DashboardOf(url) ==
    [at |-> "dashboard", url |-> url, dir |-> url.dir,
     networks |-> [d \in Dir |-> IF d = url.dir THEN url.network ELSE All],
     clients  |-> [k \in Dir \X Network \X EL |-> All]]

-----------------------------------------------------------------------------
(* TestList. *)

ListOf(filter) == [at |-> "list", filter |-> filter, page |-> 1, limit |-> DefaultLimit,
                   sortBy |-> "timestamp", ascending |-> FALSE]

Matches(r, f) ==
    /\ f.dir \in {All, r.dir} /\ f.network \in {All, r.network}
    /\ f.el \in {All, r.el}   /\ f.cl \in {All, r.cl}
    /\ f.status \in {All, StatusOf(r)}
    /\ f.minDuration = All \/ r.duration >= f.minDuration
    /\ f.maxDuration = All \/ r.duration <= f.maxDuration

Found(v, data) == {r \in data : Matches(r, v.filter)}

\* The order of the table.  The sort is stable and its input is sorted by
\* timestamp, newest first.
Before(v, r, s) ==
    LET a == r.cols[v.sortBy]
        b == s.cols[v.sortBy]
    IN  IF a = b THEN r.id > s.id ELSE IF v.ascending THEN a < b ELSE a > b

\* How many rows are above that of r.
Rank(v, data, r) == Cardinality({s \in Found(v, data) : Before(v, s, r)})

Pages(v, data) == (Cardinality(Found(v, data)) + v.limit - 1) \div v.limit

\* The rows of the page: of the table, those from (page - 1) * limit on, as
\* many as limit.
PageRows(v, data) ==
    {r \in Found(v, data) :
        Rank(v, data, r) \in ((v.page - 1) * v.limit) .. (v.page * v.limit - 1)}

\* The buttons under the table: a window of page numbers around the page, and
\* the first, previous, next and last.
PagerTargets(v, data) ==
    LET total == Pages(v, data)
        half  == Window \div 2
        first == CASE total <= Window \/ v.page <= half + 1 -> 1
                   [] total > Window /\ v.page > half + 1 /\ v.page + half >= total ->
                         total - Window + 1
                   [] OTHER -> v.page - half
    IN  IF PageRows(v, data) = {} THEN {}
        ELSE {p \in first..(first + Window - 1) : p <= total}
             \cup (IF v.page > 1 THEN {1, v.page - 1} ELSE {})
             \cup (IF v.page < total THEN {v.page + 1, total} ELSE {})

-----------------------------------------------------------------------------
(* TestDetails. *)

DetailsOf(d, id) == [at |-> "details", dir |-> d, id |-> id]

\* The report the page is about, by its id; a list that does not have it
\* shows "Test Not Found".
TestReport(c, v) ==
    IF v.at = "details" /\ Ready(c, v) THEN {r \in Reports(c, v) : r.id = v.id} ELSE {}

\* The effect of useDumpFileInfo depends on the report and asks about the dump
\* of another one.
DumpToAsk(was, now) == IF now = was THEN <<>> ELSE SetToSeq(now)

\* What a commit does besides: the cache has c, v is mounted.  A page that
\* unmounts forgets what it asked and what it got.
CommitReports(c, v) ==
    LET was == TestReport(cache, view)
        now == TestReport(c, v)
    IN  /\ cache' = c
        /\ view' = IF Ready(c, v) THEN Defaulted(v, Reports(c, v)) ELSE v
        /\ IF v.at = "details" /\ view.at = "details"
           THEN /\ dumpAsked' = dumpAsked \o DumpToAsk(was, now)
                /\ Len(dumpAsked') <= MaxDumps
                /\ UNCHANGED <<dumpInfo, overtaken>>
           ELSE /\ dumpAsked' = SetToSeq(now)
                /\ dumpInfo' = {} /\ overtaken' = FALSE

-----------------------------------------------------------------------------
(* Actions: the servers, the queries, the answers. *)

Publish ==
    /\ \E r \in Report \ published : published' = published \cup {r}
    /\ UNCHANGED <<config, cache, view, clicks, dumpInfo, dumpAsked, overtaken>>

\* A query ends: each directory is read, is empty, or fails and is left out;
\* the newest of all their reports are kept.
ReportsFetched(k) ==
    /\ cache[k].fetching
    /\ \E outcome \in [k.dirs -> IndexOutcomes] :
          LET read == {r \in published : r.dir \in k.dirs /\ outcome[r.dir] = "listed"}
          IN  CommitReports([cache EXCEPT ![k] = [data |-> Newest(k.limit, read), loaded |-> TRUE,
                                           fetching |-> FALSE]], view)
    /\ UNCHANGED <<published, config, clicks>>

\* gcTime: a query no page has used for two minutes.
Collect(k) ==
    /\ k # Key(view) /\ ~cache[k].fetching
    /\ cache' = [l \in DOMAIN cache \ {k} |-> cache[l]]
    /\ UNCHANGED <<published, config, view, clicks, dumpInfo, dumpAsked, overtaken>>

\* refetchOnReconnect.
Reconnect ==
    /\ cache' \in Asked(cache, Key(view)) \ {cache}
    /\ UNCHANGED <<published, config, view, clicks, dumpInfo, dumpAsked, overtaken>>

\* An answer of getDumpFileInfo, which does not fail.
DumpAnswer(n) ==
    /\ dumpInfo' = {dumpAsked[n]}
    /\ dumpAsked' = RemoveAt(dumpAsked, n)
    /\ overtaken' = (overtaken \/ n > 1)
    /\ UNCHANGED <<published, config, cache, view, clicks>>

-----------------------------------------------------------------------------
(* Actions of the user. *)

\* v is displayed: its query is asked for if it is another page.
Show(v) ==
    /\ clicks < MaxClicks /\ clicks' = clicks + 1
    /\ v # view
    /\ \E c \in IF v.at # view.at \/ Key(v) # Key(view) THEN Asked(cache, Key(v)) ELSE {cache} :
          CommitReports(c, v)
    /\ UNCHANGED <<published, config>>

On(at) == view.at = at /\ Ready(cache, view)
Data   == Reports(cache, view)

\* The links of the header.  The dashboard stays mounted when it is there.
OpenDashboard ==
    Show(IF view.at = "dashboard" THEN [view EXCEPT !.url = NoDirectories]
         ELSE DashboardOf(NoDirectories))
OpenList == Show(ListOf(NoFilter))

\* A URL typed: the details page stays mounted and gets another id.
OpenURL == \E r \in Bookmarked : \E d \in {r.dir, All} : Show(DetailsOf(d, r.id))

\* A row, a box of the matrix or a point of a chart.
OpenTest ==
    \/ /\ On("dashboard")
       /\ \E r \in DashboardLinks(view, Data) : Show(DetailsOf(r.dir, r.id))
    \/ /\ On("list")
       /\ \E r \in PageRows(view, Data) : Show(DetailsOf(r.dir, r.id))

HandleDirectoryChange ==
    /\ On("dashboard") /\ Len(Directories(Data)) > 1
    /\ \E d \in {r.dir : r \in Data} \ {ActiveDirectory(view, Data)} :
          Show([view EXCEPT !.dir = d,
                            !.url = [NoDirectories EXCEPT !.dir = d,
                                        !.network = ActiveNetwork(view, Data, d)]])

HandleNetworkChange ==
    /\ On("dashboard")
    /\ \E f \in InFront(view, Data) :
          \E n \in {r.network : r \in {s \in Data : s.dir = f[1]}} \ {f[2]} :
              Show([view EXCEPT !.networks[f[1]] = n,
                                !.url = [NoDirectories EXCEPT !.dir = f[1], !.network = n]])

HandleCLClientChange ==
    /\ On("dashboard")
    /\ \E c \in Cards(view, Data) :
          LET available == {r.cl : r \in Group(Data, c[1], c[2], c[3])}
          IN  /\ Cardinality(available) > 1
              /\ \E cl \in (available \cup {All}) \ {ActiveCL(view, Data, c[1], c[2], c[3])} :
                    Show([view EXCEPT !.clients[c] = cl, !.url.dir = c[1],
                                      !.url.network = c[2], !.url.cl[c[3]] = cl])

ViewMore ==
    /\ On("dashboard")
    /\ \E c \in Cards(view, Data) :
          HasMore(view, Data, c) /\ Show(ListOf(MoreLink(view, Data, c)))

\* updateUrlParams with a filter: back to page 1.
SetFilter(f) == f # view.filter /\ Show([view EXCEPT !.filter = f, !.page = 1])

ChangeFilter ==
    /\ On("list")
    /\ \/ \E d \in {r.dir : r \in Data} \cup {All} : SetFilter([view.filter EXCEPT !.dir = d])
       \/ \E n \in {r.network : r \in Data} \cup {All} : SetFilter([view.filter EXCEPT !.network = n])
       \/ \E e \in {r.el : r \in Data} \cup {All} : SetFilter([view.filter EXCEPT !.el = e])
       \/ \E c \in {r.cl : r \in Data} \cup {All} : SetFilter([view.filter EXCEPT !.cl = c])
       \/ \E s \in {StatusOf(r) : r \in Data} \cup {All} : SetFilter([view.filter EXCEPT !.status = s])
       \/ \E m \in {r.duration : r \in Report} \cup {All} :
             \/ SetFilter([view.filter EXCEPT !.minDuration = m])
             \/ SetFilter([view.filter EXCEPT !.maxDuration = m])

ClearFilters == On("list") /\ SetFilter(NoFilter)

HandleSort ==
    /\ On("list") /\ PageRows(view, Data) # {}
    /\ \E col \in Column :
          Show([view EXCEPT !.sortBy = col, !.page = 1,
                            !.ascending = view.sortBy = col /\ ~view.ascending])

HandlePageChange ==
    /\ On("list")
    /\ \E p \in PagerTargets(view, Data) : Show([view EXCEPT !.page = p])

\* Mutant: the page stays.
BadHandleLimitChangeKeepsPage ==
    /\ On("list")
    /\ \E l \in Limit \ {view.limit} : Show([view EXCEPT !.limit = l])

HandleLimitChange ==
    /\ On("list")
    /\ \E l \in Limit \ {view.limit} : Show([view EXCEPT !.limit = l, !.page = 1])

-----------------------------------------------------------------------------

\* A tab opened with the URL of one of the pages.
ReportMounted(v) ==
    /\ view = v
    /\ cache \in Asked(<<>>, Key(v))
    /\ clicks = 0 /\ dumpInfo = {} /\ dumpAsked = <<>> /\ overtaken = FALSE

\* The URLs of tabs of the dashboard the user has.
BookmarkedTabs ==
    {[dir |-> r.dir, network |-> r.network, cl |-> [NoDirectories.cl EXCEPT ![r.el] = cl]] :
        r \in Bookmarked, cl \in CL \cup {All}}

FirstView ==
    {ListOf(NoFilter)}
    \cup {DashboardOf(url) : url \in {NoDirectories} \cup BookmarkedTabs}
    \cup {DetailsOf(r.dir, r.id) : r \in Bookmarked}

ReportInit ==
    /\ published \in {S \in SUBSET Report : Report \ S \subseteq Late}
    /\ config \in {ConfigOf(raw) : raw \in RawConfig}
    /\ \E v \in FirstView : ReportMounted(v)

ReportNext ==
    \/ Publish
    \/ \E k \in DOMAIN cache : ReportsFetched(k) \/ Collect(k)
    \/ Reconnect
    \/ \E n \in DOMAIN dumpAsked : DumpAnswer(n)
    \/ OpenDashboard
    \/ OpenList
    \/ OpenURL
    \/ OpenTest
    \/ HandleDirectoryChange
    \/ HandleNetworkChange
    \/ HandleCLClientChange
    \/ ViewMore
    \/ ChangeFilter
    \/ ClearFilters
    \/ HandleSort
    \/ HandlePageChange
    \/ HandleLimitChange

ReportSpec == ReportInit /\ [][ReportNext]_reportVars

(***************************************************************************)
(* Properties                                                              *)
(***************************************************************************)

ReportTypeOK ==
    /\ published \subseteq Report
    /\ view.at \in {"dashboard", "list", "details"}
    /\ \A k \in DOMAIN cache : cache[k].data \subseteq Report /\ cache[k].loaded \in BOOLEAN
    /\ clicks \in 0..MaxClicks
    /\ dumpInfo \subseteq Report /\ Cardinality(dumpInfo) <= 1
    /\ \A n \in DOMAIN dumpAsked : dumpAsked[n] \in Report

\* The details page links the dump of the test it shows, once nothing is asked
\* any more: whatever ids the tab showed in between, and however often the
\* report left the list and came back, unless an answer overtook an earlier
\* one.
DumpInfoIsOfTest ==
    (dumpAsked = <<>> /\ ~overtaken /\ TestReport(cache, view) # {}) =>
        dumpInfo = TestReport(cache, view)

\* The link under a group of the dashboard opens the list on the tests of this
\* group and no others: as many as the card counts, the CL client filter in
\* front included, whether it comes from the URL or was chosen before.
MoreLinkListsGroup ==
    On("dashboard") =>
        \A c \in Cards(view, Data) :
            Found(ListOf(MoreLink(view, Data, c)), Data)
                = GroupShown(view, Data, c[1], c[2], c[3])

\* While the reports stay the same, what the user does to the filters, the
\* order and the pages of the list never leads to a page beyond its end.
ListInRange == PageRows(view, Data) # {} \/ Found(view, Data) = {}
ListPagesStayInRange ==
    [][(On("list") /\ ListInRange /\ cache' = cache /\ view'.at = "list")
          => ListInRange']_reportVars

=============================================================================
