----------------------------- MODULE LiveTests -----------------------------
(***************************************************************************)
(* The live panel of the dashboard: the lists of tests of the syncoor      *)
(* servers (components/LiveTests.tsx over lib/syncoorApi.ts).              *)
(*                                                                         *)
(* Every commit of endpointData starts one more fetchData while a row is   *)
(* flagged, so several of them run at once, each over the array it         *)
(* captured and each applying its answers to the array it finds.           *)
(*                                                                         *)
(* A JavaScript array that was written past its end has holes, so the rows *)
(* are a function on a finite set of positions, not a sequence.  Copying   *)
(* such an array makes its holes undefined, and the page that draws it is  *)
(* replaced by the ErrorBoundary until the user tries again.  A run's      *)
(* number is the order of its start.  The expanded tests are modelled in   *)
(* LiveDetails.  Health, layout and the wording of errors are left out.    *)
(***************************************************************************)
EXTENDS Naturals, Sequences, FiniteSets, SequencesExt, WebFetch

CONSTANTS
    Url,           \* addresses of the syncoor servers
    Run,           \* runs, numbered in the order of their start
    RunsOf,        \* the runs that report to a server
    EndpointList,  \* the values config.json may give syncoorApiEndpoints
    PageSize,      \* the choices of testsPerPage (10, 25, 50, 100)
    MaxFetches,    \* bound: fetchData functions that run at once
    MaxEvents,     \* bound: what happens to the servers and the configuration,
                   \*   and refreshes, while the panel is open
    Nothing,       \* an answer that has not come
    Failed         \* syncoorFetchWithRetry gave up, or refused what it got

ASSUME LiveAssumption ==
    /\ Run \subseteq Nat /\ IsFiniteSet(Run)
    /\ RunsOf \in [Url -> SUBSET Run]
    /\ EndpointList \subseteq Seq([url : Url, enabled : BOOLEAN])
    /\ PageSize \subseteq Nat \ {0}
    /\ IsFiniteSet(PageSize) /\ PageSize # {}
    /\ MaxFetches \in Nat
    /\ MaxEvents \in Nat

VARIABLES
    tests,     \* the status of each server's runs, as TestStore has it
    events,    \* how many events of MaxEvents there have been
    endpoints, \* the endpoints prop, from config.json
    rows,      \* endpointData
    fetches,   \* the fetchData functions that have not returned
    pages,     \* currentPages, 1 where there is no entry
    perPage,   \* testsPerPage
    active,    \* showActiveOnly, from the URL
    crashed    \* the ErrorBoundary shows its message instead of the page

liveVars == <<tests, events, endpoints, rows, fetches, pages, perPage, active, crashed>>

Status == {"absent", "running", "complete", "failed"}

\* TestSummary: what a server's list tells of a run
SummaryOf(u) == [run : RunsOf[u], status : Status \ {"absent"}]
Summaries(u) == {t \in SummaryOf(u) : tests[u][t.run] = t.status}

Event == events < MaxEvents /\ events' = events + 1

\* A server lists a run when it hears of it, ends it, and forgets it when it
\* cleans up or restarts.
ServerStep ==
    /\ Event
    /\ \E u \in Url : \E r \in RunsOf[u] : \E s \in Status :
          /\ s # tests[u][r]
          /\ s = "running" => tests[u][r] = "absent"
          /\ s \in {"complete", "failed"} => tests[u][r] = "running"
          /\ tests' = [tests EXCEPT ![u][r] = s]
    /\ UNCHANGED <<endpoints, rows, fetches, pages, perPage, active, crashed>>

-----------------------------------------------------------------------------
(* The rows and what is displayed of them. *)

NewRow(e) == [url |-> e.url, tests |-> {}, loading |-> TRUE,
              refreshing |-> FALSE, error |-> FALSE]
Flagged(row) == row.loading \/ row.refreshing

\* The rows of the enabled endpoints, in their order.
EnabledRows(es) ==
    LET on     == {i \in DOMAIN es : es[i].enabled}
        nth(n) == CHOOSE i \in on : Cardinality({j \in on : j < i}) = n - 1
    IN  [n \in 1..Cardinality(on) |-> NewRow(es[nth(n)])]

Least(S) == CHOOSE n \in S : \A m \in S : n <= m

\* The length of a JavaScript array, its holes counted.
LengthOf(array) == IF DOMAIN array = {} THEN 0 ELSE Max(DOMAIN array)

\* The tests the table of a row lists, showActiveOnly or all.  Their order is
\* left out: how many there are decides which pages there are.
Listed(row) == {t \in row.tests : active => t.status = "running"}

TotalPages(n, size) == (n + size - 1) \div size
ShowsTable(row) == ~row.loading /\ ~row.error /\ row.tests # {}
PagerShown(n, size) == n > Least(PageSize) /\ n > size

-----------------------------------------------------------------------------
(* fetchData.  A function captured the endpoints and their flags; at is the
   position it awaits, answer what the server replied. *)

\* Where the loop stops next: at a flagged row it asks for, at a hole it dies.
NextAsk(todo, from) ==
    LET stops == {i \in from..LengthOf(todo) : i \in DOMAIN todo => todo[i].flagged}
    IN  IF stops = {} \/ Least(stops) \notin DOMAIN todo THEN 0 ELSE Least(stops)

\* Mutant: the rows that refresh do not start a fetchData.
BadStartedByLoadingOnly(rs) ==
    LET todo == [i \in DOMAIN rs |-> [url |-> rs[i].url, flagged |-> rs[i].loading]]
        at   == NextAsk(todo, 1)
    IN  IF at = 0 THEN <<>> ELSE <<[todo |-> todo, at |-> at, answer |-> Nothing]>>

\* The effect on endpointData: one more fetchData while a row is flagged.
StartedBy(rs) ==
    LET todo == [i \in DOMAIN rs |-> [url |-> rs[i].url, flagged |-> Flagged(rs[i])]]
        at   == NextAsk(todo, 1)
    IN  IF at = 0 THEN <<>> ELSE <<[todo |-> todo, at |-> at, answer |-> Nothing]>>

\* What fetchData f awaits after position f.at: nothing when it returned.
Continued(f) ==
    LET at == NextAsk(f.todo, f.at + 1)
    IN  IF at = 0 THEN <<>> ELSE <<[f EXCEPT !.at = at, !.answer = Nothing]>>

\* Mutant: the row keeps the endpoint that is at its position now.
BadRowFromKeepsEndpoint(f) ==
    [url        |-> IF f.at \in DOMAIN rows THEN rows[f.at].url ELSE f.todo[f.at].url,
     tests      |-> IF f.answer = Failed THEN {} ELSE f.answer,
     loading    |-> FALSE,
     refreshing |-> FALSE,
     error      |-> f.answer = Failed]

\* The row the answer of f becomes: the captured endpoint, its tests or its
\* error, no flag.
RowFrom(f) ==
    [url        |-> f.todo[f.at].url,
     tests      |-> IF f.answer = Failed THEN {} ELSE f.answer,
     loading    |-> FALSE,
     refreshing |-> FALSE,
     error      |-> f.answer = Failed]

\* setEndpointData(rs): the effect on endpointData runs after the commit.
SetRows(rs, running) ==
    /\ rows' = rs
    /\ fetches' = running \o StartedBy(rs)
    /\ Len(fetches') <= MaxFetches

\* The panel is unmounted and its state gone; what a fetchData still sets is
\* ignored.
Unmounted ==
    /\ rows' = <<>>
    /\ fetches' = <<>>
    /\ pages' = [u \in Url |-> 1]
    /\ perPage' = Least(PageSize)

-----------------------------------------------------------------------------
(* Actions. *)

\* useConfig fetched config.json again: a new endpoints prop.  The dashboard
\* has a panel only for a list that is not empty.
ConfigChanged ==
    /\ ~crashed
    /\ Event
    /\ \E es \in EndpointList \ {endpoints} :
          /\ endpoints' = es
          /\ \/ es = <<>> /\ Unmounted
             \/ /\ es # <<>>
                /\ SetRows(EnabledRows(es), fetches)
                /\ UNCHANGED <<pages, perPage>>
    /\ UNCHANGED <<tests, active, crashed>>

\* The server answers the request fetchData n waits for, or the attempts of
\* syncoorFetchWithRetry are used up.
ListAnswer(n) ==
    /\ fetches[n].answer = Nothing
    /\ \E delivered \in SyncoorOutcomes :
          fetches' = [fetches EXCEPT ![n].answer =
              IF delivered THEN Summaries(fetches[n].todo[fetches[n].at].url) ELSE Failed]
    /\ UNCHANGED <<tests, events, endpoints, rows, pages, perPage, active, crashed>>

\* [...prev] with position at written has no undefined row: every other
\* position of the array has a row.
SpreadIsWhole(at) == 1..LengthOf(rows) \subseteq DOMAIN rows \cup {at}

\* fetchData n goes on: setEndpointData, then the next flagged row.  The page
\* cannot draw an undefined row.
ListApplied(n) ==
    LET f == fetches[n]
    IN  /\ f.answer # Nothing
        /\ \/ /\ SpreadIsWhole(f.at)
              /\ SetRows([i \in DOMAIN rows \cup {f.at} |->
                             IF i = f.at THEN RowFrom(f) ELSE rows[i]],
                         SubSeq(fetches, 1, n - 1) \o Continued(f)
                         \o SubSeq(fetches, n + 1, Len(fetches)))
              /\ UNCHANGED <<pages, perPage, crashed>>
           \/ /\ ~SpreadIsWhole(f.at)
              /\ crashed' = TRUE
              /\ Unmounted
        /\ UNCHANGED <<tests, events, endpoints, active>>

\* The button of the ErrorBoundary mounts the page again.
TryAgain ==
    /\ crashed
    /\ crashed' = FALSE
    /\ SetRows(EnabledRows(endpoints), fetches)
    /\ UNCHANGED <<tests, events, endpoints, pages, perPage, active>>

\* The 60 second interval.
RefreshTick ==
    /\ Event
    /\ DOMAIN rows # {}
    /\ SetRows([i \in DOMAIN rows |-> [rows[i] EXCEPT !.refreshing = TRUE, !.error = FALSE]],
               fetches)
    /\ UNCHANGED <<tests, endpoints, pages, perPage, active, crashed>>

\* Mutant: the previous button is not disabled on the first page.
BadChangePageNoFirst(i) ==
    LET u     == rows[i].url
        n     == Cardinality(Listed(rows[i]))
        total == TotalPages(n, perPage)
    IN  /\ ShowsTable(rows[i]) /\ PagerShown(n, perPage)
        /\ \E p \in {pages[u] - 1, pages[u] + 1} :
              p <= total /\ pages' = [pages EXCEPT ![u] = p]
    /\ UNCHANGED <<tests, events, endpoints, rows, fetches, perPage, active, crashed>>

\* The previous and next buttons of the table of endpoint i.
ChangePage(i) ==
    LET u     == rows[i].url
        n     == Cardinality(Listed(rows[i]))
        total == TotalPages(n, perPage)
    IN  /\ ShowsTable(rows[i]) /\ PagerShown(n, perPage)
        /\ \E p \in {pages[u] - 1, pages[u] + 1} :
              /\ pages[u] = 1     => p # pages[u] - 1
              /\ pages[u] = total => p # pages[u] + 1
              /\ p <= total + 1    \* bound: empty pages are not walked through
              /\ pages' = [pages EXCEPT ![u] = p]
    /\ UNCHANGED <<tests, events, endpoints, rows, fetches, perPage, active, crashed>>

\* The page size applies to every endpoint and resets their pages.
ChangePageSize(i) ==
    /\ ShowsTable(rows[i]) /\ Cardinality(Listed(rows[i])) > Least(PageSize)
    /\ perPage' \in PageSize
    /\ pages' = [u \in Url |-> 1]
    /\ UNCHANGED <<tests, events, endpoints, rows, fetches, active, crashed>>

\* The tabs of the dashboard set directory and network and drop the rest of
\* the search parameters.
TabsDropSearch ==
    /\ ~crashed /\ active
    /\ active' = FALSE
    /\ UNCHANGED <<tests, events, endpoints, rows, fetches, pages, perPage, crashed>>

-----------------------------------------------------------------------------

\* Mounted with the configuration es and ?active=true or not.
LiveMounted(es, act) ==
    /\ endpoints = es
    /\ rows = EnabledRows(es)
    /\ fetches = StartedBy(EnabledRows(es))
    /\ pages = [u \in Url |-> 1]
    /\ perPage = Least(PageSize)
    /\ active = act
    /\ crashed = FALSE

LiveInit ==
    /\ tests \in [Url -> [Run -> {"absent", "running"}]]
    /\ \A u \in Url : \A r \in Run \ RunsOf[u] : tests[u][r] = "absent"
    /\ events = 0
    /\ \E es \in EndpointList, act \in BOOLEAN : LiveMounted(es, act)

LiveNext ==
    \/ ServerStep
    \/ ConfigChanged
    \/ \E n \in DOMAIN fetches : ListAnswer(n) \/ ListApplied(n)
    \/ TryAgain
    \/ RefreshTick
    \/ \E i \in DOMAIN rows : ChangePage(i) \/ ChangePageSize(i)
    \/ TabsDropSearch

LiveSpec == LiveInit /\ [][LiveNext]_liveVars

(***************************************************************************)
(* Properties                                                              *)
(***************************************************************************)

LiveTypeOK ==
    /\ tests \in [Url -> [Run -> Status]]
    /\ events \in 0..MaxEvents
    /\ endpoints \in EndpointList
    /\ DOMAIN rows \subseteq Nat \ {0}
    /\ \A i \in DOMAIN rows :
          rows[i] \in [url : Url, tests : SUBSET UNION {SummaryOf(u) : u \in Url},
                      loading : BOOLEAN, refreshing : BOOLEAN, error : BOOLEAN]
    /\ \A n \in DOMAIN fetches : fetches[n].at \in DOMAIN fetches[n].todo
    /\ pages \in [Url -> Nat \ {0}]
    /\ perPage \in PageSize
    /\ active \in BOOLEAN
    /\ crashed \in BOOLEAN

\* A row never shows the tests of one server under the name of another, in
\* whatever order the answers of overlapping fetchData functions come and
\* whatever endpoint the position meanwhile belongs to: each answer brings the
\* endpoint it was captured with.
RowsOwnTests == \A i \in DOMAIN rows : rows[i].tests \subseteq SummaryOf(rows[i].url)

\* A row that shows its spinner or "Refreshing..." is one a fetchData is still
\* going to ask for, unless a hole in the array stops the function before it:
\* a row behind a hole keeps its spinner until the configuration changes or
\* the next answer makes the page crash.
RefreshIsServed ==
    \A i \in DOMAIN rows :
        (Flagged(rows[i]) /\ 1..i \subseteq DOMAIN rows) =>
            \E n \in DOMAIN fetches :
                LET f == fetches[n]
                IN  /\ f.at <= i /\ f.at..i \subseteq DOMAIN f.todo
                    /\ f.todo[i] = [url |-> rows[i].url, flagged |-> TRUE]

\* While the tests listed stay the same, what the user does to the pages of a
\* table never leads to an empty page, in a table whose server has no other
\* row.  Two rows of one server, which a late fetchData can leave when the
\* endpoints changed, share their page but not their tests.
OnlyRowOf(i) == \A j \in DOMAIN rows : rows[j].url = rows[i].url => j = i
PageInRange(i) ==
    pages[rows[i].url] <= TotalPages(Cardinality(Listed(rows[i])), perPage)
LivePagesStayInRange ==
    [][\A i \in DOMAIN rows :
          (/\ rows' = rows /\ active' = active
           /\ ShowsTable(rows[i]) /\ OnlyRowOf(i) /\ PageInRange(i))
              => PageInRange(i)']_liveVars

=============================================================================
