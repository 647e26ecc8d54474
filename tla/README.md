# Formal models of syncoor

syncoor runs one Ethereum execution client (EL) and one consensus client (CL)
in a Kurtosis enclave, measures them while they sync, and reports: to files, to
a central server, and through that to a dashboard. These modules model the
parts of it that keep state while several things happen at once. TLC checks
them on small instances; the theorems are proved with TLAPS for every value of
the constants. Every definition is translated from the Go and TypeScript source;
`PROJECT.json` ("map") gives the lines.

## 1. Inventory

| component | state | operations | talks to |
|---|---|---|---|
| Test store (`pkg/api/store.go`) | map RunID -> test: flags, error, LastUpdate, metrics, history | CreateTest, UpdateTestKeepalive, UpdateProgress, CompleteTest, reads; cleanup, MarkOrphanedTests and CleanupOrphanedTests every 20 minutes | called by handlers and by its own goroutine, under one mutex |
| HTTP server (`pkg/api/handlers.go`, `server.go`, `auth.go`, `sse.go`) | one goroutine per request; event streams | keepalive, progress, complete; list, detail, health, events | store; publishes events after it left the store |
| Reporting client (`pkg/reporting`) | queue of 100 updates, current keepalive, `stopCh` | ReportTestKeepAlive, ReportProgress, ReportTestComplete, Stop; ticker of 3 minutes | HTTP to the server, with backoff for 30 s |
| Sync command and service (`cmd/syncoor/sync.go`, `pkg/synctest`) | the report under way, contexts, deadline | Start, WaitForSync, SaveTempReport, finalize, Stop; signal handler | everything below |
| Report service (`pkg/report`) | `result`; temp file, final main and progress files | Start, AddSyncProgress, SetSyncStatus, Save/Load/Remove temp, SaveReportToFiles, index | disk |
| Recovery (`pkg/recovery`) | none | find and validate an enclave, health of its services | Kurtosis, temp report |
| Metrics exporter (`pkg/metrics-exporter`, `pkg/docker`) | `containerID`, `configDir`; in Docker a container with a fixed name | Start, Stop, health check; discovery; metrics parsing | Docker daemon |
| Log streamer (`pkg/kurtosis-log`) | for each attempt a reader, a monitor and a channel between them | StreamLogs: ten attempts with backoff | Kurtosis; the sync context |
| EL and CL clients (`pkg/execution`, `pkg/consensus`) | none | GetSyncStatus: three or four requests, one request | the nodes; called by WaitForSync |
| Kurtosis client (`pkg/kurtosis`) | none | queries of enclaves, services, endpoints | Kurtosis engine |
| Report index, Markdown, sysinfo, mock data | none | conversions of files and host facts | disk |
| Dashboard: data access (`web/src/lib`, `hooks`) | the caches of React Query and of the configuration | fetch with retries, join of directories, filter, sort, paginate, statistics | server, report files |
| Dashboard: pages (`web/src/pages`, `components`) | hook state, the URL, intervals, answers in flight | select, page, filter, expand, reload, go back, open a file of an archive | data access |

Hard behaviours, and what must hold of them (each is a hazard in
`PROJECT.json`, at its line):

- **Two entries of one handler.** The keepalive handler updates, and if the
  test is unknown creates it, in two critical sections. A create must not undo
  a completion or lose what another keepalive said.
- **Giving up.** The maintenance goroutine judges by age while messages arrive,
  and age is measured from the client's own timestamp. Status, error text and
  removal must stay coherent, and happen neither early nor never.
- **Unreliable delivery.** Keepalives, updates and completions may be lost,
  repeated, or late; the server may restart and forget everything.
- **The signal handler.** It saves, stops and cancels while main starts,
  polls, writes the report or removes files, and stops the exporter that main
  stops too. Nothing synchronises the two.
- **Non-atomic files.** A report is truncated and then written, by two
  goroutines, and the final one is two files. A process may die in between.
- **Agreement.** Exit code, report and server hear of one outcome through
  three calls that fail separately.
- **A name shared by processes.** The exporter's container has the same name in
  every process; what one leaves the next meets.
- **A verdict from several moments.** One iteration of WaitForSync asks two
  clients five questions; they go on, fall behind or vanish between any two.
- **Three goroutines and one error.** Loop, reader and monitor of a log stream
  share a channel whose receiver changes after half a second.
- **Answers out of order.** The dashboard asks again before the last answer has
  come: on a timer, when a selection changes the URL, when a row is flagged.
  An answer finds another state than the one that asked.
- **State in three places.** What a page shows is in its components, in the URL
  and in a cache that outlives it, and back and forward change only the URL.

## 2. Modules

| module | models | composition |
|---|---|---|
| `TestLifecycle` | the abstract specification: what the server promises of a test | implemented by `TestStore` |
| `TestStore` | store, writing handlers, authorisation, maintenance, restart, clock skew | `INSTANCE TestLifecycle WITH phase <- ...` |
| `TestStoreProofs` | proofs about `TestStore` | extends it and TLAPS |
| `Reporting` | the reporting client's three goroutines, the network, and a server reduced to one test | client and server composed |
| `SyncRun` | `syncoor sync` from command line to exit code: main, signal handler, files, enclave, recovery | service, report service, recovery, and of Stop what two goroutines share: `stopCh` and the exporter's container ID |
| `SyncRunProofs` | proofs about `SyncRun` | extends it and TLAPS |
| `SyncCheck` | one iteration of `WaitForSync`, request by request, with clients that move | details the steps `Poll` and `CheckSynced` of `SyncRun` |
| `LogStreamer` | `streamWithRetry`, the readers and monitors of its attempts | two clients under one context |
| `MetricsExporter` | the Manager, the container of the fixed name, Docker, several processes | Manager, Docker and the processes of a host |
| `SyncParts` | the last three in one specification, of which a behaviour looks at one | composes `MetricsExporter`, `LogStreamer`, `SyncCheck` |
| `ReportingProofs` | proofs about `Reporting` | extends it and TLAPS |
| `SyncPartsProofs` | proofs about the exporter, log streams, requests and their composition | extends `SyncParts` and TLAPS |
| `WebFetch` | the two fetch functions with their retries, what callers make of a response | extended by the pages |
| `LiveTests` | the live panel: rows of several servers, overlapping `fetchData`, pages | over `WebFetch`, a server that starts, ends and forgets runs |
| `LiveDetails` | expanded tests: first answer, polls, the merge of histories | likewise |
| `DumpViewer` | dump explorer: selection, URL, listing, tree, extractions, downloads | an archive |
| `ReportPages` | groups, list and details page over the cached reports, with navigation | over `WebFetch`, report directories that change |
| `TestPage` | what the details page shows of a test: its files, logs, system, charts | `WebFetch`, `ProgressCharts` |
| `ProgressCharts` | what each chart makes of the entries before it draws them | used by `TestPage`, `WebApp` |
| `GroupStats` | cards, trends and moving averages of a group of runs | `ProgressCharts` |
| `WebApp` | one tab: the routes and all the pages | composes the page modules |
| `ProgressChartsProofs` | what the charts show of any sequence of entries | extends `ProgressCharts` and TLAPS |
| `LiveProofs`, `DumpViewerProofs` | proofs about `LiveTests` and `LiveDetails`, and about `DumpViewer` | extend them; `LiveProofs` extends `ProgressChartsProofs` |
| `WebAppProofs` | proofs about `TestPage`, `GroupStats` and `ReportPages`; that `WebApp` implements the parts and inherits what is proved of them | extends both and `WebApp` |
| `MCTestStore`, `MCSyncRun`, `MCWebApp` | definitions a `.cfg` cannot write | extend the above |

How they correspond to the code:

- **Grain.** A method under a mutex is one step (`Store`). Elsewhere a step ends
  where another goroutine, a crash or a failing call can come between: each
  file write is a truncation and a write, each call to Docker or the server is a
  step, each read of a shared field that another goroutine writes is a step.
- **`pc`** names the place a goroutine is at; labels are named for what is done
  next. `Exit`/`End` model `os.Exit`, `Fatalf`, a panic and the return from
  main: no goroutine runs afterwards and no deferred call that did not run yet.
- **Data.** A RunID is the number of its process, a progress history of a report
  its length, a metric a model value. A timestamp is the *age* it has, because
  the store only compares `LastUpdate` with its own clock.
- **Observations.** `heard`, `acked`, `lost`, `told`, `diskFailed`,
  `dockerFailed`, `signalled`, `blocks`, `witness`, `wentBack`, `overtaken` are
  written and never read by the code's actions (`told` is what the server
  knows); properties need them to speak of the past.
- **The dashboard.** JavaScript runs to completion, so a step is one callback
  with the commit and the effects it causes; an answer in flight is a step of its
  own, and any of those in flight may come next. A report, a point, a file
  stand for themselves; a call of a fetch function is the sequence of what its
  attempts meet.
- **`Bad...`** operators are plausible slips in a definition. Each property is
  measured against one: with the slip in place, it must fail.

## 3. Runs

| run | question | states | bounds |
|---|---|---|---|
| `store` | is the store safe in every interleaving, and does it implement `TestLifecycle`? | 1.1 M | one test, two handlers, three requests per unit of time, skew one unit |
| `store_live` | does an abandoned test leave the store? | 62 k | two tests, so that the other one is busy meanwhile |
| `store_skew` | "no keepalive received for 10 minutes" | violated | units of five minutes, the thresholds of the code |
| `sync` | do exit code, files and server agree, is nothing lost, does it end? | 993 k | one process, with and without recovery and server, every failure |
| `sync_recovery` | the same over a crash and a resumption | 5.6 M | two processes, nothing but the process fails |
| `sync_resume` | "Enable recovery from interrupted sync operations" | violated | two processes, nothing fails |
| `sync_signal` | "saving progress and shutting down" | violated | two processes |
| `sync_exit` | "0 - Success" | violated | one process |
| `reporting` | is order kept, does a live test stay listed, is it listed again? | 550 k | queue of one, two updates, one stray request |
| `reporting_retry` | "Retry on server errors" | violated | the same |
| `sync_parts` | whose container does a test read, and what is left behind? are log streams watched, and gone in the end? what do "synced" and a progress entry mean of clients that move? | 648 k | three processes; two clients with three attempts; a chain of two blocks |
| `web` | does a tab show what it says it shows? | 373 k | two servers, two fetches, two asks, two listings, two extractions, four reports, two moves, two questions about a dump |

The properties, in words, stand above their definitions. What they are about:

- `TestStore`: `StatusCoherent`, `AckedIsStored` and `RunningIsFresh` relate
  flags, replies, age and silence in every state. `CompletedIsFinal`, `NoEarlyRemoval` and
  `OrphanedAfterSilence` say what a step never does. `AbandonedIsRemoved` is
  liveness, `LifecycleSpec` refinement: an orphaned test, for instance, never
  runs again, and only ended tests are removed.
- `SyncRun`: `OutcomesAgree` is the main one. `BoundedLoss`,
  `RemovalLosesNothing`, `RestoredIsKept` and `EndedLeavesNoTemp` follow the
  entries of a test through memory, the temp file, a crash and a resumption.
  `FinalFilesMatch` orders the two final files. `Terminates` is liveness.
- `Reporting`: `AckedInOrder` (the order of what the client was told is
  stored), `KeptAlive` (a live test is given up only after three lost
  keepalives in a row), `Relisted` (after a server restart the test comes back).
- `MetricsExporter`: `SyncsWithOwnExporter`, `VerdictLeavesNothing` (a test
  with a verdict, good or bad, removed container and directory, unless Docker or
  the disk failed or a signal came between), `FailedStartLeavesNoContainer`, `PanicsOnlyWhenSignalled`.
- `SyncCheck`: `ConclusionsAreCurrent` (success means that within one iteration
  the execution client had a block, then was not syncing, and then the consensus
  client was synced; an entry's block is one the client had in this iteration)
  and `SyncedEnds` (clients that stay synced end the test even if the exporter
  never answers). The block of successive entries may fall: a client in snap
  sync gives `currentBlock` while it says it is syncing, and `eth_blockNumber`,
  still 0, when it says so no more; nothing in the repository claims otherwise.
- `LogStreamer`: `StreamsAreWatched` (one reader of a log at a time, and until
  the test is cancelled an error has a receiver) and `NothingLeft` (after a
  cancellation every goroutine ends).
- The dashboard: `RowsOwnTests`, `HistoryOnlyGrows`, `ContentIsOfFile`,
  `SelectionIsInURL` and `PagesTellTheirTest` say that what is shown belongs to what it is shown for, whatever answers were in flight;
  `SpinnersAreServed` that whoever waits is being answered (a row written behind
  a hole makes the next render throw, and the ErrorBoundary replaces the page); `PagesStayInRange`
  and `MoreLinkListsGroup` that pagers and links lead where they say;
  `GroupShowsSuccesses` compares the statistics with a definition that knows
  neither order nor loops. `PagesTellTheirTest` compares the charts with the
  recorded entries in the same way (`ChartsFollowRecording`), and has the link
  to the dump in it (`DumpInfoIsOfTest`).

Why the bounds are enough:

- Tests in the store share nothing but the sweep, which treats each alone, so
  one test carries safety; two handlers and three requests let two keepalives
  race to create a test while a third request completes it. The ages 1, 2, 4
  with ticks every 2 keep the order of 10 minutes, 20 minutes, 24 hours and
  ticks of 20 minutes; ages stop growing one past the largest threshold. A
  history of one point is trimmed by the second.
- In `SyncRun` saves happen every 2 entries (10 in the code) of at most 2, so
  that a save is due, was just made, or is one entry behind. Every run has the
  default enclave name: the other one matters for the disagreement about names
  below, and the theorems cover it. Two processes are
  what recovery relates. `FinalFilesMatch` is checked for one process only: a
  temp report the signal handler writes after main removed it is resumed by the
  next process, which rewrites the finished report (listed as a hazard). The
  theorem says that this is the only way (section 4).
- In `Reporting` the keepalive period is 1 and the server tolerates 4, which is
  the 3 and 10 minutes of the code: three keepalives and the minute that sending
  the third may take just fit (3 * 3 + 1 = 10, 3 * 1 + 1 = 4). A full queue, a
  stray request and a repeated one occur with a queue of one, two updates and
  one stray request.
- In `MetricsExporter` the third process meets what the first two left.
- The parts of `SyncParts` share nothing but the context of the test, which each
  lets be cancelled at any time, so looking at one at a time leaves nothing out.
- In `SyncCheck` two blocks let a client be behind, level, and without a block;
  an iteration starts anew, so any number of them is covered.
- In `LogStreamer` with three attempts (ten in the code) one may fail, be
  repeated, and be the last.
- In the dashboard every property is about two things in flight, of which one
  overtakes the other, so the bound is two of each; the pages share no state
  but the cache of reports, and a behaviour looks at one of them (`page`). Four
  reports in two directories fill two pages of a list and both filters; the
  runs of a group are five, which is more than the largest window the moving
  average then takes. On the details page two moves (the user's, and the
  network's returns, which also fetch) and two questions about a dump let the
  second answer come first. A run of a group may lack its status, which counts as
  a success.

Symmetry is declared for the three sets of `TestStore` whose elements are only
compared for equality, and only in the run without liveness. `CHECK_DEADLOCK
FALSE` appears where the program may stop for good: no process is left to start
and none runs.

### Fairness

- `TestStore`: weak fairness of handlers and of maintenance (the Go scheduler;
  no handler holds the mutex across a blocking call) and of time. None for
  clients and restarts.
- `SyncRun`: weak fairness of main and of the handler, which stand for "every
  call returns" (all of them have timeouts or contexts), and of the deadline.
  Signals, crashes and launches are free.
- `Reporting`: weak fairness of time, of the ticker and of giving up after 30
  seconds. Strong fairness of a keepalive's first attempt: of keepalives sent
  again and again one gets through. Without it nothing could be said of a
  network that never delivers. Stray keepalives arrive in the end.
- `LogStreamer`: weak fairness of the loop and the monitors; a reader need not
  end, but one whose context is cancelled takes notice.
- `SyncCheck`: weak fairness of `WaitForSync`, whose requests all have timeouts.
  Nothing is assumed of the clients but what `SyncedEnds` says.
- The dashboard: none; an answer may never come. Its properties are safety.

### Disagreements found

1. `store_skew`: a keepalive is stored with the client's timestamp
   (`store.go:146`), so a client whose clock is slow by more than ten minutes
   is marked orphaned right after a keepalive. `OrphanedAfterSilence` is what
   does hold, and is proved: up to the skew.
2. `sync_resume`: validation demands an exporter service (`state.go:125`) that
   `Start` disables in each enclave it makes (`service.go:189`). No interrupted
   test is resumed. `sync_recovery` therefore starts from an enclave that has
   the service, so that the rest of recovery is checked at all.
3. `sync_signal`: a signal during `Start` saves the empty report of the new
   process over the progress of the interrupted one.
4. `sync_exit`: signal handler and deferred call both close `stopCh`; the
   second close panics and a success exits with 2. A failed test has a
   companion without a run of its own: `finalizeSyncTest` stops the exporter
   (`service.go:992`) while the handler does, one of them clears `containerID`
   after the other has tested it, and slicing the empty ID panics
   (`manager.go:96`-101). The process then exits with 2 where `--help` has 124
   or 125. `OutcomesAgree` says what remains true: the verdict is on record.
5. `reporting_retry`: after a 5xx the retry sends the same `http.Request`,
   whose body was read; net/http refuses it.

Three more were met and have no run: the monitor of a log stream says that it
"will retry on next attempt" (`streamer.go:191`), but the loop with the attempts
has returned; recovery looks an enclave up by its default name
(`recovery/config.go:91`) when `--enclave` gives another, so that such a test is
started over; and `syncoorFetchWithRetry` says "Don't retry on client errors
(4xx)" (`syncoorApi.ts:66`) but throws the error inside the `try` whose `catch`
goes on to the next attempt, so that it does retry them (`WebFetch` has it so).

## 4. What is proved

`TestStoreProofs` proves for any number of runs, handlers, metrics, and any
times with the order of the code's (`TimesAssumption`): `TypeCorrect`,
`StatusCoherence`, `LatestMetrics`, `AcknowledgedIsStored`, `BoundedStaleness`,
`SilenceMeasured`, `CompletionFinal`, `RemovalLate`, `OrphanedLate`, and that
`TestStore` implements `TestLifecycle` (`LifecycleImplemented`). Two of them,
`LatestMetrics` (the current metrics are the newest point of the history) and
`SilenceMeasured` (the age differs from the silence by the skew at most), are
proved and no longer run.

The assumptions are those of the module: `OrphanAge <= CleanupAge`, `Skew <=
CleanupAge`, `CleanupAge + TickPeriod <= MaxAge`, sizes that are numbers, and
`NoRequest` not a request. All hold of the code's constants, provided clocks
are off by no more than twenty minutes.

The inductive invariant `IInv` adds to the properties what makes them survive a
step. `TestsSound` couples flags, metrics and history of each test.
`HandlersCoherent` says that a
handler at work has a request, and at "create" that of a keepalive.
`AckedIsRecent` says that the test of a handler which answers 200 is stored and
no older than the skew, which is why no sweep can have removed it:
`AckedIsStored` is not inductive without it. `RunningIsFresh` needs the age bound at each place of the
maintenance loop. The three ways to change the store have a lemma each
(`AcceptStep`, `DropStep`, `MaintainStep`), which the actions cite. The action
properties and the refinement follow from `IInv`, with one lemma for the effect
of each action on a phase.

`SyncRunProofs` proves every safety property of `SyncRun`, for any number of
processes, entries, command lines and services, with failures or without.
`TypeCorrect` and `OutcomesAlwaysAgree` rest on
`PcOK /\ ReportsOK /\ RestOK /\ Story`: the type, in three parts by
what disturbs it, and `Story`, which says at each place of main what has been
told and saved: before the verdict at most "running" was told
(`NothingToldYet`); after it the report has that verdict and the server heard no
other (`VerdictTold`); how much of the final report is on disk (`ReportSaved`);
and before the handler called Stop, only main can have closed `stopCh` or, once
the report of a failed test is filed, cleared the container's ID (`StoppedBy`).
That is why a panic in either Stop hits only a test that did not begin or whose
verdict is on record. The signal handler can rewrite the temp file, close the channel
and cancel contexts at each of these places; the proof shows that it cannot
touch what `Story` speaks of.

What becomes of the entries is proved from a short list of kinds of steps
(`Kinds`, and `StepKinds`: every step is one of them) instead of from the thirty
actions. `Lineage` says whose reports there are in memory, in the drafts of both
goroutines, in the temp file and in what recovery found, and which of one run
has more entries; with it a restored test keeps its RunID and its entries
(`RestoredStaysKept`) and a temp report is removed only when the final report
has as much (`RemovalLosesNothingHolds`, `EndedLeavesNothing`). `Saving` adds
how far the temp file is behind the report, for `LossBounded`.
`FinalFilesMatch` does not hold of every sequence of processes. `FinalFilesAgree`
proves it as long as no process resumes a run whose report is filed already
(`ResumesUnfinished`): then nothing but a crash between the two writes separates
them. What breaks the condition is a temp report that outlives the final one,
because main was killed before the removal, the disk refused it, or the signal
handler wrote one afterwards; the next process would file the report a second
time and can die in between. For one process the condition holds by itself
(`FirstFinalFilesAgree`). `FilesAssumption` says that "no file" and "torn file"
are not reports.

`ReportingProofs` proves `TypeCorrect`, `AckedStayInOrder` and
`LiveTestsAreKept` for any number of updates and stray requests, any size of
the queue, and any times of which three keepalive periods and a minute fit into
the silence the server tolerates (`TimesAssumption`, exact for the code's 3 and
10 minutes). `AckedInOrder` needs `Numbered`: updates pass from the queue to the
worker in the order of their numbers, so the one being sent is newer than all
acknowledged ones; and `Stored`, that an acknowledged one is in the history.
`KeptAlive` needs `AgeBound`, which measures the silence of a live test in lost
keepalives, and `Started`, that the ticker runs as long as the process lives.

`SyncPartsProofs` proves, first, the type and the four properties of the exporter for any number of
processes. They speak of the moments at which main syncs or has ended; the
invariant adds, for every step in between, which container exists and what the
Manager knows of it: nothing is created before "create" (`Early`), an ID is
cleared only when its container is gone (`Gone`), and without a signal nobody
but main touches either (`Quiet`). Main has two places at which it stops the
exporter, after a failed test and in the deferred Stop; both are steps beside
those of the handler's Stop.

It also proves `StreamsAreWatchedHolds` for any number of clients and
attempts and `ConclusionsAreCurrentHolds` for any length of the chain. The first
needs to know that only the last attempt reads, and that an error in a channel
means its reader has ended (`Watched`), so that the attempt that takes it out can
be repeated. The second keeps what each answer says of the moments since the
iteration began (`ExecOK`, `Verdict`), which later moves of the clients cannot
undo. The only assumption added is that `Nil` is no status (`NilAssumption`).
`PartsImplementExporter` carries the exporter's properties to the composition.

The dashboard is proved part by part and then as a whole.

- `ProgressChartsProofs`: `ChartsFollowEntries`, of any sequence of entries, in whatever
  order and however many. A filter and a sort both take entries, each once (`Takes`),
  in the order of their places or of their times; that is so because in a finite
  ordered set each element has a rank of its own (`InOrderIs`). Then points can be
  counted (`TakesCount`), and to filter and to sort commute (`KeptByTime`). What is
  said of sums would need induction; instead, of the sets for which it failed one
  would contain no other (`SmallestSet`), and without an element it would fail for a
  smaller one. So rates add up to the growth of a counter (`SumGrowth`), and a mean
  lies between its values (`SumAverage`).
- `LiveProofs`: `RowsOwnTestsHolds`, for any number of servers, runs and
  overlapping fetches: each fetch holds an answer of the server it writes into the
  row (`OwnFetch`), also when the panel is unmounted for an empty list of
  endpoints or replaced by the ErrorBoundary and mounted anew (`UnmountedOwn`,
  `TryAgainCommits`). `RefreshIsServedHolds`: every commit of the rows starts one more
  fetch that asks for each flagged row (`StartedServes`), so nothing need be known of
  those in flight. `LivePagesStayInRangeHolds`: a table of n rows has one row of
  each rank below n (`RankCovers`). `HistoryOnlyGrowsHolds`: the first
  answer replaces the history, so a test must have at most one first request in
  flight (`OneFirst`) and no poll before it is answered (`PollsFit`).
- `DumpViewerProofs`: `ContentIsOfFileHolds`, `SelectionIsInURLHolds` and
  `DumpSpinnersAreServedHolds`: the viewer is mounted only for the selected file
  (`ViewerIsSelected`), and unless the user went back the only listing in flight
  is that for the URL (`SelectionFollows`).
- `WebAppProofs`, of the details page: each query is for the test in its key and
  each saved log from the dump of its test, and the progress file of the test on the
  page is there, was asked for or has failed (`TestInv`, `Sought`); with that
  `ScreenIsOfTestHolds`, `DownloadsAreOwnLogsHolds`, `SystemIsInURLHolds`, and
  `ChartsFollowRecordingHolds`: a chart sorts the cached entries in place, and once
  is enough (`SortedIs`). Of the
  report pages: the last dump asked about is that of the last test on the page
  (`DumpFollows`), since every commit that brings a test asks and whatever else
  changes the cache leaves the test or takes it away: `DumpInfoIsOfTestHolds`,
  for answers that do not overtake one another;
  `MoreLinkListsGroupHolds`; and `ListPagesStayInRangeHolds`, for which each action of
  the user shows the first page or one its buttons lead to (`UserShows`, `PagerIs`).
- `WebAppProofs`, of a group: `GroupShowsSuccessesHolds`, for any number of runs, any
  durations and disk usages. Each run has a time of its own (`GroupInv`), so that the
  last window of the sorted successes is the set of those with fewest later ones
  (`LatestAre`, `LastWindowIs`), and a window is never empty, so that its mean lies
  between two values of the chart (`BandIs`).
- `WebAppProofs`, of the whole: each part's behaviour in the dashboard is one of its own
  specification (`WebImplementsLive`, `WebImplementsDetails`, `WebImplementsDump`,
  `WebImplementsTestPage`, `WebImplementsGroup`); the report pages, which rest in a state
  their own specification may not start with, keep their invariant (`WebReportInv`).
  So `WebTypeOK`, `SpinnersAreServed`, `PagesStayInRange`, `MoreLinkListsGroup`,
  `GroupShowsSuccesses` (`WebGroupShowsSuccesses`), `PagesTellTheirTest`
  (`PagesTellTheirTestHolds`) and the rest hold of the dashboard. The charts of a live
  test follow its history for any history (`WebLiveCharts`).

Assumed of its constants: sets that are finite in any browser are finite (`Run`,
`Report`), numbers are numbers, `All` is no directory, network or client, a report's
id is its own, an entry of a dump is a file with tags, no server may be configured,
there is a test to look at, recorded entries are sequences of `ProgressEntry`,
the points of a live test have the same fields and a time in parts of a second
(`PointOf`, `Second`), a run of a group has a status ("" if it is missing), a
duration and a disk usage
(`RunKind`), and `NoValue` is no finding.

What the attempts to prove them showed:

- The page of live tests is kept for each server, not for each row. A fetch that
  comes late, after the endpoints changed, can leave two rows of one server with
  different tests; paging the longer one then leads the other to an empty page
  (`LiveTests.tsx:493`-501). `LivePagesStayInRange` therefore speaks of servers with
  one row.
- A client whose main report has no type is shown with that of the index
  (`ScreenIsOfTest` has the same fallback as `TestDetails.tsx`; without it the
  property is false).

Filters and sorts are written from positions and ranks (`Kept`, `InOrder`) and not with
`SelectSeq` and `SortSeq`, which have no definition the provers can use. To TLC they are
the same functions.

Every invariant and action property the runs check is proved. Only model-checked are the
five liveness properties (`AbandonedIsRemoved`, `Terminates`, `Relisted`, `SyncedEnds`,
`NothingLeft`): liveness under fairness is outside what the installed provers do.

## 5. What is not modelled

- Reads of the store by handlers (list, detail, health), CORS and the event
  stream (`sse.go`): no state of the server depends on them, and the dashboard
  does not subscribe to events, it polls.
- Kurtosis, the nodes, Docker's own behaviour: their answers are inputs (found
  or not, healthy or not, synced or not, failed).
- Endpoint and volume discovery, the exporter's configuration template, the
  parsing of Prometheus text, the index of a report directory, Markdown: each
  converts one text into another and keeps nothing. `MatchesConfig` and
  `ParseEnclaveConfig` of `pkg/recovery`, `Restart`, `UpdateConfiguration` and
  `Cleanup` of the exporter's manager have no caller.
- `processKeepalive` and main write `Timestamp` of one shared request without a
  lock (`client.go:165`). Both write the current time and the reader tolerates
  either; the model gives each sending a record of its own.
- The HTTP server's shutdown waits for open streams until its context ends; in
  the model a restart is one step.
- Flags, configuration files and the network parameters made of them.
- System information (facts of the host, read once), mock data, the script for
  example reports, the GitHub action but for its clean-up of containers.
- In the dashboard: markup, theme, focus, resizing, tooltips, drawing;
  `useTestDetails`, which no page uses; the health of a server, which is only
  displayed; error boundaries but for that of the live panel.
- In the live panel: an expanded test whose row is written behind a hole crashes
  too, in its own lookup of the endpoint; `LiveDetails` looks at tests of rows
  that are there. Unmounting the panel ends its expanded tests; they begin in
  `LiveDetails` as any newly expanded one does.

Some of what is modelled has no user: `GroupProgressByInterval`, `CalculateProgress`,
`CalculateSyncRate`, `SyncProgressChart` and `BlockIOChart` are library code of the
dashboard that no page calls; they are compared with their references all the
same. Two things the models show and no document denies: the details page looks
for a test among the 1000 newest reports of each directory while the list shows
up to 10000 (`LookupLimit`, `ListLimit`), and after a change of the test the links
to its dump and its logs are those of the test before until the new answer has
come, or for good if an older answer overtakes it: answers are not numbered, and
the first to come takes the skeleton away though another is awaited. `TestPage`
has the two questions in flight (`asking`, `described`, `dumpLoading`) and
`DownloadsAreOwnLogs` holds through it: a log is saved under the name of the
dump it comes from. `ReportPages` has the overtaking (`overtaken`), which
`DumpInfoIsOfTest` leaves out.

## 6. Plan

The order was that of how much depends on each part: `TestStore` with
`TestLifecycle`; `SyncRun`; `Reporting`; `MetricsExporter`; the dashboard's pages
and `WebApp`; `SyncCheck` and `LogStreamer`; the proofs after each. What would
come next:

1. That `SyncCheck` implements the two steps of `SyncRun` it details. It would have
   to count the entries and to ask for the health of the containers first; today
   the two are connected by the comments only.
2. The event stream, once something subscribes to it.

## Checking

    tlc -config MCTestStore.cfg MCTestStore
    tlapm TestStoreProofs.tla

`Reporting` and `SyncParts` are run directly with their `.cfg`; the others through
their `MC` module.
