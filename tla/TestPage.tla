------------------------------ MODULE TestPage ------------------------------
(***************************************************************************)
(* What pages/TestDetails.tsx shows of a test it has found: its files,     *)
(* through hooks/useMainReport.ts and useProgressData.ts, its clients, the *)
(* logs in its dump, components/SystemInformation.tsx,                     *)
(* GithubActionsInfo.tsx and ProgressCharts.tsx.                           *)
(*                                                                         *)
(* ReportPages has how the test is found; here the list has every test.    *)
(* Another test is shown when the URL changes, and the page stays mounted. *)
(* The files are in the cache of React Query, by URL; the charts sort the  *)
(* array they are given, which is the one in this cache.  Nothing tells    *)
(* the answers of useDumpFileInfo apart: a late one describes the dump of  *)
(* a test that is no longer shown.                                         *)
(***************************************************************************)
EXTENDS Naturals, Sequences, FiniteSets, SequencesExt, WebFetch, ProgressCharts

CONSTANTS
    Finding,    \* the tests: their id, clients (el, cl), status and message
    MainReport, \* the main report of each: status, message, clients, system
    Recorded,   \* the progress file of each
    DumpEntry,  \* the entries of each one's dump, none without a dump
    NoValue,    \* a field that is missing or empty, data that has not come
    MaxMoves,   \* bound: what the user does, the network's returns included
    MaxAsking   \* bound: requests about dumps that are out at a time

ASSUME TestPageAssumption ==
    /\ \A f \in Finding : f.id \in DOMAIN MainReport /\ Recorded[f.id] \in Seq(ProgressEntry)
    /\ NoValue \notin Finding
    /\ \A f \in Finding :
          DumpEntry[f.id] \in Seq([file : STRING, tags : SUBSET STRING])
    /\ MaxMoves \in Nat /\ MaxAsking \in Nat

VARIABLES
    shown,     \* the test the URL names
    moves,     \* how many of MaxMoves were made
    files,     \* the queries of the main reports and the progress files
    unfolded,  \* showExecutionDetails and its three like
    system,    \* showSystemInfo, while SystemInformation is mounted
    systemURL, \* ?systemInfo=true
    asking,    \* the tests whose dumps useDumpFileInfo is asking about
    described, \* the test of dumpInfo, if any
    dumpLoading, \* its loading: the first answer of several ends it
    saved      \* log files the user downloaded: from which dump, under what name

dumpQuery    == <<asking, described, dumpLoading>>
testPageVars == <<shown, moves, files, unfolded, system, systemURL, dumpQuery, saved>>

Layer == {"el", "cl"}
ClientOf(f, layer) == IF layer = "el" THEN f.el ELSE f.cl

\* a || b
Or(a, b) == IF a # NoValue THEN a ELSE b

-----------------------------------------------------------------------------
(* useMainReport and useProgressData: a query for each URL. *)

\* Mutant: the query's key does not have the URL.
BadFileKeyWithoutURL(kind, f) == <<kind, "any">>

FileKey(kind, f) == <<kind, f.id>>
FileKeys == {FileKey(kind, f) : kind \in {"main", "progress"}, f \in Finding}

NotAsked == [data |-> NoValue, of |-> NoValue, error |-> FALSE]

\* isLoading: nothing to show yet, and still asking.
IsLoading(q) == q.of # NoValue /\ q.data = NoValue

\* A page that shows f needs both files: a query without data asks for them,
\* one with data may, when that is older than five minutes.  An error is
\* forgotten when there is no data.
NeededFile(fs, key, f) ==
    LET q == fs[key]
    IN  IF q.data = NoValue THEN {[fs EXCEPT ![key] = [data |-> NoValue, error |-> FALSE,
                                   of |-> IF q.of = NoValue THEN f ELSE q.of]]}
        ELSE {fs, [fs EXCEPT ![key].of = IF q.of = NoValue THEN f ELSE q.of]}
Needed(fs, f) ==
    UNION {NeededFile(g, FileKey("progress", f), f) : g \in NeededFile(fs, FileKey("main", f), f)}

MainOf(fs, f) == fs[FileKey("main", f)].data

-----------------------------------------------------------------------------
(* What is on the screen. *)

\* The page itself, not its skeleton.
PageShown(fs, f) == ~IsLoading(fs[FileKey("main", f)])

ChartsPanel(fs, f) ==
    LET q == fs[FileKey("progress", f)]
    IN  CASE IsLoading(q) -> "loading"
          [] q.error      -> "unable"
          [] OTHER        -> "charts"

ChartsShown(fs, f) ==
    IF ChartsPanel(fs, f) # "charts" THEN [drawn |-> {}]
    ELSE ProgressCharts(fs[FileKey("progress", f)].data)

StatusShown(fs, f) ==
    IF MainOf(fs, f) = NoValue THEN f.status ELSE Or(MainOf(fs, f).status, f.status)

MessageShown(fs, f) ==
    IF MainOf(fs, f) = NoValue THEN f.message ELSE Or(MainOf(fs, f).message, f.message)

\* getStatusBadgeInfo: a test without a status succeeded.
StatusBadge(status) ==
    CASE status \in {NoValue, "success"} -> "success"
      [] status = "timeout"   -> "warning"
      [] status = "cancelled" -> "secondary"
      [] status = "error"     -> "destructive"
      [] OTHER -> "outline"

\* "Test Timed Out" or "Test Failed", and why.
Banner(fs, f) ==
    IF StatusShown(fs, f) \in {"timeout", "error"}
    THEN [status |-> StatusShown(fs, f), message |-> MessageShown(fs, f)]
    ELSE [status |-> NoValue, message |-> NoValue]

Overview(fs, f) ==
    [entries |-> IF MainOf(fs, f) = NoValue THEN f.entries
                 ELSE Or(MainOf(fs, f).entries, f.entries)]

\* The log of a client: the first entry of the dump that is a file called
\* output.log, in a directory of the layer and of the client's type.
LogOf(f, layer, entries) ==
    {n \in DOMAIN entries : /\ entries[n].file = "output.log"
                            /\ {layer, ClientOf(f, layer)} \subseteq entries[n].tags}
FirstLog(f, layer, entries) ==
    LET logs == LogOf(f, layer, entries)
    IN  IF logs = {} THEN NoValue ELSE entries[CHOOSE n \in logs : \A m \in logs : n <= m]

EntriesShown == IF described = NoValue THEN <<>> ELSE DumpEntry[described.id]

\* The card of a client: what the main report says of it, or the index, the
\* link to its log, and its sections, those that have something in them.
ClientCard(fs, f, layer) ==
    LET main == MainOf(fs, f)
    IN  [type     |-> IF main = NoValue THEN ClientOf(f, layer)
                      ELSE Or(main.clients[layer].type, ClientOf(f, layer)),
         log      |-> FirstLog(f, layer, EntriesShown),
         sections |-> IF main = NoValue THEN {}
                      ELSE main.clients[layer].sections \X {layer}]
ExecutionCard(fs, f) == ClientCard(fs, f, "el")
ConsensusCard(fs, f) == ClientCard(fs, f, "cl")

\* SystemInformation is there when the main report has system_info.
SystemShown(fs, f) ==
    PageShown(fs, f) /\ MainOf(fs, f) # NoValue /\ MainOf(fs, f).system

\* GithubActionsInfo: the labels it links to a page, which needs others.
LabelsFor(link) ==
    CASE link = "workflow" -> {"workflow", "repository", "run_id"}
      [] link = "job"      -> {"job", "repository", "run_id", "job_id"}
      [] link = "sha"      -> {"sha", "repository"}
      [] OTHER             -> {link}
GithubLinks(labels) ==
    {link \in {"workflow", "job", "sha", "actor", "repository"} : LabelsFor(link) \subseteq labels}

\* "Report Files": the files of the test, and of a dump that was found the
\* inspector, the archive and the logs.
ReportFiles(f) ==
    LET found == ~dumpLoading /\ EntriesShown # <<>>
    IN  [links |-> {"main", "progress"} \cup (IF found THEN {"dump"} ELSE {}),
         logs  |-> IF found THEN {FirstLog(f, layer, EntriesShown) : layer \in Layer} ELSE {}]

\* The whole of it.
Screen(fs, f) ==
    [badge   |-> StatusBadge(StatusShown(fs, f)), banner |-> Banner(fs, f),
     overview |-> Overview(fs, f),
     el      |-> ExecutionCard(fs, f),  cl |-> ConsensusCard(fs, f),
     system  |-> SystemShown(fs, f),
     github  |-> IF MainOf(fs, f) = NoValue THEN {} ELSE GithubLinks(MainOf(fs, f).labels),
     charts  |-> ChartsShown(fs, f),
     files   |-> ReportFiles(f)]

-----------------------------------------------------------------------------
(* A commit of React: the files are fs, the URL names f with param. *)

\* The first chart sorts the entries in the cache.
Drawn(fs, f) ==
    LET key == FileKey("progress", f)
    IN  IF PageShown(fs, f) /\ ChartsPanel(fs, f) = "charts"
        THEN [fs EXCEPT ![key].data = ByTime(@)]
        ELSE fs

\* SystemInformation starts from the URL when it mounts and keeps its state
\* while it is there.
SystemAfter(fs, f, param, state) ==
    CASE ~SystemShown(fs, f) -> NoValue
      [] SystemShown(fs, f) /\ state = NoValue -> param
      [] OTHER -> state

\* Its effect writes the state back, over whatever the URL has.
URLAfter(param, state) == IF state = NoValue THEN param ELSE state

Commit(fs, f, param, state) ==
    LET now == SystemAfter(fs, f, param, state)
    IN  /\ files' = Drawn(fs, f)
        /\ system' = now
        /\ systemURL' = URLAfter(param, now)

-----------------------------------------------------------------------------
(* Actions. *)

Moved == moves < MaxMoves /\ moves' = moves + 1

\* The last attempt of a query ends: three without an answer are an error,
\* which leaves the data there was.
FileAnswer(key) ==
    LET q == files[key]
    IN  /\ q.of # NoValue
        /\ \E ok \in QueryOutcomes :
              LET data == IF key[1] = "main" THEN MainReport[q.of.id] ELSE Recorded[q.of.id]
                  new  == [data |-> IF ok THEN data ELSE q.data, of |-> NoValue, error |-> ~ok]
              IN  Commit([files EXCEPT ![key] = new], shown, systemURL, system)
        /\ UNCHANGED <<shown, moves, unfolded, dumpQuery, saved>>

\* gcTime: a file no page has used for ten minutes.
ForgetFile(key) ==
    /\ key \notin {FileKey("main", shown), FileKey("progress", shown)}
    /\ files[key].of = NoValue /\ files[key] # NotAsked
    /\ files' = [files EXCEPT ![key] = NotAsked]
    /\ UNCHANGED <<shown, moves, unfolded, system, systemURL, dumpQuery, saved>>

\* refetchOnReconnect.
ReconnectFiles ==
    /\ \E fs \in Needed(files, shown) \ {files} : Commit(fs, shown, systemURL, system)
    /\ Moved
    /\ UNCHANGED <<shown, unfolded, dumpQuery, saved>>

\* An answer about a dump; one that failed has no entries.
DumpDescribed(n) ==
    /\ described' \in {asking[n], NoValue}
    /\ asking' = RemoveAt(asking, n)
    /\ dumpLoading' = FALSE
    /\ UNCHANGED <<shown, moves, files, unfolded, system, systemURL, saved>>

Visit(f, param) ==
    /\ Moved
    /\ shown' = f
    /\ \/ f = shown /\ Commit(files, f, param, system) /\ UNCHANGED <<asking, dumpLoading>>
       \/ /\ f # shown
          /\ \E fs \in Needed(files, f) : Commit(fs, f, param, system)
          /\ Len(asking) < MaxAsking
          /\ asking' = Append(asking, f)
          /\ dumpLoading' = TRUE
    /\ UNCHANGED <<unfolded, described, saved>>

\* A URL typed, or the back or forward button, with or without
\* ?systemInfo=true.
OpenTestURL ==
    \E f \in Finding, param \in BOOLEAN : <<f, param>> # <<shown, systemURL>> /\ Visit(f, param)

ToggleSystemInfo ==
    /\ system # NoValue
    /\ system' = ~system
    /\ systemURL' = ~system
    /\ Moved
    /\ UNCHANGED <<shown, files, unfolded, dumpQuery, saved>>

\* "Command Details" and "Environment Variables" of the two clients.
ToggleSection ==
    /\ PageShown(files, shown)
    /\ \E layer \in Layer : \E s \in ClientCard(files, shown, layer).sections :
          unfolded' = SymDiff(unfolded, {s})
    /\ Moved
    /\ UNCHANGED <<shown, files, system, systemURL, dumpQuery, saved>>

\* downloadLogFile: the button is there when dumpLoading is not set.  The path
\* is that of the dump described, the archive that of the test shown; a
\* download that fails, also because the archive has no such path, leaves
\* nothing.
DownloadLogFile(layer) ==
    /\ PageShown(files, shown) /\ ~dumpLoading
    /\ LET log == FirstLog(shown, layer, EntriesShown)
       IN  /\ log # NoValue /\ log \in ToSet(DumpEntry[shown.id])
           /\ saved' = saved \cup {[run |-> shown.id, name |-> layer, entry |-> log]}
    /\ Moved
    /\ UNCHANGED <<shown, files, unfolded, system, systemURL, dumpQuery>>

-----------------------------------------------------------------------------

TestPageMounted(f, param) ==
    /\ shown = f /\ moves = 0
    /\ files \in Needed([k \in FileKeys |-> NotAsked], f)
    /\ unfolded = {} /\ system = NoValue /\ systemURL = param
    /\ asking = <<f>> /\ described = NoValue /\ dumpLoading = TRUE
    /\ saved = {}

TestPageInit == \E f \in Finding, param \in BOOLEAN : TestPageMounted(f, param)

TestPageNext ==
    \/ \E key \in DOMAIN files : FileAnswer(key) \/ ForgetFile(key)
    \/ ReconnectFiles
    \/ \E n \in DOMAIN asking : DumpDescribed(n)
    \/ OpenTestURL
    \/ ToggleSystemInfo
    \/ ToggleSection
    \/ \E layer \in Layer : DownloadLogFile(layer)

TestPageSpec == TestPageInit /\ [][TestPageNext]_testPageVars

(***************************************************************************)
(* Properties                                                              *)
(***************************************************************************)

TestPageTypeOK ==
    /\ shown \in Finding
    /\ moves \in 0..MaxMoves
    /\ DOMAIN files = FileKeys
    /\ system \in BOOLEAN \cup {NoValue} /\ systemURL \in BOOLEAN
    /\ described \in Finding \cup {NoValue}
    /\ asking \in Seq(Finding) /\ dumpLoading \in BOOLEAN

\* Whatever tests the page showed before, and however late their files come,
\* a status, a banner or a client is that of the test in the URL: of its main
\* report, or of the index while there is none or it does not say.
ScreenIsOfTest ==
    LET main == MainReport[shown.id]
        read == MainOf(files, shown) # NoValue
        card(layer) == ClientCard(files, shown, layer)
    IN  /\ StatusShown(files, shown) = IF read THEN Or(main.status, shown.status) ELSE shown.status
        /\ \A layer \in Layer :
              card(layer).type = IF read THEN Or(main.clients[layer].type, ClientOf(shown, layer))
                                 ELSE ClientOf(shown, layer)

\* The charts have every entry of the test's progress file, in the order of
\* time; the rates add up to what was read and written.
ChartsFollowRecording ==
    (PageShown(files, shown) /\ ChartsPanel(files, shown) = "charts") =>
        ChartsFollow(ChartsShown(files, shown), Recorded[shown.id])

\* A log is saved under the name of the run and the layer whose dump and
\* whose client it comes from, even if the path was found in the dump of a
\* test shown before.
DownloadsAreOwnLogs ==
    \A s \in saved : \E f \in Finding :
        /\ f.id = s.run /\ s.entry \in ToSet(DumpEntry[f.id])
        /\ {s.name, ClientOf(f, s.name)} \subseteq s.entry.tags

\* The URL tells whether the system information is unfolded, also after the
\* back button, another test and a reload of its report.
SystemIsInURL == system # NoValue => systemURL = system

=============================================================================
