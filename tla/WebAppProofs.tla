---------------------------- MODULE WebAppProofs ----------------------------
(***************************************************************************)
(* The pages about finished tests, then the dashboard they are part of.    *)
(*                                                                         *)
(* A test page shows what is of the test in its URL because each query is  *)
(* for the test in its key, and each saved log was taken from the dump of  *)
(* the test on the page (TestInv).  Its charts follow the recording since  *)
(* the progress file of the test on the page is there, asked for, or has   *)
(* failed (Sought), and what is there is the recorded one, sorted at most. *)
(* The details page links the dump of its test because the last dump asked *)
(* about is that of the last test on the page (DumpFollows): every commit  *)
(* that brings a test asks about it, and what else changes the cache leaves *)
(* the test or takes it away.  The list has rows on a page exactly when the *)
(* pages before it leave some, since a table of n rows has one of each rank *)
(* below n (RankCovers, of ProgressChartsProofs).                          *)
(*                                                                         *)
(* The cards of a group are about its latest successes because every run   *)
(* has a time of its own (GroupInv): sorted by it, the last window of the  *)
(* successes that took time is the set of those with fewest later ones, and *)
(* a mean over a window lies between two of its values (BandsAre).         *)
(*                                                                         *)
(* Last, what is proved of the parts of the dashboard holds of the         *)
(* dashboard: every behaviour of WebSpec is one of each part's own         *)
(* specification, because a part that is not looked at stands as it was    *)
(* mounted.  Only the report pages are mounted, when they are not looked   *)
(* at, in a state their own specification may not begin with: without      *)
(* configuration.  It satisfies their invariant all the same.              *)
(***************************************************************************)
EXTENDS WebApp, LiveProofs, DumpViewerProofs

-----------------------------------------------------------------------------
(* The content of the details page. *)

(* The progress file of a test, as it came or as a chart has sorted it.     *)
Sorted(id) == {Recorded[id], ByTime(Recorded[id])}

(* The query of a file is for its test and has the file of this test.       *)
OwnFile(key, q) ==
    /\ q \in [data : {q.data}, of : {q.of}, error : {q.error}]
    /\ q.of = NoValue \/ q.of.id = key[2]
    /\ key[1] = "main" => q.data \in {NoValue, MainReport[key[2]]}
    /\ key[1] = "progress" => q.data \in {NoValue} \cup Sorted(key[2])

(* The progress file of f was asked for: it is there, comes or failed.      *)
Sought(fs, f) ==
    LET q == fs[FileKey("progress", f)]
    IN  q.of # NoValue \/ q.error \/ q.data \in Sorted(f.id)

OwnFiles(fs) == DOMAIN fs = FileKeys /\ \A key \in FileKeys : OwnFile(key, fs[key])

OwnLog(s) ==
    \E f \in Finding :
        /\ f.id = s.run /\ s.entry \in ToSet(DumpEntry[f.id])
        /\ {s.name, ClientOf(f, s.name)} \subseteq s.entry.tags

TestInv ==
    /\ shown \in Finding /\ moves \in 0..MaxMoves
    /\ system \in BOOLEAN \cup {NoValue} /\ systemURL \in BOOLEAN
    /\ described \in Finding \cup {NoValue}
    /\ asking \in Seq(Finding) /\ dumpLoading \in BOOLEAN
    /\ OwnFiles(files) /\ Sought(files, shown)
    /\ \A s \in saved : OwnLog(s)
    /\ SystemIsInURL

(* The charts sort what they are drawn from, and once is enough.            *)
LEMMA SortedIs ==
    ASSUME NEW f \in Finding, NEW d \in Sorted(f.id)
    PROVE  /\ ByTime(d) \in Sorted(f.id)
           /\ ProgressCharts(d) = ProgressCharts(Recorded[f.id])
<1>1. Recorded[f.id] \in Seq(ProgressEntry)
  BY TestPageAssumption
<1>2. \A e \in ProgressEntry : e.t \in Int
  BY DEF ProgressEntry
<1>3. /\ ByTime(ByTime(Recorded[f.id])) = ByTime(Recorded[f.id])
      /\ ProgressCharts(ByTime(Recorded[f.id])) = ProgressCharts(Recorded[f.id])
  BY <1>1, <1>2, ByTimeTwice, ChartsOfSorted
<1>4. QED
  BY <1>3 DEF Sorted

(* A chart that sorted the entries draws what it drew of them.             *)
LEMMA ChartsSorted ==
    ASSUME NEW fs, OwnFiles(fs), NEW f \in Finding, Sought(fs, f), ChartsPanel(fs, f) = "charts"
    PROVE  fs[FileKey("progress", f)].data \in Sorted(f.id)
<1> DEFINE q == fs[FileKey("progress", f)]
<1>1. OwnFile(FileKey("progress", f), q)
  BY DEF OwnFiles, FileKeys
<1>2. q.data \in {NoValue} \cup Sorted(f.id)
  BY <1>1 DEF OwnFile, FileKey
<1>3. ~IsLoading(q) /\ ~q.error
  BY DEF ChartsPanel
<1>4. QED
  BY <1>2, <1>3 DEF IsLoading, Sought

LEMMA FileKeyIs ==
    ASSUME NEW kind \in {"main", "progress"}, NEW f \in Finding
    PROVE  /\ FileKey(kind, f) \in FileKeys
           /\ FileKey(kind, f)[1] = kind /\ FileKey(kind, f)[2] = f.id
BY DEF FileKey, FileKeys

(* A query that is asked for its own test.                                 *)
LEMMA AskedOwn ==
    ASSUME NEW key, NEW q, OwnFile(key, q), NEW f, f.id = key[2]
    PROVE  /\ OwnFile(key, [data |-> NoValue, error |-> FALSE,
                            of |-> IF q.of = NoValue THEN f ELSE q.of])
           /\ OwnFile(key, [q EXCEPT !.of = IF q.of = NoValue THEN f ELSE q.of])
<1> DEFINE of == IF q.of = NoValue THEN f ELSE q.of
           a  == [data |-> NoValue, error |-> FALSE, of |-> of]
           b  == [q EXCEPT !.of = of]
<1>1. of = NoValue \/ of.id = key[2]
  BY DEF OwnFile
<1> HIDE DEF of
<1>2. OwnFile(key, a)
  BY <1>1 DEF OwnFile
<1>3. b \in [data : {q.data}, of : {of}, error : {q.error}]
  BY DEF OwnFile
<1> HIDE DEF b
<1>4. b.data = q.data /\ b.of = of /\ b.error = q.error
  BY <1>3
<1>5. OwnFile(key, b)
  BY <1>1, <1>3, <1>4 DEF OwnFile
<1>6. QED
  BY <1>2, <1>5 DEF of, b

LEMMA FileSet ==
    ASSUME NEW fs, OwnFiles(fs), NEW key, NEW q, OwnFile(key, q)
    PROVE  OwnFiles([fs EXCEPT ![key] = q])
BY DEF OwnFiles

LEMMA NeededFileOwn ==
    ASSUME NEW fs, OwnFiles(fs), NEW key \in FileKeys, NEW f, f.id = key[2],
           NEW g \in NeededFile(fs, key, f)
    PROVE  OwnFiles(g)
<1> DEFINE q  == fs[key]
           of == IF q.of = NoValue THEN f ELSE q.of
           a  == [data |-> NoValue, error |-> FALSE, of |-> of]
           b  == [q EXCEPT !.of = of]
<1>1. g \in {fs, [fs EXCEPT ![key] = a], [fs EXCEPT ![key] = b]}
  BY DEF NeededFile
<1>2. OwnFile(key, q)
  BY DEF OwnFiles
<1>3. OwnFile(key, a) /\ OwnFile(key, b)
  BY <1>2, AskedOwn
<1> HIDE DEF a, b
<1>4. QED
  BY <1>1, <1>3, FileSet

LEMMA NeededOwn ==
    ASSUME NEW fs, OwnFiles(fs), NEW f \in Finding, NEW g \in Needed(fs, f)
    PROVE  OwnFiles(g) /\ Sought(g, f)
<1> DEFINE key == FileKey("progress", f)
<1>1. PICK h \in NeededFile(fs, FileKey("main", f), f) : g \in NeededFile(h, key, f)
  BY DEF Needed
<1>2. OwnFiles(h)
  BY FileKeyIs, NeededFileOwn
<1>3. OwnFiles(g)
  BY <1>1, <1>2, FileKeyIs, NeededFileOwn
<1>4. Sought(g, f)
  <2> DEFINE q  == h[key]
             of == IF q.of = NoValue THEN f ELSE q.of
             a  == [data |-> NoValue, error |-> FALSE, of |-> of]
             b  == [q EXCEPT !.of = of]
  <2>1. /\ q.data = NoValue => g = [h EXCEPT ![key] = a]
        /\ q.data # NoValue => g \in {h, [h EXCEPT ![key] = b]}
    BY <1>1 DEF NeededFile
  <2>2. key \in DOMAIN h /\ OwnFile(key, q) /\ key[1] = "progress" /\ key[2] = f.id
    BY <1>2, FileKeyIs DEF OwnFiles
  <2>3. of # NoValue /\ a.of = of
    BY TestPageAssumption
  <2>4. b.data = q.data
    BY <2>2 DEF OwnFile
  <2>5. q.data # NoValue => q.data \in Sorted(f.id)
    BY <2>2 DEF OwnFile
  <2> HIDE DEF key, q, a, b, of
  <2>6. g[key] = a \/ (g[key] \in {q, b} /\ q.data # NoValue)
    BY <2>1, <2>2 DEF q
  <2>7. QED
    BY <2>3, <2>4, <2>5, <2>6 DEF Sought, key
<1>5. QED
  BY <1>3, <1>4

(* A chart that sorts the progress file in the cache leaves the reports.   *)
LEMMA DrawnOwn ==
    ASSUME NEW fs, OwnFiles(fs), NEW f \in Finding, Sought(fs, f)
    PROVE  OwnFiles(Drawn(fs, f)) /\ Sought(Drawn(fs, f), f)
<1> DEFINE key == FileKey("progress", f)
           q   == fs[key]
           b   == [q EXCEPT !.data = ByTime(q.data)]
<1>1. \/ Drawn(fs, f) = fs
      \/ Drawn(fs, f) = [fs EXCEPT ![key] = b] /\ ChartsPanel(fs, f) = "charts"
  BY DEF Drawn
<1>2. CASE Drawn(fs, f) = fs
  BY <1>2
<1>3. CASE Drawn(fs, f) = [fs EXCEPT ![key] = b] /\ ChartsPanel(fs, f) = "charts"
  <2>1. q.data \in Sorted(f.id)
    BY <1>3, ChartsSorted
  <2>2. ByTime(q.data) \in Sorted(f.id)
    BY <2>1, SortedIs
  <2>3. OwnFile(key, q) /\ key[1] = "progress" /\ key[2] = f.id /\ key \in DOMAIN fs
    BY FileKeyIs DEF OwnFiles
  <2> HIDE DEF key, q
  <2>4. b \in [data : {ByTime(q.data)}, of : {q.of}, error : {q.error}]
    BY <2>3 DEF OwnFile
  <2> HIDE DEF b
  <2>5. b.of = q.of /\ b.error = q.error /\ b.data = ByTime(q.data)
    BY <2>4
  <2>6. OwnFile(key, b)
    BY <2>2, <2>3, <2>4, <2>5 DEF OwnFile
  <2>7. OwnFiles([fs EXCEPT ![key] = b])
    BY <2>6, FileSet
  <2>8. [fs EXCEPT ![key] = b][key] = b
    BY <2>3
  <2>9. Sought([fs EXCEPT ![key] = b], f)
    BY <2>2, <2>5, <2>8 DEF Sought, key
  <2>10. QED
    BY <1>3, <2>7, <2>9
<1>4. QED
  BY <1>1, <1>2, <1>3

(* A commit for f writes the state of the system information into the URL. *)
LEMMA CommitKeepsPage ==
    ASSUME NEW fs, OwnFiles(fs), NEW f \in Finding, Sought(fs, f), NEW param \in BOOLEAN,
           NEW state \in BOOLEAN \cup {NoValue}, Commit(fs, f, param, state)
    PROVE  /\ OwnFiles(files') /\ Sought(files', f) /\ SystemIsInURL'
           /\ system' \in BOOLEAN \cup {NoValue} /\ systemURL' \in BOOLEAN
<1>1. OwnFiles(files') /\ Sought(files', f)
  BY DrawnOwn DEF Commit
<1>2. SystemAfter(fs, f, param, state) \in BOOLEAN \cup {NoValue}
  BY DEF SystemAfter
<1>3. QED
  BY <1>1, <1>2 DEF Commit, URLAfter, SystemIsInURL

LEMMA TestInvInit == TestPageInit => TestInv
<1> SUFFICES ASSUME TestPageInit PROVE TestInv
  OBVIOUS
<1>1. PICK f \in Finding, param \in BOOLEAN : TestPageMounted(f, param)
  BY DEF TestPageInit
<1> DEFINE none == [k \in FileKeys |-> NotAsked]
<1>2. OwnFiles(none)
  BY DEF OwnFiles, OwnFile, NotAsked
<1> HIDE DEF none
<1>3. OwnFiles(files) /\ Sought(files, f)
  BY <1>1, <1>2, NeededOwn DEF TestPageMounted, none
<1>4. QED
  BY <1>1, <1>3, TestPageAssumption DEF TestPageMounted, TestInv, SystemIsInURL

(* The log linked and saved is the first of its layer and client.          *)
LEMMA FirstLogIs ==
    ASSUME NEW f \in Finding, NEW layer, NEW entries \in Seq([file : STRING, tags : SUBSET STRING]),
           FirstLog(f, layer, entries) # NoValue
    PROVE  /\ FirstLog(f, layer, entries) \in ToSet(entries)
           /\ {layer, ClientOf(f, layer)} \subseteq FirstLog(f, layer, entries).tags
<1> DEFINE logs == LogOf(f, layer, entries)
<1>1. logs # {} /\ FirstLog(f, layer, entries) = entries[Least(logs)]
  BY DEF FirstLog, Least
<1>2. logs \subseteq Nat
  BY DEF LogOf
<1>3. Least(logs) \in logs
  BY <1>1, <1>2, LeastIs
<1>4. QED
  BY <1>1, <1>3 DEF LogOf, ToSet

LEMMA FileAnswerKeeps ==
    ASSUME TestInv, NEW key \in DOMAIN files, FileAnswer(key)
    PROVE  TestInv'
<1> DEFINE q    == files[key]
           data == IF key[1] = "main" THEN MainReport[q.of.id] ELSE Recorded[q.of.id]
           new(ok) == [data |-> IF ok THEN data ELSE q.data, of |-> NoValue, error |-> ~ok]
<1>1. PICK ok \in QueryOutcomes :
          Commit([files EXCEPT ![key] = new(ok)], shown, systemURL, system)
  BY DEF FileAnswer
<1>2. OwnFile(key, q) /\ q.of # NoValue
  BY DEF TestInv, OwnFiles, FileAnswer
<1>3. OwnFile(key, new(ok))
  <2>1. key[1] \in {"main", "progress"}
    BY DEF TestInv, OwnFiles, FileKeys, FileKey
  <2>2. q.of.id = key[2]
    BY <1>2 DEF OwnFile
  <2>3. QED
    BY <1>2, <2>1, <2>2 DEF OwnFile, Sorted
<1>4. Sought([files EXCEPT ![key] = new(ok)], shown)
  <2> DEFINE main == FileKey("progress", shown)
  <2>1. CASE key = main
    <3>1. main[1] = "progress" /\ main[2] = shown.id
      BY FileKeyIs DEF TestInv
    <3>2. q.of.id = shown.id /\ data = Recorded[q.of.id]
      BY <1>2, <2>1, <3>1 DEF OwnFile
    <3>3. ok => new(ok).data \in Sorted(shown.id)
      BY <3>2 DEF Sorted
    <3>4. ~ok => new(ok).error
      OBVIOUS
    <3>5. [files EXCEPT ![key] = new(ok)][main] = new(ok)
      BY <2>1
    <3>6. ok \in BOOLEAN
      BY DEF QueryOutcomes, DataOf
    <3> HIDE DEF new, main
    <3>7. QED
      BY <3>3, <3>4, <3>5, <3>6 DEF Sought, main
  <2>2. CASE key # main
    <3>1. [files EXCEPT ![key] = new(ok)][main] = files[main]
      BY <2>2, FileKeyIs DEF TestInv, OwnFiles
    <3> HIDE DEF new
    <3>2. QED
      BY <3>1 DEF Sought, TestInv
  <2>3. QED
    BY <2>1, <2>2
<1> HIDE DEF new
<1>5. OwnFiles([files EXCEPT ![key] = new(ok)])
  BY <1>3, FileSet DEF TestInv
<1>6. /\ OwnFiles(files') /\ Sought(files', shown) /\ SystemIsInURL'
      /\ system' \in BOOLEAN \cup {NoValue} /\ systemURL' \in BOOLEAN
  BY <1>1, <1>4, <1>5, CommitKeepsPage DEF TestInv
<1>7. QED
  BY <1>6 DEF FileAnswer, dumpQuery, TestInv

LEMMA DownloadKeeps ==
    ASSUME TestInv, NEW layer \in Layer, DownloadLogFile(layer)
    PROVE  \A s \in saved' : OwnLog(s)
<1> DEFINE log == FirstLog(shown, layer, EntriesShown)
           s   == [run |-> shown.id, name |-> layer, entry |-> log]
<1>1. /\ log # NoValue /\ log \in ToSet(DumpEntry[shown.id]) /\ saved' = saved \cup {s}
      /\ shown \in Finding /\ described \in Finding \cup {NoValue}
  BY DEF DownloadLogFile, TestInv
<1>2. EntriesShown \in Seq([file : STRING, tags : SUBSET STRING])
  <2>1. CASE described = NoValue
    BY <2>1 DEF EntriesShown
  <2>2. CASE described # NoValue
    BY <1>1, <2>2, TestPageAssumption DEF EntriesShown
  <2>3. QED
    BY <2>1, <2>2
<1>3. log \in ToSet(DumpEntry[shown.id]) /\ {layer, ClientOf(shown, layer)} \subseteq log.tags
  BY <1>1, <1>2, FirstLogIs
<1> HIDE DEF log
<1>4. OwnLog(s)
  BY <1>1, <1>3 DEF OwnLog
<1>5. QED
  BY <1>1, <1>4 DEF TestInv

LEMMA TestInvStep == TestInv /\ [TestPageNext]_testPageVars => TestInv'
<1> SUFFICES ASSUME TestInv, [TestPageNext]_testPageVars PROVE TestInv'
  OBVIOUS
<1>1. Moved => moves' \in 0..MaxMoves
  BY TestPageAssumption DEF Moved, TestInv
<1>2. CASE \E key \in DOMAIN files : FileAnswer(key)
  BY <1>2, FileAnswerKeeps
<1>3. ASSUME NEW key \in DOMAIN files, ForgetFile(key) PROVE TestInv'
  <2>1. OwnFile(key, NotAsked)
    BY DEF OwnFile, NotAsked
  <2>2. OwnFiles(files')
    BY <1>3, <2>1, FileSet DEF ForgetFile, dumpQuery, TestInv
  <2>3. Sought(files', shown)
    <3>1. files'[FileKey("progress", shown)] = files[FileKey("progress", shown)]
      BY <1>3, FileKeyIs DEF ForgetFile, dumpQuery, TestInv, OwnFiles
    <3>2. QED
      BY <3>1 DEF Sought, TestInv
  <2>4. QED
    BY <1>3, <2>2, <2>3 DEF ForgetFile, dumpQuery, TestInv, SystemIsInURL
<1>4. CASE ReconnectFiles
  <2>1. PICK fs \in Needed(files, shown) : Commit(fs, shown, systemURL, system)
    BY <1>4 DEF ReconnectFiles
  <2>2. OwnFiles(fs) /\ Sought(fs, shown)
    BY NeededOwn DEF TestInv
  <2>3. /\ OwnFiles(files') /\ Sought(files', shown) /\ SystemIsInURL'
        /\ system' \in BOOLEAN \cup {NoValue} /\ systemURL' \in BOOLEAN
    BY <2>1, <2>2, CommitKeepsPage DEF TestInv
  <2>4. QED
    BY <1>1, <1>4, <2>3 DEF ReconnectFiles, dumpQuery, TestInv
<1>5. ASSUME NEW n \in DOMAIN asking, DumpDescribed(n) PROVE TestInv'
  <2>1. asking \in Seq(Finding) /\ n \in 1..Len(asking)
    BY DEF TestInv
  <2>2. asking[n] \in Finding /\ RemoveAt(asking, n) \in Seq(Finding)
    BY <2>1 DEF RemoveAt
  <2>3. QED
    BY <1>5, <2>2 DEF DumpDescribed, TestInv, SystemIsInURL
<1>6. CASE OpenTestURL
  <2>1. PICK f \in Finding, param \in BOOLEAN : Visit(f, param)
    BY <1>6 DEF OpenTestURL
  <2>2. PICK fs \in IF f = shown THEN {files} ELSE Needed(files, f) : Commit(fs, f, param, system)
    BY <2>1 DEF Visit
  <2>3. asking' \in Seq(Finding) /\ dumpLoading' \in BOOLEAN
    <3>1. CASE UNCHANGED <<asking, dumpLoading>>
      BY <3>1 DEF TestInv
    <3>2. CASE asking' = Append(asking, f) /\ dumpLoading' = TRUE
      BY <3>2 DEF TestInv
    <3>3. QED
      BY <2>1, <3>1, <3>2 DEF Visit
  <2>4. OwnFiles(fs) /\ Sought(fs, f)
    BY NeededOwn DEF TestInv
  <2>5. /\ OwnFiles(files') /\ Sought(files', f) /\ SystemIsInURL'
        /\ system' \in BOOLEAN \cup {NoValue} /\ systemURL' \in BOOLEAN
    BY <2>2, <2>4, CommitKeepsPage DEF TestInv
  <2>6. QED
    BY <1>1, <2>1, <2>5, <2>3 DEF Visit, TestInv
<1>7. CASE ToggleSystemInfo
  <2>1. system' \in BOOLEAN /\ systemURL' = system'
    BY <1>7 DEF ToggleSystemInfo
  <2>2. QED
    BY <1>1, <1>7, <2>1 DEF ToggleSystemInfo, dumpQuery, TestInv, SystemIsInURL
<1>8. CASE ToggleSection
  BY <1>1, <1>8 DEF ToggleSection, dumpQuery, TestInv, SystemIsInURL
<1>9. CASE \E layer \in Layer : DownloadLogFile(layer)
  BY <1>1, <1>9, DownloadKeeps DEF DownloadLogFile, dumpQuery, TestInv, SystemIsInURL
<1>10. CASE UNCHANGED testPageVars
  BY <1>10 DEF testPageVars, dumpQuery, TestInv, SystemIsInURL
<1>11. QED
  BY <1>2, <1>3, <1>4, <1>5, <1>6, <1>7, <1>8, <1>9, <1>10 DEF TestPageNext

(* The queries and saved logs of the details page belong to their tests.   *)
THEOREM TestInvHolds == TestPageSpec => []TestInv
BY TestInvInit, TestInvStep, PTL DEF TestPageSpec

(* The state of the details page has its types.                            *)
THEOREM TestPageTypeOKHolds == TestPageSpec => []TestPageTypeOK
<1>1. TestInv => TestPageTypeOK
  BY DEF TestInv, TestPageTypeOK, OwnFiles
<1>2. QED
  BY <1>1, TestInvHolds, PTL

(* A status or a client on the details page is that of the test in the      *)
(* URL, whatever tests were shown before and however late files come.      *)
THEOREM ScreenIsOfTestHolds == TestPageSpec => []ScreenIsOfTest
<1>1. TestInv => ScreenIsOfTest
  <2> SUFFICES ASSUME TestInv PROVE ScreenIsOfTest
    OBVIOUS
  <2>1. MainOf(files, shown) \in {NoValue, MainReport[shown.id]}
    BY FileKeyIs DEF TestInv, OwnFiles, OwnFile, MainOf
  <2>2. \A layer \in Layer :
            ClientCard(files, shown, layer).type
                = IF MainOf(files, shown) = NoValue THEN ClientOf(shown, layer)
                  ELSE Or(MainOf(files, shown).clients[layer].type, ClientOf(shown, layer))
    BY DEF ClientCard
  <2>3. QED
    BY <2>1, <2>2 DEF ScreenIsOfTest, StatusShown
<1>2. QED
  BY <1>1, TestInvHolds, PTL

(* A log is saved under the run and the layer whose dump and client it     *)
(* comes from.                                                             *)
THEOREM DownloadsAreOwnLogsHolds == TestPageSpec => []DownloadsAreOwnLogs
<1>1. TestInv => DownloadsAreOwnLogs
  BY DEF TestInv, OwnLog, DownloadsAreOwnLogs
<1>2. QED
  BY <1>1, TestInvHolds, PTL

(* The charts of the details page are of the progress file of its test,    *)
(* which was in any order, sorted by another chart before or forgotten and *)
(* read again.                                                             *)
THEOREM ChartsFollowRecordingHolds == TestPageSpec => []ChartsFollowRecording
<1>1. TestInv => ChartsFollowRecording
  <2> SUFFICES ASSUME TestInv, PageShown(files, shown), ChartsPanel(files, shown) = "charts"
               PROVE  ChartsFollow(ChartsShown(files, shown), Recorded[shown.id])
    BY DEF ChartsFollowRecording
  <2> DEFINE d == files[FileKey("progress", shown)].data
  <2>1. shown \in Finding /\ d \in Sorted(shown.id)
    BY ChartsSorted DEF TestInv
  <2>2. ChartsShown(files, shown) = ProgressCharts(d)
    BY DEF ChartsShown
  <2>3. ProgressCharts(d) = ProgressCharts(Recorded[shown.id])
    BY <2>1, SortedIs
  <2>4. ChartsFollow(ProgressCharts(Recorded[shown.id]), Recorded[shown.id])
    BY <2>1, TestPageAssumption, ChartsFollowEntries
  <2>5. QED
    BY <2>2, <2>3, <2>4
<1>2. QED
  BY <1>1, TestInvHolds, PTL

(* The URL tells whether the system information is unfolded.               *)
THEOREM SystemIsInURLHolds == TestPageSpec => []SystemIsInURL
<1>1. TestInv => SystemIsInURL
  BY DEF TestInv
<1>2. QED
  BY <1>1, TestInvHolds, PTL

-----------------------------------------------------------------------------
(* The group of finished tests. *)

GroupRun == [t : Nat, status : STRING, duration : Nat, disk : Nat]

(* No two runs have the same time; each is later than the one before.      *)
Distinct(rs) == \A i, j \in DOMAIN rs : rs[i].t = rs[j].t => i = j
Climbs(rs) == \A i, j \in DOMAIN rs : i < j => rs[i].t < rs[j].t

(* The members of S with fewer than n later ones, and their durations.     *)
Latest(S, n) == {r \in S : Cardinality({q \in S : q.t > r.t}) < n}
DurationOf(S) == SumFunction([r \in S |-> r.duration])

(* A filter keeps the runs at its places, and keeps their times distinct.  *)
LEMMA KeptRuns ==
    ASSUME NEW rs \in Seq(GroupRun), NEW S, S \subseteq DOMAIN rs
    PROVE  /\ Kept(rs, S) \in Seq(GroupRun)
           /\ ToSet(Kept(rs, S)) = {rs[n] : n \in S}
           /\ Distinct(rs) => Distinct(Kept(rs, S))
<1> DEFINE u == Kept(rs, S)
           f == Ascending(S)
<1>1. u \in Seq(GroupRun) /\ Takes(u, rs, S, f)
  BY KeptIs
<1> HIDE DEF u, f
<1>2. ToSet(u) = {rs[n] : n \in S}
  BY <1>1 DEF Takes, ToSet
<1>3. ASSUME Distinct(rs) PROVE Distinct(u)
  <2>1. \A i \in DOMAIN u : f[i] \in DOMAIN rs /\ u[i] = rs[f[i]]
    BY <1>1 DEF Takes
  <2>2. QED
    BY <1>1, <1>3, <2>1 DEF Takes, Distinct
<1>4. QED
  BY <1>1, <1>2, <1>3 DEF u

(* Sorting keeps the runs; with distinct times each is later than the one  *)
(* before.                                                                 *)
LEMMA SortedRuns ==
    ASSUME NEW rs \in Seq(GroupRun)
    PROVE  /\ ByTime(rs) \in Seq(GroupRun) /\ Len(ByTime(rs)) = Len(rs)
           /\ ToSet(ByTime(rs)) = ToSet(rs)
           /\ Distinct(rs) => Climbs(ByTime(rs))
<1> DEFINE u == ByTime(rs)
           f == ByTimeAt(rs)
<1>1. /\ u \in Seq(GroupRun) /\ Len(u) = Len(rs)
      /\ Takes(u, rs, DOMAIN rs, f)
      /\ Ordered(u)
  <2>1. \A e \in GroupRun : e.t \in Int
    BY DEF GroupRun
  <2>2. QED
    BY <2>1, ByTimeIs
<1> HIDE DEF u, f
<1>2. ToSet(u) = ToSet(rs)
  BY <1>1 DEF Takes, ToSet
<1>3. ASSUME Distinct(rs) PROVE Climbs(u)
  <2> SUFFICES ASSUME NEW i \in DOMAIN u, NEW j \in DOMAIN u, i < j PROVE u[i].t < u[j].t
    BY DEF Climbs
  <2>1. f[i] \in DOMAIN rs /\ u[i] = rs[f[i]] /\ f[j] \in DOMAIN rs /\ u[j] = rs[f[j]]
    BY <1>1 DEF Takes
  <2>2. i # j
    <3>1. DOMAIN u \subseteq Int
      BY <1>1
    <3>2. QED
      BY <3>1
  <2>3. f[i] # f[j]
    <3>1. \A k, l \in DOMAIN u : f[k] = f[l] => k = l
      BY <1>1, Zenon DEF Takes
    <3>2. QED
      BY <2>2, <3>1
  <2>4. u[i].t # u[j].t
    BY <1>3, <2>1, <2>3 DEF Distinct
  <2>5. u[i].t <= u[j].t
    BY <1>1 DEF Ordered
  <2>6. u[i].t \in Int /\ u[j].t \in Int
    <3>1. \A r \in GroupRun : r.t \in Int
      BY DEF GroupRun
    <3>2. u[i] \in GroupRun /\ u[j] \in GroupRun
      BY <1>1
    <3>3. QED
      BY <3>1, <3>2
  <2>7. QED
    BY <2>4, <2>5, <2>6
<1>4. QED
  BY <1>1, <1>2, <1>3 DEF u

(* A window is not longer than what it moves over, of three values or more. *)
LEMMA WindowIs ==
    ASSUME NEW n \in Nat
    PROVE  /\ MovingAverageWindow(n) \in Nat \ {0, 1, 2}
           /\ n >= 3 => MovingAverageWindow(n) <= n
           /\ MovingAverageWindow(n) \div 2 \in Nat
           /\ MovingAverageWindow(n) \div 2 < MovingAverageWindow(n)
<1> DEFINE w == MovingAverageWindow(n)
<1>1. n < 5 => w = IF 3 > n THEN 3 ELSE n
  BY DEF MovingAverageWindow, Greatest
<1>2. n \in 5..19 => w = 5
  BY DEF MovingAverageWindow
<1>3. n \in 20..49 => w = 10
  BY DEF MovingAverageWindow
<1>4. n \in 50..99 => w = 15
  BY DEF MovingAverageWindow
<1>5. n \in 100..199 => w = 20
  BY DEF MovingAverageWindow
<1>6. n >= 200 => w = 30
  <2> SUFFICES ASSUME n >= 200 PROVE w = 30
    OBVIOUS
  <2>1. w = Smallest(30, (15 * n) \div 100)
    BY DEF MovingAverageWindow
  <2>2. (15 * n) \div 100 \in Int /\ (15 * n) \div 100 >= 30
    OBVIOUS
  <2>3. QED
    BY <2>1, <2>2 DEF Smallest
<1> HIDE DEF w
<1>7. w \in Nat \ {0, 1, 2} /\ (n >= 3 => w <= n)
  BY <1>1, <1>2, <1>3, <1>4, <1>5, <1>6
<1>8. w \div 2 \in Nat /\ w \div 2 < w
  BY <1>7
<1>9. QED
  BY <1>7, <1>8 DEF w

LEMMA SumRenamed ==
    ASSUME NEW D, IsFiniteSet(D), NEW f, NEW e, NEW T, NEW d,
           \A i, j \in D : f[i] = f[j] => i = j,
           \A k \in D : e[k] = d[f[k]] /\ e[k] \in Int,
           T = {f[k] : k \in D}
    PROVE  SumFunctionOnSet(d, T) = SumFunctionOnSet(e, D)
BY SumMoved

LEMMA UpperPart ==
    ASSUME NEW L \in Nat, NEW m \in Nat, m <= L
    PROVE  (\A k \in 1..L : k > m <=> k \in (m + 1)..L) /\ (m + 1)..L \subseteq 1..L
OBVIOUS

(* The n latest of runs that climb are the last of them.                   *)
LEMMA LatestAre ==
    ASSUME NEW p \in Seq(GroupRun), Climbs(p), NEW n \in Nat, NEW h \in 0..Len(p),
           h = Smallest(n, Len(p))
    PROVE  /\ Cardinality(Latest(ToSet(p), n)) = h
           /\ DurationOf(Latest(ToSet(p), n))
                = SumFunctionOnSet([k \in 1..h |-> p[Len(p) - h + k].duration], 1..h)
<1> DEFINE L == Len(p)
           S == ToSet(p)
           f == [k \in 1..h |-> p[L - h + k]]
<1>1. L \in Nat /\ DOMAIN p = 1..L /\ h \in Nat
  OBVIOUS
<1>2. \A k \in 1..L : p[k] \in GroupRun /\ p[k].t \in Nat /\ p[k].duration \in Nat
  <2>1. \A r \in GroupRun : r.t \in Nat /\ r.duration \in Nat
    BY DEF GroupRun
  <2>2. QED
    BY <1>1, <2>1
<1>3. \A i, j \in 1..L : (i < j <=> p[i].t < p[j].t) /\ (p[i] = p[j] => i = j)
  <2> SUFFICES ASSUME NEW i \in 1..L, NEW j \in 1..L
               PROVE  (i < j <=> p[i].t < p[j].t) /\ (p[i] = p[j] => i = j)
    OBVIOUS
  <2>1. p[i].t \in Nat /\ p[j].t \in Nat
    BY <1>2
  <2>2. (i < j => p[i].t < p[j].t) /\ (j < i => p[j].t < p[i].t)
    BY <1>1 DEF Climbs
  <2>3. i < j \/ j < i \/ i = j
    BY <1>1
  <2>4. QED
    BY <2>1, <2>2, <2>3
<1>4. S = {p[k] : k \in 1..L}
  BY <1>1 DEF ToSet
<1> HIDE DEF L, S
<1>5. ASSUME NEW k \in 1..L PROVE Cardinality({q \in S : q.t > p[k].t}) = L - k
  <2> DEFINE T == {q \in S : q.t > p[k].t}
             g == [j \in (k + 1)..L |-> p[j]]
  <2>1. \A j \in (k + 1)..L : j \in 1..L /\ p[j] \in T
    BY <1>1, <1>2, <1>3, <1>4
  <2>2. \A q \in T : \E j \in (k + 1)..L : p[j] = q
    <3> SUFFICES ASSUME NEW q \in T PROVE \E j \in (k + 1)..L : p[j] = q
      OBVIOUS
    <3>1. PICK j \in 1..L : q = p[j]
      BY <1>4
    <3>2. k < j
      BY <1>2, <1>3, <3>1
    <3>3. j \in (k + 1)..L
      BY <1>1, <3>2
    <3>4. QED
      BY <3>1, <3>3
  <2>3. \A i, j \in (k + 1)..L : p[i] = p[j] => i = j
    BY <1>3, <2>1
  <2> HIDE DEF T
  <2>4. g \in Bijection((k + 1)..L, T)
    BY <2>1, <2>2, <2>3 DEF Bijection, Injection, IsInjective, Surjection
  <2>5. IsFiniteSet((k + 1)..L) /\ Cardinality((k + 1)..L) = L - k
    <3>1. k + 1 \in Int /\ L \in Int /\ k + 1 <= L + 1
      BY <1>1
    <3>2. /\ IsFiniteSet((k + 1)..L)
          /\ Cardinality((k + 1)..L) = IF k + 1 > L THEN 0 ELSE L - (k + 1) + 1
      BY <3>1, FS_Interval, Zenon
    <3>3. QED
      BY <1>1, <3>2
  <2>6. Cardinality(T) = Cardinality((k + 1)..L)
    BY <2>4, <2>5, FS_Bijection DEF ExistsBijection
  <2>7. QED
    BY <2>5, <2>6 DEF T
<1> DEFINE m == L - h
<1>6. m \in Nat /\ L = m + h /\ L - h = m
  <2>1. h <= L
    BY DEF L
  <2>2. QED
    BY <1>1, <2>1
<1>12. \A k \in 1..L : L - k < n <=> k > m
  <2>1. h = IF n < L THEN n ELSE L
    BY DEF Smallest, L
  <2>2. QED
    BY <1>1, <2>1
<1> HIDE DEF m
<1>7. Latest(S, n) = {p[k] : k \in (m + 1)..L}
  <2>1. Latest(S, n) = {r \in S : Cardinality({q \in S : q.t > r.t}) < n}
    BY DEF Latest
  <2>2. \A k \in 1..L : p[k] \in Latest(S, n) <=> k > m
    BY <1>4, <1>5, <1>12, <2>1
  <2>3. \A r \in Latest(S, n) : \E k \in 1..L : r = p[k]
    BY <1>4, <2>1
  <2>4. L \in Nat /\ m <= L
    BY <1>1, <1>6
  <2>5. (\A k \in 1..L : k > m <=> k \in (m + 1)..L) /\ (m + 1)..L \subseteq 1..L
    BY <1>6, <2>4, UpperPart
  <2>6. QED
    BY <2>2, <2>3, <2>4, <2>5
<1>8. /\ \A k \in 1..h : m + k \in 1..L /\ f[k] = p[m + k]
      /\ \A i, j \in 1..h : f[i] = f[j] => i = j
      /\ Latest(S, n) = {f[k] : k \in 1..h}
  <2>1. \A k \in 1..h : m + k \in 1..L /\ m + k \in (m + 1)..L
    BY <1>1, <1>6
  <2>2. \A k \in (m + 1)..L : k - m \in 1..h /\ m + (k - m) = k
    BY <1>1, <1>6
  <2>3. \A k \in 1..h : f[k] = p[m + k]
    BY <1>6
  <2> HIDE DEF f
  <2>4. \A i, j \in 1..h : f[i] = f[j] => i = j
    <3> SUFFICES ASSUME NEW i \in 1..h, NEW j \in 1..h, f[i] = f[j] PROVE i = j
      OBVIOUS
    <3>1. m + i = m + j
      BY <1>3, <2>1, <2>3
    <3>2. i \in Int /\ j \in Int /\ m \in Int
      BY <1>1, <1>6
    <3>3. QED
      BY <3>1, <3>2
  <2>5. \A k \in (m + 1)..L : p[k] = f[k - m]
    BY <2>2, <2>3
  <2>6. Latest(S, n) = {f[k] : k \in 1..h}
    <3> DEFINE J == (m + 1)..L
               D == 1..h
    <3>1. Latest(S, n) = {p[k] : k \in J}
      BY <1>7
    <3>2. \A k \in J : k - m \in D /\ p[k] = f[k - m]
      BY <2>2, <2>5
    <3>3. \A k \in D : m + k \in J /\ f[k] = p[m + k]
      BY <2>1, <2>3
    <3> HIDE DEF J, D
    <3>4. {p[k] : k \in J} = {f[k] : k \in D}
      BY <3>2, <3>3
    <3>5. QED
      BY <3>1, <3>4 DEF D
  <2>7. QED
    BY <2>1, <2>3, <2>4, <2>6
<1> HIDE DEF f
<1>9. Cardinality(Latest(S, n)) = h /\ IsFiniteSet(1..h)
  <2>1. IsFiniteSet(1..h) /\ Cardinality(1..h) = h
    BY <1>1, FS_Interval
  <2>2. f \in Bijection(1..h, Latest(S, n))
    <3>1. DOMAIN f = 1..h /\ f = [k \in 1..h |-> f[k]]
      BY DEF f
    <3>2. QED
      BY <1>8, <3>1 DEF Bijection, Injection, IsInjective, Surjection
  <2>3. QED
    BY <2>1, <2>2, FS_Bijection DEF ExistsBijection
<1>10. DurationOf(Latest(S, n))
         = SumFunctionOnSet([k \in 1..h |-> p[m + k].duration], 1..h)
  <2> DEFINE d == [r \in Latest(S, n) |-> r.duration]
             e == [k \in 1..h |-> p[m + k].duration]
             D == 1..h
  <2>1. \A k \in D : e[k] = d[f[k]] /\ e[k] \in Int
    BY <1>2, <1>8
  <2>2. IsFiniteSet(D)
    BY <1>9
  <2>3. \A i, j \in D : f[i] = f[j] => i = j
    BY <1>8
  <2>4. DurationOf(Latest(S, n)) = SumFunctionOnSet(d, Latest(S, n))
    BY DEF DurationOf, SumFunction
  <2> HIDE DEF d, e, D
  <2>5. Latest(S, n) = {f[k] : k \in D}
    BY <1>8 DEF D
  <2>6. SumFunctionOnSet(d, Latest(S, n)) = SumFunctionOnSet(e, D)
    BY <2>1, <2>2, <2>3, <2>5, SumRenamed
  <2>7. QED
    BY <2>4, <2>6 DEF e, D
<1>11. QED
  BY <1>6, <1>9, <1>10 DEF L, S

(* Runs that climb are as many as there are different ones.                *)
LEMMA ClimbingRuns ==
    ASSUME NEW p \in Seq(GroupRun), Climbs(p)
    PROVE  /\ Cardinality(ToSet(p)) = Len(p)
           /\ ToSet(p) = {} <=> Len(p) = 0
<1> DEFINE L == Len(p)
           S == ToSet(p)
           f == [k \in 1..L |-> p[k]]
<1>1. L \in Nat /\ DOMAIN p = 1..L
  OBVIOUS
<1>2. \A k \in 1..L : p[k].t \in Nat
  <2>1. \A r \in GroupRun : r.t \in Nat
    BY DEF GroupRun
  <2>2. QED
    BY <1>1, <2>1
<1>3. \A i, j \in 1..L : p[i] = p[j] => i = j
  <2>1. \A i, j \in 1..L : i < j => p[i].t < p[j].t
    BY <1>1 DEF Climbs
  <2>2. QED
    BY <1>1, <1>2, <2>1
<1>4. S = {p[k] : k \in 1..L}
  BY <1>1 DEF ToSet
<1> HIDE DEF L, S
<1>5. f \in Bijection(1..L, S)
  BY <1>3, <1>4 DEF Bijection, Injection, IsInjective, Surjection
<1>6. IsFiniteSet(1..L) /\ Cardinality(1..L) = L
  BY <1>1, FS_Interval
<1>7. Cardinality(S) = L
  BY <1>5, <1>6, FS_Bijection DEF ExistsBijection
<1>8. S = {} <=> L = 0
  <2>1. L # 0 => p[1] \in S
    <3>1. L # 0 => 1 \in 1..L
      BY <1>1
    <3>2. QED
      BY <1>4, <3>1
  <2>2. L = 0 => 1..L = {}
    BY <1>1
  <2>3. QED
    BY <1>4, <2>1, <2>2
<1>9. QED
  BY <1>7, <1>8 DEF L, S

(* Where the values that are averaged at position i of n begin and end.    *)
From(n, i) == Greatest(0, i - 1 - (MovingAverageWindow(n) \div 2))
To(n, i)   == Smallest(n, From(n, i) + MovingAverageWindow(n))

(* There is at least one, and none beyond the values.                      *)
LEMMA WindowFits ==
    ASSUME NEW n \in Nat, NEW i \in 1..n
    PROVE  From(n, i) \in Nat /\ To(n, i) \in (From(n, i) + 1)..n
<1> DEFINE w == MovingAverageWindow(n)
           half == w \div 2
           from == From(n, i)
<1>1. w \in Nat \ {0} /\ half \in Nat
  BY WindowIs
<1>2. from = IF 0 > i - 1 - half THEN 0 ELSE i - 1 - half
  BY DEF Greatest, From
<1>3. To(n, i) = IF n < from + w THEN n ELSE from + w
  BY DEF Smallest, To
<1> HIDE DEF w, half, from
<1>4. from \in Nat /\ from < n
  BY <1>1, <1>2
<1>5. To(n, i) \in (from + 1)..n
  BY <1>1, <1>3, <1>4
<1>6. QED
  BY <1>4, <1>5 DEF from

(* At the last position they are half a window and one.                    *)
LEMMA LastWindowIs ==
    ASSUME NEW n \in Nat, n >= 3
    PROVE  /\ MovingAverageWindow(n) \div 2 + 1 \in 1..n
           /\ From(n, n) = n - (MovingAverageWindow(n) \div 2 + 1) /\ To(n, n) = n
<1> DEFINE w == MovingAverageWindow(n)
           half == w \div 2
           from == From(n, n)
<1>1. w \in Nat \ {0} /\ w <= n /\ half \in Nat /\ half < w
  BY WindowIs
<1>2. from = IF 0 > n - 1 - half THEN 0 ELSE n - 1 - half
  BY DEF Greatest, From
<1>3. To(n, n) = IF n < from + w THEN n ELSE from + w
  BY DEF Smallest, To
<1> HIDE DEF w, half, from
<1>4. half + 1 \in 1..n /\ from = n - (half + 1)
  BY <1>1, <1>2
<1>5. To(n, n) = n
  BY <1>1, <1>3, <1>4
<1>6. QED
  BY <1>4, <1>5 DEF from, half, w

(* A part of a sequence.                                                   *)
LEMMA PartIs ==
    ASSUME NEW s \in Seq(Nat), NEW m \in Nat, NEW n \in (m + 1)..Len(s)
    PROVE  /\ SubSeq(s, m + 1, n) \in Seq(Nat) /\ Len(SubSeq(s, m + 1, n)) = n - m
           /\ n - m \in Nat \ {0}
           /\ \A k \in 1..(n - m) : m + k \in 1..Len(s) /\ SubSeq(s, m + 1, n)[k] = s[m + k]
<1> DEFINE L == Len(s)
           u == SubSeq(s, m + 1, n)
<1>1. L \in Nat /\ DOMAIN s = 1..L
  OBVIOUS
<1>2. \A k \in (m + 1)..n : s[k] \in Nat
  OBVIOUS
<1>3. m + 1 \in Int /\ n \in Int
  OBVIOUS
<1> HIDE DEF L
<1>4. /\ u \in Seq(Nat)
      /\ Len(u) = IF m + 1 <= n THEN n - (m + 1) + 1 ELSE 0
      /\ \A k \in 1..(n - (m + 1) + 1) : u[k] = s[m + 1 + k - 1]
  BY <1>2, <1>3, SubSeqProperties
<1> HIDE DEF u
<1>5. n \in (m + 1)..L
  BY DEF L
<1>6. n - (m + 1) + 1 = n - m /\ n - m \in Nat \ {0} /\ m + 1 <= n
  BY <1>1, <1>5
<1>7. \A k \in 1..(n - m) : m + 1 + k - 1 = m + k /\ m + k \in 1..L
  BY <1>1, <1>5
<1>8. QED
  BY <1>4, <1>6, <1>7 DEF L, u

(* What is averaged at a position: values, at least one, in their order.   *)
LEMMA AveragedIs ==
    ASSUME NEW ds \in Seq(Nat), NEW i \in 1..Len(ds)
    PROVE  LET m == From(Len(ds), i)
               n == To(Len(ds), i)
           IN  /\ Averaged(ds, i) \in Seq(Nat)
               /\ Len(Averaged(ds, i)) = n - m /\ n - m \in Nat \ {0} /\ m \in Nat
               /\ \A k \in 1..(n - m) :
                     m + k \in 1..Len(ds) /\ Averaged(ds, i)[k] = ds[m + k]
<1> DEFINE m == From(Len(ds), i)
           n == To(Len(ds), i)
<1>1. Len(ds) \in Nat
  OBVIOUS
<1>2. m \in Nat /\ n \in (m + 1)..Len(ds)
  BY <1>1, WindowFits
<1>3. Averaged(ds, i) = SubSeq(ds, m + 1, n)
  BY DEF Averaged, From, To
<1> HIDE DEF m, n
<1>4. /\ SubSeq(ds, m + 1, n) \in Seq(Nat) /\ Len(SubSeq(ds, m + 1, n)) = n - m
      /\ n - m \in Nat \ {0}
      /\ \A k \in 1..(n - m) :
            m + k \in 1..Len(ds) /\ SubSeq(ds, m + 1, n)[k] = ds[m + k]
  BY <1>2, PartIs, Zenon
<1>5. QED
  BY <1>2, <1>3, <1>4, Zenon DEF m, n

LastOf(ds, h) == [k \in 1..h |-> ds[Len(ds) - h + k]]

(* The average of the last values.                                         *)
LEMMA LastAverageIs ==
    ASSUME NEW ds \in Seq(Nat), Len(ds) >= 3,
           NEW h, h = MovingAverageWindow(Len(ds)) \div 2 + 1
    PROVE  /\ h \in 1..Len(ds)
           /\ MovingAverage(ds)[Len(ds)]
                = <<SumFunctionOnSet(LastOf(ds, h), 1..h), h>>
<1> DEFINE L == Len(ds)
           last == [k \in 1..h |-> ds[L - h + k]]
           u == Averaged(ds, L)
           m == L - h
<1>1. L \in Nat /\ L >= 3 /\ DOMAIN ds = 1..L
  OBVIOUS
<1>2. h \in 1..L /\ m = From(L, L) /\ L = To(L, L)
  BY <1>1, LastWindowIs
<1>3. MovingAverage(ds)[L] = Mean(u)
  <2>1. L \in DOMAIN ds
    BY <1>1
  <2>2. QED
    BY <2>1 DEF MovingAverage
<1>4. L \in 1..L
  BY <1>1
<1>5. L - m = h
  BY <1>1, <1>2
<1>6. u \in Seq(Nat) /\ Len(u) = h /\ \A k \in 1..h : u[k] = ds[m + k]
  <2>1. /\ u \in Seq(Nat) /\ Len(u) = To(L, L) - From(L, L)
        /\ \A k \in 1..(To(L, L) - From(L, L)) : u[k] = ds[From(L, L) + k]
    BY <1>4, AveragedIs, Zenon
  <2> HIDE DEF m, u
  <2>2. QED
    BY <1>2, <1>5, <2>1
<1> HIDE DEF L, u
<1>7. u = last
  <2>1. u = [k \in 1..h |-> u[k]]
    BY <1>6
  <2>2. QED
    BY <1>6, <2>1
<1>8. DOMAIN u = 1..h
  BY <1>6
<1>9. Mean(u) = <<SumFunctionOnSet(u, 1..h), h>>
  BY <1>6, <1>8 DEF Mean, Total, SumFunction
<1>10. QED
  BY <1>2, <1>3, <1>7, <1>9 DEF L, last, LastOf

Good(S) == {r \in S : r.status \in {"", "success"}}
WithTime(S) == {r \in S : r.duration > 0}

(* The runs that succeeded, in time order.                                 *)
LEMMA SuccessesAre ==
    ASSUME NEW rs \in Seq(GroupRun), Distinct(rs)
    PROVE  /\ Succeeded(rs) \in Seq(GroupRun) /\ Distinct(Succeeded(rs))
           /\ ToSet(Succeeded(rs)) = Good(ToSet(rs))
<1> DEFINE S == {n \in DOMAIN rs : rs[n].status \in {"", "success"}}
<1>1. S \subseteq DOMAIN rs /\ {rs[n] : n \in S} = Good(ToSet(rs))
  BY DEF Good, ToSet
<1>2. Succeeded(rs) = Kept(rs, S)
  BY DEF Succeeded
<1> HIDE DEF S
<1>3. QED
  BY <1>1, <1>2, KeptRuns

(* Of the runs with a duration.                                            *)
LEMMA TimedAre ==
    ASSUME NEW rs \in Seq(GroupRun), Distinct(rs)
    PROVE  /\ Timed(rs) \in Seq(GroupRun) /\ Distinct(Timed(rs))
           /\ ToSet(Timed(rs)) = WithTime(ToSet(rs))
<1> DEFINE S == {n \in DOMAIN rs : rs[n].duration > 0}
<1>1. S \subseteq DOMAIN rs /\ {rs[n] : n \in S} = WithTime(ToSet(rs))
  BY DEF WithTime, ToSet
<1>2. Timed(rs) = Kept(rs, S)
  BY DEF Timed
<1> HIDE DEF S
<1>3. QED
  BY <1>1, <1>2, KeptRuns

(* The trend of runs that climb, of the last of them.                      *)
LEMMA TrendOf ==
    ASSUME NEW p \in Seq(GroupRun), Climbs(p), NEW ds, ds = [k \in DOMAIN p |-> p[k].duration],
           NEW n, n = IF Len(p) < 3 THEN 2 ELSE MovingAverageWindow(Len(p)) \div 2 + 1,
           Len(p) > 0
    PROVE  (IF Len(ds) \in 1..2 THEN Mean(ds) ELSE MovingAverage(ds)[Len(ds)])
             = <<DurationOf(Latest(ToSet(p), n)), Cardinality(Latest(ToSet(p), n))>>
<1> DEFINE L == Len(p)
           h == IF L < 3 THEN L ELSE n
           last == [k \in 1..h |-> p[L - h + k].duration]
<1>1. L \in Nat /\ DOMAIN p = 1..L /\ L > 0
  OBVIOUS
<1>2. \A k \in 1..L : p[k].duration \in Nat
  <2>1. \A r \in GroupRun : r.duration \in Nat
    BY DEF GroupRun
  <2>2. QED
    BY <1>1, <2>1
<1>3. ds \in Seq(Nat) /\ Len(ds) = L /\ DOMAIN ds = 1..L /\ \A k \in 1..L : ds[k] = p[k].duration
  <2>1. ds \in [1..L -> Nat]
    BY <1>1, <1>2
  <2>2. QED
    BY <1>1, <2>1, LenProperties, SeqDef
<1>4. n \in Nat /\ h \in 0..L /\ h = Smallest(n, L)
  <2>1. CASE L < 3
    <3>1. n = 2 /\ h = L
      BY <2>1
    <3>2. QED
      BY <1>1, <2>1, <3>1 DEF Smallest
  <2>2. CASE L >= 3
    <3>1. n = MovingAverageWindow(L) \div 2 + 1 /\ h = n
      BY <1>1, <2>2
    <3>2. MovingAverageWindow(L) \div 2 + 1 \in 1..L
      BY <1>1, <2>2, LastWindowIs
    <3> DEFINE half == MovingAverageWindow(L) \div 2 + 1
    <3> HIDE DEF half, h, L
    <3>3. n = half /\ half \in 1..L
      BY <3>1, <3>2 DEF half
    <3>4. QED
      BY <1>1, <3>1, <3>3 DEF Smallest
  <2>3. QED
    BY <1>1, <2>1, <2>2
<1>5. /\ Cardinality(Latest(ToSet(p), n)) = h
      /\ DurationOf(Latest(ToSet(p), n)) = SumFunctionOnSet(last, 1..h)
  <2> HIDE DEF h
  <2>1. QED
    BY <1>4, LatestAre
<1>6. CASE L < 3
  <2>1. L \in 1..2 /\ h = L
    BY <1>1, <1>6
  <2>2. last = ds
    <3>1. \A k \in 1..L : L - L + k = k
      BY <1>1
    <3>2. last = [k \in 1..L |-> p[L - L + k].duration]
      BY <2>1
    <3>3. ds = [k \in 1..L |-> p[k].duration]
      BY <1>1
    <3> HIDE DEF last, L
    <3>4. QED
      BY <3>1, <3>2, <3>3
  <2> HIDE DEF last, L, h
  <2>3. Mean(ds) = <<SumFunctionOnSet(ds, 1..L), L>>
    BY <1>3 DEF Mean, Total, SumFunction
  <2>4. QED
    BY <1>3, <1>5, <2>1, <2>2, <2>3 DEF L
<1>7. CASE L >= 3
  <2>1. L \notin 1..2 /\ h = n /\ n = MovingAverageWindow(L) \div 2 + 1
    BY <1>1, <1>7
  <2> HIDE DEF L, h, last
  <2>2. h = MovingAverageWindow(Len(ds)) \div 2 + 1 /\ Len(ds) >= 3
    BY <1>3, <1>7, <2>1
  <2>3. /\ h \in 1..Len(ds)
        /\ MovingAverage(ds)[Len(ds)]
             = <<SumFunctionOnSet(LastOf(ds, h), 1..h), h>>
    <3>1. ds \in Seq(Nat)
      BY <1>3
    <3>2. QED
      BY <2>2, <3>1, LastAverageIs
  <2>4. LastOf(ds, h) = last
    <3>1. \A k \in 1..h : L - h + k \in 1..L
      BY <1>1, <1>3, <2>3
    <3>2. \A k \in 1..h : ds[L - h + k] = p[L - h + k].duration
      BY <1>3, <3>1
    <3>3. last = [k \in 1..h |-> p[L - h + k].duration]
      BY DEF last
    <3>4. QED
      BY <1>3, <3>2, <3>3 DEF LastOf
  <2>5. QED
    BY <1>3, <1>5, <2>1, <2>3, <2>4
<1>8. L < 3 \/ L >= 3
  BY <1>1
<1>9. QED
  BY <1>6, <1>7, <1>8, Zenon

(* The trend is that of the latest successes with a duration.              *)
LEMMA TrendIs ==
    ASSUME NEW rs \in Seq(GroupRun), Distinct(rs),
           NEW S, S = WithTime(Good(ToSet(rs))),
           NEW n, n = IF Cardinality(S) < 3 THEN 2
                      ELSE MovingAverageWindow(Cardinality(S)) \div 2 + 1
    PROVE  TrendDuration(rs) = IF S = {} THEN NoData
                               ELSE <<DurationOf(Latest(S, n)), Cardinality(Latest(S, n))>>
<1> DEFINE u == Timed(Succeeded(rs))
           p == OldestFirst(u)
           ds == [k \in DOMAIN p |-> p[k].duration]
<1>1. u \in Seq(GroupRun) /\ Distinct(u) /\ ToSet(u) = S
  BY SuccessesAre, TimedAre
<1> HIDE DEF u
<1>2. p \in Seq(GroupRun) /\ Climbs(p) /\ ToSet(p) = S
  BY <1>1, SortedRuns DEF OldestFirst
<1>3. TrendDuration(rs) = IF ds = <<>> THEN NoData
                          ELSE IF Len(ds) \in 1..2 THEN Mean(ds) ELSE MovingAverage(ds)[Len(ds)]
  BY SMTT(30) DEF TrendDuration, u
<1> HIDE DEF p
<1>4. Cardinality(S) = Len(p) /\ (S = {} <=> Len(p) = 0) /\ Len(p) \in Nat
  BY <1>2, ClimbingRuns
<1>5. ds = <<>> <=> Len(p) = 0
  <2>1. DOMAIN p = 1..Len(p)
    BY <1>2
  <2>2. DOMAIN ds = 1..Len(p)
    BY <2>1
  <2>3. Len(p) = 0 => ds = <<>>
    BY <2>1
  <2>4. Len(p) # 0 => 1 \in DOMAIN ds
    BY <1>4, <2>2
  <2>5. 1 \in DOMAIN ds => ds # <<>>
    OBVIOUS
  <2>6. QED
    BY <2>3, <2>4, <2>5
<1>6. ASSUME Len(p) > 0
      PROVE  (IF Len(ds) \in 1..2 THEN Mean(ds) ELSE MovingAverage(ds)[Len(ds)])
               = <<DurationOf(Latest(S, n)), Cardinality(Latest(S, n))>>
  <2>1. n = IF Len(p) < 3 THEN 2 ELSE MovingAverageWindow(Len(p)) \div 2 + 1
    BY <1>4
  <2>2. ds = [k \in DOMAIN p |-> p[k].duration]
    OBVIOUS
  <2> HIDE DEF ds
  <2>3. (IF Len(ds) \in 1..2 THEN Mean(ds) ELSE MovingAverage(ds)[Len(ds)])
               = <<DurationOf(Latest(ToSet(p), n)), Cardinality(Latest(ToSet(p), n))>>
    BY <1>2, <1>6, <2>1, <2>2, TrendOf, Zenon
  <2>4. QED
    BY <1>2, <2>3
<1> HIDE DEF ds
<1>7. Len(p) = 0 \/ Len(p) > 0
  BY <1>4
<1>8. QED
  BY <1>3, <1>4, <1>5, <1>6, <1>7

(* The first that a filter keeps is at the first of its places.            *)
LEMMA FirstKept ==
    ASSUME NEW rs \in Seq(GroupRun), NEW S, S \subseteq DOMAIN rs
    PROVE  /\ S = {} => Kept(rs, S) = <<>>
           /\ S # {} => /\ Kept(rs, S) # <<>>
                        /\ \E a \in S : Kept(rs, S)[1] = rs[a] /\ \A n \in S : a <= n
<1> DEFINE u == Kept(rs, S)
           f == Ascending(S)
           N == Cardinality(S)
<1>1. /\ u \in Seq(GroupRun) /\ Len(u) = N /\ Takes(u, rs, S, f)
      /\ \A i, j \in DOMAIN u : i < j <=> f[i] < f[j]
  BY KeptIs
<1>2. IsFiniteSet(S)
  BY <1>1 DEF Takes
<1>3. N \in Nat /\ (N = 0 <=> S = {})
  BY <1>2, FS_CardinalityType, FS_EmptySet
<1> HIDE DEF u, f, N
<1>4. DOMAIN u = 1..N
  BY <1>1
<1>5. S = {} => u = <<>>
  BY <1>1, <1>3
<1>6. ASSUME S # {} PROVE u # <<>> /\ \E a \in S : u[1] = rs[a] /\ \A n \in S : a <= n
  <2>1. 1 \in DOMAIN u
    BY <1>3, <1>4, <1>6
  <2>2. f[1] \in S /\ u[1] = rs[f[1]]
    BY <1>1, <2>1 DEF Takes
  <2>3. ASSUME NEW n \in S PROVE f[1] <= n
    <3>1. PICK k \in DOMAIN u : f[k] = n
      BY <1>1 DEF Takes
    <3>2. k = 1 \/ 1 < k
      BY <1>4
    <3>3. 1 < k => f[1] < f[k]
      BY <1>1, <2>1
    <3>4. f[1] \in Int /\ n \in Int
      <4>1. S \subseteq Int
        OBVIOUS
      <4>2. QED
        BY <2>2, <4>1
    <3>5. QED
      BY <3>1, <3>2, <3>3, <3>4
  <2>4. u # <<>>
    BY <2>1
  <2>5. QED
    BY <2>2, <2>3, <2>4
<1>7. QED
  BY <1>5, <1>6 DEF u

(* The newest first: the runs in time order, from the end.                 *)
LEMMA NewestFirstIs ==
    ASSUME NEW rs \in Seq(GroupRun), Distinct(rs)
    PROVE  /\ NewestFirst(rs) \in Seq(GroupRun) /\ Len(NewestFirst(rs)) = Len(rs)
           /\ ToSet(NewestFirst(rs)) = ToSet(rs)
           /\ \A i, j \in DOMAIN NewestFirst(rs) :
                 i <= j => NewestFirst(rs)[j].t <= NewestFirst(rs)[i].t
<1> DEFINE p == ByTime(rs)
           q == NewestFirst(rs)
           L == Len(rs)
<1>1. p \in Seq(GroupRun) /\ Len(p) = L /\ ToSet(p) = ToSet(rs) /\ Climbs(p)
  BY SortedRuns
<1>2. q = [i \in 1..Len(p) |-> p[(Len(p) - i) + 1]]
  BY DEF NewestFirst, Reverse
<1>3. L \in Nat
  OBVIOUS
<1> HIDE DEF p, q, L
<1>4. DOMAIN p = 1..L /\ \A k \in 1..L : p[k] \in GroupRun /\ p[k].t \in Int
  <2>1. \A r \in GroupRun : r.t \in Int
    BY DEF GroupRun
  <2>2. QED
    BY <1>1, <2>1
<1>5. \A i \in 1..L : L - i + 1 \in 1..L /\ L - (L - i + 1) + 1 = i
  BY <1>3
<1>6. DOMAIN q = 1..L /\ \A i \in 1..L : q[i] = p[L - i + 1] /\ q[i] \in GroupRun
  BY <1>1, <1>2, <1>4, <1>5
<1>7. q \in Seq(GroupRun) /\ Len(q) = L
  <2>1. q \in [1..L -> GroupRun]
    BY <1>2, <1>1, <1>6
  <2>2. QED
    BY <1>3, <2>1, LenProperties, SeqDef
<1>8. ToSet(q) = ToSet(p)
  <2>1. \A i \in 1..L : p[i] = q[L - i + 1]
    BY <1>5, <1>6
  <2>2. QED
    BY <1>4, <1>5, <1>6, <2>1 DEF ToSet
<1>9. \A i, j \in DOMAIN q : i <= j => q[j].t <= q[i].t
  <2> SUFFICES ASSUME NEW i \in 1..L, NEW j \in 1..L, i <= j PROVE q[j].t <= q[i].t
    BY <1>6
  <2>1. q[i] = p[L - i + 1] /\ q[j] = p[L - j + 1] /\ L - i + 1 \in 1..L /\ L - j + 1 \in 1..L
    BY <1>5, <1>6
  <2>2. i = j \/ L - j + 1 < L - i + 1
    BY <1>3
  <2>3. L - j + 1 < L - i + 1 => p[L - j + 1].t < p[L - i + 1].t
    BY <1>1, <1>4, <2>1 DEF Climbs
  <2>4. p[L - j + 1].t \in Int /\ p[L - i + 1].t \in Int
    BY <1>4, <2>1
  <2>5. QED
    BY <2>1, <2>2, <2>3, <2>4
<1>10. QED
  BY <1>1, <1>7, <1>8, <1>9 DEF q, L

(* The last run is no earlier than any.                                    *)
LEMMA LastRuntimeIs ==
    ASSUME NEW rs \in Seq(GroupRun), Distinct(rs), NEW r \in ToSet(rs)
    PROVE  r.t <= NewestFirst(rs)[1].t
<1> DEFINE q == NewestFirst(rs)
<1>1. /\ q \in Seq(GroupRun) /\ ToSet(q) = ToSet(rs)
      /\ \A i, j \in DOMAIN q : i <= j => q[j].t <= q[i].t
  BY NewestFirstIs
<1> HIDE DEF q
<1>2. PICK n \in DOMAIN q : q[n] = r
  BY <1>1 DEF ToSet
<1>3. 1 \in DOMAIN q /\ 1 <= n
  BY <1>1
<1>4. QED
  BY <1>1, <1>2, <1>3 DEF q

(* The disk usage is that of the newest success that has one.              *)
LEMMA DiskIsOfNewest ==
    ASSUME NEW rs \in Seq(GroupRun), Distinct(rs), NEW S, S = Good(ToSet(rs))
    PROVE  IF \A r \in S : r.disk = 0 THEN RecentDiskUsage(rs) = NoData
           ELSE \E r \in S : /\ r.disk > 0 /\ RecentDiskUsage(rs) = r.disk
                             /\ \A q \in S : q.disk > 0 => q.t <= r.t
<1> DEFINE u == Succeeded(rs)
           q == NewestFirst(u)
           D == {n \in DOMAIN q : q[n].disk > 0}
           used == Kept(q, D)
<1>1. u \in Seq(GroupRun) /\ Distinct(u) /\ ToSet(u) = S
  BY SuccessesAre
<1> HIDE DEF u
<1>2. /\ q \in Seq(GroupRun) /\ ToSet(q) = S
      /\ \A i, j \in DOMAIN q : i <= j => q[j].t <= q[i].t
  BY <1>1, NewestFirstIs
<1> HIDE DEF q
<1>3. RecentDiskUsage(rs) = IF used = <<>> THEN NoData ELSE used[1].disk
  BY DEF RecentDiskUsage, WithDisk, u, q
<1>4. /\ D = {} => used = <<>>
      /\ D # {} => /\ used # <<>>
                   /\ \E a \in D : used[1] = q[a] /\ \A n \in D : a <= n
  <2>1. D \subseteq DOMAIN q
    OBVIOUS
  <2> HIDE DEF D
  <2>2. QED
    BY <1>2, <2>1, FirstKept
<1> HIDE DEF used
<1>5. S = {q[n] : n \in DOMAIN q}
  BY <1>2 DEF ToSet
<1>6. \A r \in S : r.disk \in Nat
  <2>1. \A r \in GroupRun : r.disk \in Nat
    BY DEF GroupRun
  <2>2. \A n \in DOMAIN q : q[n] \in GroupRun
    BY <1>2
  <2>3. QED
    BY <1>5, <2>1, <2>2
<1>7. CASE \A r \in S : r.disk = 0
  <2>1. D = {}
    BY <1>5, <1>7
  <2>2. QED
    BY <1>3, <1>4, <1>7, <2>1
<1>8. CASE ~ \A r \in S : r.disk = 0
  <2>1. D # {}
    BY <1>5, <1>6, <1>8
  <2>2. PICK a \in D : used[1] = q[a] /\ \A n \in D : a <= n
    BY <1>4, <2>1
  <2>3. a \in DOMAIN q /\ q[a] \in S /\ q[a].disk > 0 /\ RecentDiskUsage(rs) = q[a].disk
    BY <1>3, <1>4, <1>5, <2>1, <2>2
  <2>4. ASSUME NEW g \in S, g.disk > 0 PROVE g.t <= q[a].t
    <3>1. PICK n \in DOMAIN q : q[n] = g
      BY <1>5
    <3>2. n \in D
      BY <2>4, <3>1
    <3>3. a <= n
      BY <2>2, <3>2
    <3>4. QED
      BY <1>2, <2>3, <3>1, <3>3
  <2>5. QED
    BY <1>8, <2>3, <2>4
<1>9. QED
  BY <1>7, <1>8

(* A band lies between the values it averages.                             *)
LEMMA BandIs ==
    ASSUME NEW vs \in Seq(Nat), NEW i \in DOMAIN ConfidenceBands(vs)
    PROVE  LET m == ConfidenceBands(vs)[i].mean
           IN  /\ \E v \in ToSet(vs) : v * m[2] <= m[1]
               /\ \E v \in ToSet(vs) : v * m[2] >= m[1]
<1> DEFINE u == Averaged(vs, i)
           N == Len(u)
           total == SumFunctionOnSet(u, 1..N)
<1>1. DOMAIN ConfidenceBands(vs) = DOMAIN vs
  BY DEF ConfidenceBands
<1>2. i \in 1..Len(vs) /\ DOMAIN vs = 1..Len(vs)
  BY <1>1
<1>3. ConfidenceBands(vs)[i].mean = Mean(u)
  BY <1>1, <1>2 DEF ConfidenceBands
<1>4. /\ u \in Seq(Nat) /\ N \in Nat \ {0}
      /\ \A k \in 1..N : u[k] \in ToSet(vs)
  <2> DEFINE m == From(Len(vs), i)
             n == To(Len(vs), i)
  <2>1. /\ u \in Seq(Nat) /\ Len(u) = n - m /\ n - m \in Nat \ {0}
        /\ \A k \in 1..(n - m) : m + k \in 1..Len(vs) /\ u[k] = vs[m + k]
    BY <1>2, AveragedIs, Zenon
  <2> HIDE DEF m, n, u
  <2>2. QED
    BY <1>2, <2>1 DEF ToSet
<1> HIDE DEF u
<1>5. DOMAIN u = 1..N /\ \A k \in 1..N : u[k] \in Int
  BY <1>4
<1>6. Mean(u) = <<total, N>>
  BY <1>5 DEF Mean, Total, SumFunction
<1> HIDE DEF N
<1>7. IsFiniteSet(1..N) /\ Cardinality(1..N) = N /\ 1 \in 1..N
  BY <1>4, FS_Interval
<1>8. /\ \E k \in 1..N : u[k] * N <= total
      /\ \E k \in 1..N : total <= u[k] * N
  <2> DEFINE D == 1..N
  <2>1. IsFiniteSet(D) /\ D # {} /\ \A k \in D : u[k] \in Int
    BY <1>5, <1>7
  <2>2. Cardinality(D) = N /\ total = SumFunctionOnSet(u, D)
    BY <1>7
  <2> HIDE DEF D, total
  <2>3. /\ \E k \in D : u[k] * Cardinality(D) <= SumFunctionOnSet(u, D)
        /\ \E k \in D : SumFunctionOnSet(u, D) <= u[k] * Cardinality(D)
    BY <2>1, SumAverage, Zenon
  <2>4. QED
    BY <2>2, <2>3 DEF D
<1>9. total \in Int
  <2> DEFINE D == 1..N
  <2>1. IsFiniteSet(D) /\ \A k \in D : u[k] \in Int
    BY <1>5, <1>7
  <2> HIDE DEF D
  <2>2. SumFunctionOnSet(u, D) \in Int
    BY <2>1, SumType, Zenon
  <2>3. QED
    BY <2>2 DEF D
<1> HIDE DEF total
<1>10. PICK k \in 1..N, l \in 1..N : u[k] * N <= total /\ total <= u[l] * N
  BY <1>8
<1>11. /\ u[k] \in ToSet(vs) /\ u[k] * Mean(u)[2] <= Mean(u)[1]
       /\ u[l] \in ToSet(vs) /\ u[l] * Mean(u)[2] >= Mean(u)[1]
  <2>1. Mean(u)[1] = total /\ Mean(u)[2] = N
    BY <1>6
  <2>2. u[l] * N \in Int
    BY <1>4, <1>5
  <2>3. QED
    BY <1>4, <1>9, <1>10, <2>1, <2>2
<1>12. QED
  BY <1>3, <1>11

(* So does a band of a chart.                                              *)
LEMMA TrendedIs ==
    ASSUME NEW rs \in Seq(GroupRun), NEW field \in {"duration", "disk"},
           NEW i \in DOMAIN Trended(rs, field).bands
    PROVE  LET m == Trended(rs, field).bands[i].mean
               vs == Trended(rs, field).values
           IN  /\ \E v \in ToSet(vs) : v * m[2] <= m[1]
               /\ \E v \in ToSet(vs) : v * m[2] >= m[1]
<1> DEFINE p == OldestFirst(rs)
           vs == [n \in DOMAIN p |-> p[n][field]]
<1>1. p \in Seq(GroupRun)
  BY SortedRuns DEF OldestFirst
<1>2. /\ Trended(rs, field).values = vs
      /\ Trended(rs, field).bands = IF Len(p) >= 3 THEN ConfidenceBands(vs) ELSE <<>>
  BY DEF Trended
<1> HIDE DEF p
<1>3. vs \in Seq(Nat)
  <2>1. \A r \in GroupRun : r[field] \in Nat
    BY DEF GroupRun
  <2>2. DOMAIN p = 1..Len(p) /\ Len(p) \in Nat
    BY <1>1
  <2>3. \A n \in DOMAIN p : p[n][field] \in Nat
    BY <1>1, <2>1
  <2>4. vs \in [1..Len(p) -> Nat]
    BY <2>2, <2>3
  <2>5. QED
    BY <2>2, <2>4, SeqDef
<1> HIDE DEF vs
<1>4. Trended(rs, field).bands = ConfidenceBands(vs)
  <2>1. DOMAIN <<>> = {}
    OBVIOUS
  <2>2. QED
    BY <1>2, <2>1
<1>5. i \in DOMAIN ConfidenceBands(vs)
  BY <1>4
<1>6. LET m == ConfidenceBands(vs)[i].mean
      IN  /\ \E v \in ToSet(vs) : v * m[2] <= m[1]
          /\ \E v \in ToSet(vs) : v * m[2] >= m[1]
  BY <1>3, <1>5, BandIs, Zenon
<1>7. QED
  BY <1>2, <1>4, <1>6, Zenon

(* So does every band of the two charts of a group.                        *)
LEMMA BandsAre ==
    ASSUME NEW rs \in Seq(GroupRun), Distinct(rs), NEW c \in ChartsDrawn(rs),
           NEW i \in DOMAIN c.line.bands
    PROVE  LET m == c.line.bands[i].mean
           IN  /\ \E v \in ToSet(c.line.values) : v * m[2] <= m[1]
               /\ \E v \in ToSet(c.line.values) : v * m[2] >= m[1]
<1> DEFINE u == Succeeded(rs)
           D == {n \in DOMAIN u : u[n].disk > 0}
           w == WithDisk(u)
<1>1. u \in Seq(GroupRun)
  BY SuccessesAre
<1>2. w \in Seq(GroupRun)
  <2>1. D \subseteq DOMAIN u /\ w = Kept(u, D)
    BY DEF WithDisk
  <2> HIDE DEF D, w, u
  <2>2. QED
    BY <1>1, <2>1, KeptRuns
<1>3. c.line = Trended(u, "duration") \/ c.line = Trended(w, "disk")
  BY DEF ChartsDrawn, DurationChart, DiskChart
<1> HIDE DEF u, w
<1>4. CASE c.line = Trended(u, "duration")
  <2>1. i \in DOMAIN Trended(u, "duration").bands /\ "duration" \in {"duration", "disk"}
    BY <1>4
  <2>2. LET m == Trended(u, "duration").bands[i].mean
            vs == Trended(u, "duration").values
        IN  /\ \E v \in ToSet(vs) : v * m[2] <= m[1]
            /\ \E v \in ToSet(vs) : v * m[2] >= m[1]
    BY <1>1, <2>1, TrendedIs, Zenon
  <2>3. QED
    BY <1>4, <2>2, Zenon
<1>5. CASE c.line = Trended(w, "disk")
  <2>1. i \in DOMAIN Trended(w, "disk").bands /\ "disk" \in {"duration", "disk"}
    BY <1>5
  <2>2. LET m == Trended(w, "disk").bands[i].mean
            vs == Trended(w, "disk").values
        IN  /\ \E v \in ToSet(vs) : v * m[2] <= m[1]
            /\ \E v \in ToSet(vs) : v * m[2] >= m[1]
    BY <1>2, <2>1, TrendedIs, Zenon
  <2>3. QED
    BY <1>5, <2>2, Zenon
<1>6. QED
  BY <1>3, <1>4, <1>5

(* The runs of the group are the newest first, and each has its own time.  *)
GroupInv ==
    /\ group \in Seq(GroupRun)
    /\ \A n \in DOMAIN group : group[n].t = Len(group) + 1 - n
    /\ GroupTypeOK

(* A run that ends is the newest; the legends leave the runs alone.        *)
THEOREM GroupInvHolds == GroupStatsSpec => []GroupInv
<1>1. GroupInit => GroupInv
  BY GroupAssumption DEF GroupInit, GroupMounted, GroupInv, GroupTypeOK
<1>2. ASSUME GroupInv, RunEnds PROVE GroupInv'
  <2>1. PICK k \in RunKind :
            group' = <<[t |-> Len(group) + 1, status |-> k.status, duration |-> k.duration,
                        disk |-> k.disk]>> \o group
    BY <1>2 DEF RunEnds
  <2> DEFINE r == [t |-> Len(group) + 1, status |-> k.status, duration |-> k.duration,
                   disk |-> k.disk]
  <2>2. group \in Seq(GroupRun) /\ Len(group) \in Nat
    BY <1>2 DEF GroupInv
  <2>3. k \in [status : STRING, duration : Nat, disk : Nat]
    BY GroupAssumption
  <2>4. r \in GroupRun /\ r.t = Len(group) + 1 /\ [status |-> r.status, duration |-> r.duration, disk |-> r.disk] = k
    BY <2>2, <2>3 DEF GroupRun
  <2> HIDE DEF r
  <2>5. <<r>> \in Seq(GroupRun) /\ Len(<<r>>) = 1 /\ <<r>>[1] = r
    BY <2>4
  <2>6. /\ group' \in Seq(GroupRun) /\ Len(group') = 1 + Len(group)
        /\ \A n \in 1..(1 + Len(group)) :
              group'[n] = IF n <= 1 THEN r ELSE group[n - 1]
    BY <2>1, <2>2, <2>5, ConcatProperties DEF r
  <2>7. ASSUME NEW n \in DOMAIN group'
        PROVE  [status |-> group'[n].status, duration |-> group'[n].duration,
                disk |-> group'[n].disk] \in RunKind
    <3>1. n \in 1..(1 + Len(group))
      BY <2>6
    <3>2. CASE n = 1
      BY <2>4, <2>6, <3>1, <3>2
    <3>3. CASE n # 1
      <4>1. n - 1 \in DOMAIN group /\ group'[n] = group[n - 1]
        BY <2>2, <2>6, <3>1, <3>3
      <4>2. QED
        BY <1>2, <4>1 DEF GroupInv, GroupTypeOK
    <3>4. QED
      BY <3>2, <3>3
  <2>8. Len(group') <= MaxGroup /\ hidden' = hidden
    BY <1>2, <2>2, <2>6, GroupAssumption DEF RunEnds
  <2>9. ASSUME NEW n \in DOMAIN group' PROVE group'[n].t = Len(group') + 1 - n
    <3>1. n \in 1..(1 + Len(group))
      BY <2>6
    <3>2. CASE n = 1
      BY <2>2, <2>4, <2>6, <3>1, <3>2
    <3>3. CASE n # 1
      <4>1. n - 1 \in DOMAIN group /\ group'[n] = group[n - 1]
        BY <2>2, <2>6, <3>1, <3>3
      <4>2. group[n - 1].t = Len(group) + 1 - (n - 1)
        BY <1>2, <4>1 DEF GroupInv
      <4>3. QED
        BY <2>2, <2>6, <3>1, <4>1, <4>2
    <3>4. QED
      BY <3>2, <3>3
  <2>10. QED
    BY <1>2, <2>6, <2>7, <2>8, <2>9 DEF GroupInv, GroupTypeOK
<1>3. ASSUME GroupInv, NEW l \in Lines, HandleLegendClick(l[1], l[2]) PROVE GroupInv'
  <2>1. hidden' = SymDiff(hidden, {<<l[1], l[2]>>}) /\ group' = group
    BY <1>3 DEF HandleLegendClick
  <2>2. <<l[1], l[2]>> \in Lines
    BY DEF Lines
  <2>3. hidden' \subseteq Lines
    BY <1>3, <2>1, <2>2 DEF SymDiff, GroupInv, GroupTypeOK
  <2>4. QED
    BY <1>3, <2>1, <2>3 DEF GroupInv, GroupTypeOK
<1>4. GroupInv /\ UNCHANGED groupVars => GroupInv'
  BY DEF GroupInv, GroupTypeOK, groupVars
<1>5. GroupInv /\ [GroupNext]_groupVars => GroupInv'
  BY <1>2, <1>3, <1>4 DEF GroupNext
<1>6. QED
  BY <1>1, <1>5, PTL DEF GroupStatsSpec

(* The runs of a group are of the kinds there are, and only its lines can  *)
(* be hidden.                                                              *)
THEOREM GroupTypeOKHolds == GroupStatsSpec => []GroupTypeOK
<1>1. GroupInv => GroupTypeOK
  BY DEF GroupInv
<1>2. QED
  BY <1>1, GroupInvHolds, PTL

(* Everything the group shows follows from its runs.                       *)
LEMMA GroupInvShows == GroupInv => GroupShowsSuccesses
<1> SUFFICES ASSUME GroupInv PROVE GroupShowsSuccesses
  OBVIOUS
<1>1. group \in Seq(GroupRun)
  BY DEF GroupInv
<1>2. Distinct(group)
  <2>1. Len(group) \in Nat /\ DOMAIN group = 1..Len(group)
    BY <1>1
  <2>2. \A n \in 1..Len(group) : group[n].t = Len(group) + 1 - n
    BY <2>1 DEF GroupInv
  <2> DEFINE L == Len(group)
  <2> HIDE DEF L
  <2>3. \A i, j \in 1..L : L + 1 - i = L + 1 - j => i = j
    BY <2>1 DEF L
  <2>4. QED
    BY <2>1, <2>2, <2>3 DEF Distinct, L
<1> DEFINE all == ToSet(group)
           good == Good(all)
           timed == WithTime(good)
           n == IF Cardinality(timed) < 3 THEN 2
                ELSE MovingAverageWindow(Cardinality(timed)) \div 2 + 1
           of == Latest(timed, n)
           stats == ClientGroupStats(group)
<1>3. /\ TrendDuration(group) = IF timed = {} THEN NoData ELSE <<DurationOf(of), Cardinality(of)>>
      /\ IF \A r \in good : r.disk = 0 THEN RecentDiskUsage(group) = NoData
         ELSE \E r \in good : /\ r.disk > 0 /\ RecentDiskUsage(group) = r.disk
                              /\ \A q \in good : q.disk > 0 => q.t <= r.t
  <2> HIDE DEF all, good, timed, n, of
  <2>1. timed = WithTime(Good(ToSet(group))) /\ good = Good(ToSet(group))
    BY DEF all, good, timed
  <2>2. n = IF Cardinality(timed) < 3 THEN 2
            ELSE MovingAverageWindow(Cardinality(timed)) \div 2 + 1
    BY DEF n
  <2>3. TrendDuration(group) = IF timed = {} THEN NoData ELSE <<DurationOf(of), Cardinality(of)>>
    BY <1>1, <1>2, <2>1, <2>2, TrendIs, Zenon DEF of
  <2>4. IF \A r \in good : r.disk = 0 THEN RecentDiskUsage(group) = NoData
        ELSE \E r \in good : /\ r.disk > 0 /\ RecentDiskUsage(group) = r.disk
                             /\ \A q \in good : q.disk > 0 => q.t <= r.t
    BY <1>1, <1>2, <2>1, DiskIsOfNewest, Zenon
  <2>5. QED
    BY <2>3, <2>4
<1>4. group # <<>> => \A r \in all : r.t <= NewestFirst(group)[1].t
  BY <1>1, <1>2, LastRuntimeIs
<1>5. CASE group # <<>>
  <2>1. /\ stats.duration = TrendDuration(group) /\ stats.disk = RecentDiskUsage(group)
        /\ stats.lastRuntime = NewestFirst(group)[1].t
    BY <1>5 DEF ClientGroupStats
  <2> HIDE DEF stats, n, of, timed, good, all
  <2>2. /\ stats.duration = IF timed = {} THEN NoData ELSE <<DurationOf(of), Cardinality(of)>>
        /\ IF \A r \in good : r.disk = 0 THEN stats.disk = NoData
           ELSE \E r \in good : /\ r.disk > 0 /\ stats.disk = r.disk
                                /\ \A q \in good : q.disk > 0 => q.t <= r.t
        /\ group # <<>> => \A r \in all : r.t <= stats.lastRuntime
    BY <1>3, <1>4, <2>1, Zenon
  <2>3. \A c \in ChartsDrawn(group) : \A i \in DOMAIN c.line.bands :
              LET m == c.line.bands[i].mean
              IN  /\ \E v \in ToSet(c.line.values) : v * m[2] <= m[1]
                  /\ \E v \in ToSet(c.line.values) : v * m[2] >= m[1]
    BY <1>1, <1>2, BandsAre, Zenon
  <2>4. QED
    BY <2>2, <2>3, Zenon DEF GroupShowsSuccesses, stats, n, of, timed, good, all,
       Latest, DurationOf, Good, WithTime
<1>6. CASE group = <<>>
  <2>1. all = {}
    BY <1>6 DEF ToSet
  <2>2. good = {} /\ timed = {}
    BY <2>1 DEF Good, WithTime
  <2>3. stats.duration = NoData /\ stats.disk = NoData
    BY <1>6 DEF ClientGroupStats
  <2> HIDE DEF stats, n, of, timed, good, all
  <2>4. /\ stats.duration = IF timed = {} THEN NoData ELSE <<DurationOf(of), Cardinality(of)>>
        /\ IF \A r \in good : r.disk = 0 THEN stats.disk = NoData
           ELSE \E r \in good : /\ r.disk > 0 /\ stats.disk = r.disk
                                /\ \A q \in good : q.disk > 0 => q.t <= r.t
        /\ group # <<>> => \A r \in all : r.t <= stats.lastRuntime
    BY <1>6, <2>2, <2>3
  <2>5. \A c \in ChartsDrawn(group) : \A i \in DOMAIN c.line.bands :
              LET m == c.line.bands[i].mean
              IN  /\ \E v \in ToSet(c.line.values) : v * m[2] <= m[1]
                  /\ \E v \in ToSet(c.line.values) : v * m[2] >= m[1]
    BY <1>1, <1>2, BandsAre, Zenon
  <2>6. QED
    BY <2>4, <2>5, Zenon DEF GroupShowsSuccesses, stats, n, of, timed, good, all,
       Latest, DurationOf, Good, WithTime
<1>7. QED
  BY <1>5, <1>6

(* The cards and bands of a group are about its latest successes, for any  *)
(* runs and however many of them.                                          *)
THEOREM GroupShowsSuccessesHolds == GroupStatsSpec => []GroupShowsSuccesses
BY GroupInvHolds, GroupInvShows, PTL

-----------------------------------------------------------------------------
(* The pages about finished tests. *)

QueryData == [data : SUBSET Report, loaded : BOOLEAN, fetching : BOOLEAN]
CacheOK(c) == \A k \in DOMAIN c : c[k] \in QueryData

(* The state of a page: of the list what pages it, else that it is there.  *)
ViewOK(v) ==
    \/ v \in [at : {"list"}, filter : {v.filter}, page : Nat \ {0}, limit : Limit,
              sortBy : Column, ascending : BOOLEAN]
    \/ v \in [at : {"dashboard"}, url : {v.url}, dir : {v.dir}, networks : {v.networks},
              clients : {v.clients}]
    \/ v \in [at : {"details"}, dir : {v.dir}, id : {v.id}]

(* Unless answers overtook each other, the dump of the test on the page is *)
(* the last asked about, or the one described.                             *)
Follows(T, info0, asked) ==
    T # {} => IF asked = <<>> THEN info0 = T ELSE T = {asked[Len(asked)]}
DumpFollows == ~overtaken => Follows(TestReport(cache, view), dumpInfo, dumpAsked)

ReportInv ==
    /\ published \subseteq Report /\ clicks \in 0..MaxClicks
    /\ CacheOK(cache) /\ ViewOK(view)
    /\ dumpAsked \in Seq(Report)
    /\ dumpInfo = {} \/ \E r \in Report : dumpInfo = {r}
    /\ DumpFollows

LEMMA SetToSeqType ==
    ASSUME NEW S, IsFiniteSet(S)
    PROVE  SetToSeq(S) \in [1..Cardinality(S) -> S]
<1>1. ExistsBijection(1..Cardinality(S), S)
  BY FS_CardinalityType, Zenon
<1>2. PICK f \in Bijection(1..Cardinality(S), S) : TRUE
  BY <1>1 DEF ExistsBijection
<1>3. f \in [1..Cardinality(S) -> S] /\ IsInjective(f)
  BY <1>2 DEF Bijection, Injection, IsInjective
<1>4. QED
  BY <1>3 DEF SetToSeq

LEMMA SetToSeqSmall ==
    /\ SetToSeq({}) = <<>>
    /\ \A r : SetToSeq({r}) = <<r>>
<1>1. SetToSeq({}) = <<>>
  <2>1. IsFiniteSet({}) /\ Cardinality({}) = 0
    BY FS_EmptySet
  <2>2. SetToSeq({}) \in [1..0 -> {}]
    BY <2>1, SetToSeqType
  <2>3. QED
    BY <2>2
<1>2. ASSUME NEW r PROVE SetToSeq({r}) = <<r>>
  <2>1. IsFiniteSet({r}) /\ Cardinality({r}) = 1
    BY FS_Singleton
  <2>2. SetToSeq({r}) \in [1..1 -> {r}]
    BY <2>1, SetToSeqType
  <2>3. QED
    BY <2>2
<1>3. QED
  BY <1>1, <1>2

(* What a page gets of the cache are reports, and of its test at most one. *)
LEMMA ReportsType ==
    ASSUME NEW c, CacheOK(c), NEW v
    PROVE  Reports(c, v) \subseteq Report
BY DEF CacheOK, QueryData, Reports, CachedQuery, NewQuery

LEMMA TestReportIs ==
    ASSUME NEW c, CacheOK(c), NEW v
    PROVE  TestReport(c, v) = {} \/ \E r \in Report : TestReport(c, v) = {r}
<1>1. Reports(c, v) \subseteq Report
  BY ReportsType
<1>2. \A r, s \in TestReport(c, v) : r \in Report /\ s \in Report /\ r = s
  BY <1>1, ReportAssumption DEF TestReport
<1>3. QED
  BY <1>2

LEMMA AskedOK ==
    ASSUME NEW c, CacheOK(c), NEW k, NEW d \in Asked(c, k)
    PROVE  CacheOK(d)
<1> DEFINE q == [CachedQuery(c, k) EXCEPT !.fetching = TRUE]
<1>1. CachedQuery(c, k) \in QueryData
  BY DEF CacheOK, CachedQuery, NewQuery, QueryData
<1>2. q \in QueryData
  BY <1>1 DEF QueryData
<1> HIDE DEF q
<1>3. CacheOK(Put(c, k, q))
  BY <1>2 DEF CacheOK, Put
<1>4. d \in {c, Put(c, k, q)}
  BY DEF Asked, q
<1>5. QED
  BY <1>3, <1>4

(* Tests of the next state, when the configuration stays.                  *)
LEMMA NextTestReport ==
    ASSUME UNCHANGED config
    PROVE  TestReport(cache, view)' = TestReport(cache', view')
BY DEF TestReport, Ready, Reports, Configured, Key, CachedQuery, NewQuery

LEMMA DefaultedOK ==
    ASSUME NEW v, ViewOK(v), NEW data
    PROVE  /\ ViewOK(Defaulted(v, data)) /\ Defaulted(v, data).at = v.at
           /\ v.at # "dashboard" => Defaulted(v, data) = v
<1> DEFINE d == Directories(data)[1]
           n == NetworksOf(data, d)[1]
           w == [v EXCEPT !.dir = d, !.networks = [e \in Dir |-> IF e = d THEN n ELSE All],
                          !.url = [NoDirectories EXCEPT !.dir = d, !.network = n]]
<1>1. CASE Defaulted(v, data) = v
  BY <1>1
<1>2. CASE Defaulted(v, data) = w /\ v.at = "dashboard"
  <2>1. v \in [at : {"dashboard"}, url : {v.url}, dir : {v.dir}, networks : {v.networks},
               clients : {v.clients}]
    BY <1>2 DEF ViewOK
  <2>2. w \in [at : {"dashboard"}, url : {w.url}, dir : {w.dir}, networks : {w.networks},
               clients : {w.clients}]
    BY <2>1
  <2> HIDE DEF w
  <2>3. w.at = "dashboard" /\ ViewOK(w)
    BY <2>2 DEF ViewOK
  <2>4. QED
    BY <1>2, <2>3
<1>3. QED
  BY <1>1, <1>2 DEF Defaulted

(* A commit asks about the dump of the report it brings.                   *)
LEMMA CommitReportsKeeps ==
    ASSUME ReportInv, UNCHANGED <<config, published>>, clicks' \in 0..MaxClicks,
           NEW c, CacheOK(c), NEW v, ViewOK(v), CommitReports(c, v)
    PROVE  /\ ReportInv' /\ cache' = c /\ view'.at = v.at
           /\ v.at # "dashboard" => view' = v
<1> DEFINE was == TestReport(cache, view)
           now == TestReport(c, v)
<1>1. /\ cache' = c
      /\ view' = IF Ready(c, v) THEN Defaulted(v, Reports(c, v)) ELSE v
  BY DEF CommitReports
<1>2. ViewOK(view') /\ view'.at = v.at /\ (v.at # "dashboard" => view' = v)
  BY <1>1, DefaultedOK
<1>3. TestReport(cache, view)' = now
  <2>1. TestReport(cache, view)' = TestReport(c, view')
    BY <1>1, NextTestReport
  <2>2. CASE v.at = "details"
    BY <1>2, <2>1, <2>2
  <2>3. CASE v.at # "details"
    BY <1>2, <2>1, <2>3 DEF TestReport
  <2>4. QED
    BY <2>2, <2>3
<1>4. /\ now = {} \/ \E r \in Report : now = {r}
      /\ was = {} \/ \E r \in Report : was = {r}
  BY TestReportIs DEF ReportInv
<1>5. dumpAsked \in Seq(Report)
  BY DEF ReportInv
<1>6. CASE v.at = "details" /\ view.at = "details"
  <2>1. dumpAsked' = dumpAsked \o DumpToAsk(was, now) /\ UNCHANGED <<dumpInfo, overtaken>>
    BY <1>6 DEF CommitReports
  <2> HIDE DEF was, now
  <2>2. CASE now = was \/ now = {}
    <3>1. DumpToAsk(was, now) = <<>>
      BY <2>2, SetToSeqSmall DEF DumpToAsk
    <3>2. dumpAsked' = dumpAsked
      BY <1>5, <2>1, <3>1
    <3>3. ~overtaken => Follows(now, dumpInfo', dumpAsked')
      BY <2>1, <2>2, <3>2 DEF ReportInv, DumpFollows, Follows, was
    <3>4. QED
      BY <1>1, <1>2, <1>3, <1>5, <2>1, <3>2, <3>3 DEF ReportInv, DumpFollows, now
  <2>3. CASE now # was /\ now # {}
    <3>1. PICK r \in Report : now = {r}
      BY <1>4, <2>3
    <3>2. DumpToAsk(was, now) = <<r>>
      BY <2>3, <3>1, SetToSeqSmall DEF DumpToAsk
    <3>3. /\ dumpAsked' \in Seq(Report) /\ dumpAsked' # <<>>
          /\ dumpAsked'[Len(dumpAsked')] = r
      <4>1. dumpAsked' = dumpAsked \o <<r>> /\ <<r>> \in Seq(Report) /\ Len(<<r>>) = 1
        BY <2>1, <3>2
      <4>2. /\ dumpAsked' \in Seq(Report) /\ Len(dumpAsked') = Len(dumpAsked) + 1
            /\ dumpAsked'[Len(dumpAsked) + 1] = <<r>>[1]
        BY <1>5, <4>1, ConcatProperties
      <4>3. Len(dumpAsked) \in Nat
        BY <1>5
      <4>4. QED
        BY <4>2, <4>3
    <3>4. Follows(now, dumpInfo', dumpAsked')
      BY <3>1, <3>3 DEF Follows
    <3>5. DumpFollows'
      BY <1>3, <3>4 DEF DumpFollows, now
    <3>6. QED
      BY <1>1, <1>2, <2>1, <3>3, <3>5 DEF ReportInv
  <2>4. QED
    BY <2>2, <2>3
<1>7. CASE ~(v.at = "details" /\ view.at = "details")
  <2>1. dumpAsked' = SetToSeq(now) /\ dumpInfo' = {} /\ overtaken' = FALSE
    BY <1>7 DEF CommitReports
  <2> HIDE DEF now
  <2>2. dumpAsked' \in Seq(Report) /\ Follows(now, dumpInfo', dumpAsked')
    <3>1. CASE now = {}
      <4>1. dumpAsked' = <<>>
        BY <2>1, <3>1, SetToSeqSmall, Zenon
      <4>2. QED
        BY <3>1, <4>1 DEF Follows
    <3>2. ASSUME NEW r \in Report, now = {r}
          PROVE  dumpAsked' \in Seq(Report) /\ Follows(now, dumpInfo', dumpAsked')
      <4>1. dumpAsked' = <<r>>
        BY <2>1, <3>2, SetToSeqSmall, Zenon
      <4>2. Len(<<r>>) = 1 /\ <<r>> # <<>> /\ <<r>> \in Seq(Report) /\ <<r>>[1] = r
        OBVIOUS
      <4>3. QED
        BY <3>2, <4>1, <4>2 DEF Follows
    <3>3. QED
      <4>1. now = {} \/ \E r \in Report : now = {r}
        BY <1>4 DEF now
      <4>2. QED
        BY <3>1, <3>2, <4>1
  <2>3. QED
    BY <1>1, <1>2, <1>3, <2>1, <2>2 DEF ReportInv, DumpFollows, now
<1>8. QED
  BY <1>1, <1>2, <1>6, <1>7

LEMMA ShowKeeps ==
    ASSUME ReportInv, NEW v, ViewOK(v), Show(v)
    PROVE  /\ ReportInv' /\ UNCHANGED config /\ view'.at = v.at
           /\ v.at # "dashboard" => view' = v
<1>1. /\ clicks < MaxClicks /\ clicks' = clicks + 1 /\ UNCHANGED <<published, config>>
      /\ \E c \in IF v.at # view.at \/ Key(v) # Key(view) THEN Asked(cache, Key(v)) ELSE {cache} :
            CommitReports(c, v)
  BY DEF Show
<1>2. PICK c : CacheOK(c) /\ CommitReports(c, v)
  BY <1>1, AskedOK DEF ReportInv
<1>3. clicks' \in 0..MaxClicks
  BY <1>1, ReportAssumption DEF ReportInv
<1>4. QED
  BY <1>1, <1>2, <1>3, CommitReportsKeeps

(* The pages there are.                                                    *)
LEMMA PagesOK ==
    /\ \A f : ViewOK(ListOf(f)) /\ ListOf(f).at = "list"
    /\ \A address : ViewOK(DashboardOf(address)) /\ DashboardOf(address).at = "dashboard"
    /\ \A d, id : ViewOK(DetailsOf(d, id)) /\ DetailsOf(d, id).at = "details"
BY ReportAssumption DEF ViewOK, ListOf, DashboardOf, DetailsOf

(* A tab that was just opened shows no test yet.                           *)
LEMMA MountedInv ==
    ASSUME NEW v, ViewOK(v), ReportMounted(v), published \subseteq Report
    PROVE  ReportInv
<1> DEFINE k == Key(v)
           q == [NewQuery EXCEPT !.fetching = TRUE]
<1>1. /\ view = v /\ clicks = 0 /\ dumpInfo = {} /\ dumpAsked = <<>> /\ overtaken = FALSE
      /\ cache \in Asked(<<>>, k)
  BY DEF ReportMounted
<1>2. DOMAIN <<>> = {} /\ CacheOK(<<>>)
  BY DEF CacheOK
<1>3. CacheOK(cache)
  BY <1>1, <1>2, AskedOK
<1>4. cache = <<>> \/ cache = Put(<<>>, k, q)
  BY <1>1, <1>2 DEF Asked, CachedQuery
<1>5. CachedQuery(cache, k) = NewQuery \/ CachedQuery(cache, k) = q
  BY <1>2, <1>4 DEF CachedQuery, Put
<1>6. TestReport(cache, view) = {}
  <2>1. CASE CachedQuery(cache, k) = NewQuery
    BY <1>1, <2>1 DEF TestReport, Reports, NewQuery
  <2>2. CASE CachedQuery(cache, k) = q
    BY <1>1, <2>2 DEF TestReport, Ready, NewQuery
  <2>3. QED
    BY <1>5, <2>1, <2>2
<1>7. DumpFollows
  BY <1>6 DEF DumpFollows, Follows
<1>8. QED
  BY <1>1, <1>3, <1>7, ReportAssumption DEF ReportInv

LEMMA ReportInvInit == ReportInit => ReportInv
<1> SUFFICES ASSUME ReportInit PROVE ReportInv
  OBVIOUS
<1>1. PICK v : v \in FirstView /\ ReportMounted(v)
  BY DEF ReportInit
<1>2. \/ \E f : v = ListOf(f)
      \/ \E address : v = DashboardOf(address)
      \/ \E d, id : v = DetailsOf(d, id)
  BY <1>1, Zenon DEF FirstView
<1>3. ViewOK(v)
  BY <1>2, PagesOK, Zenon
<1>4. QED
  BY <1>1, <1>3, MountedInv DEF ReportInit

(* What leaves the test of the page as it was, or takes it away.           *)
LEMMA DumpStands ==
    ASSUME DumpFollows, UNCHANGED <<config, view, dumpInfo, dumpAsked, overtaken>>,
           \/ TestReport(cache', view) = TestReport(cache, view)
           \/ TestReport(cache', view) = {}
    PROVE  DumpFollows'
<1>1. TestReport(cache, view)' = TestReport(cache', view)
  BY NextTestReport
<1>2. QED
  BY <1>1 DEF DumpFollows, Follows

LEMMA PublishKeeps == ReportInv /\ Publish => ReportInv'
<1> SUFFICES ASSUME ReportInv, Publish PROVE ReportInv'
  OBVIOUS
<1>1. /\ UNCHANGED <<config, cache, view, clicks, dumpInfo, dumpAsked, overtaken>>
      /\ published' \subseteq Report
  BY DEF Publish, ReportInv
<1>2. DumpFollows'
  BY <1>1, DumpStands DEF ReportInv
<1>3. QED
  BY <1>1, <1>2 DEF ReportInv, CacheOK, ViewOK

LEMMA FetchedKeeps ==
    ASSUME ReportInv, NEW k \in DOMAIN cache, ReportsFetched(k)
    PROVE  ReportInv'
<1>1. PICK outcome \in [k.dirs -> IndexOutcomes] :
         LET read == {r \in published : r.dir \in k.dirs /\ outcome[r.dir] = "listed"}
         IN  CommitReports([cache EXCEPT ![k] = [data |-> Newest(k.limit, read), loaded |-> TRUE,
                                           fetching |-> FALSE]], view)
  BY DEF ReportsFetched
<1> DEFINE read == {r \in published : r.dir \in k.dirs /\ outcome[r.dir] = "listed"}
           q == [data |-> Newest(k.limit, read), loaded |-> TRUE, fetching |-> FALSE]
           c == [cache EXCEPT ![k] = q]
<1>2. q \in QueryData
  BY DEF QueryData, Newest, ReportInv
<1> HIDE DEF q
<1>3. CacheOK(c)
  BY <1>2 DEF CacheOK, ReportInv
<1>4. CommitReports(c, view)
  BY <1>1 DEF q
<1>5. UNCHANGED <<published, config, clicks>>
  BY DEF ReportsFetched
<1> HIDE DEF c
<1>6. QED
  BY <1>3, <1>4, <1>5, CommitReportsKeeps DEF ReportInv

LEMMA CollectKeeps ==
    ASSUME ReportInv, NEW k \in DOMAIN cache, Collect(k)
    PROVE  ReportInv'
<1>1. /\ k # Key(view) /\ cache' = [l \in DOMAIN cache \ {k} |-> cache[l]]
      /\ UNCHANGED <<published, config, view, clicks, dumpInfo, dumpAsked, overtaken>>
  BY DEF Collect
<1>2. CachedQuery(cache', Key(view)) = CachedQuery(cache, Key(view))
  BY <1>1 DEF CachedQuery
<1>3. TestReport(cache', view) = TestReport(cache, view)
  BY <1>2 DEF TestReport, Ready, Reports
<1>4. DumpFollows'
  BY <1>1, <1>3, DumpStands DEF ReportInv
<1>5. CacheOK(cache')
  BY <1>1 DEF ReportInv, CacheOK
<1>6. QED
  BY <1>1, <1>4, <1>5 DEF ReportInv, CacheOK, ViewOK

LEMMA ReconnectKeeps == ReportInv /\ Reconnect => ReportInv'
<1> SUFFICES ASSUME ReportInv, Reconnect PROVE ReportInv'
  OBVIOUS
<1> DEFINE k == Key(view)
           q == CachedQuery(cache, k)
           p == [q EXCEPT !.fetching = TRUE]
<1>1. /\ cache' \in Asked(cache, k) \ {cache}
      /\ UNCHANGED <<published, config, view, clicks, dumpInfo, dumpAsked, overtaken>>
  BY DEF Reconnect
<1>2. cache' = Put(cache, k, p)
  BY <1>1 DEF Asked
<1>3. CachedQuery(cache', k) = p
  BY <1>2 DEF CachedQuery, Put
<1>4. q \in QueryData
  BY DEF ReportInv, CacheOK, CachedQuery, NewQuery, QueryData
<1>5. p.data = q.data /\ p.loaded = q.loaded /\ p.fetching = TRUE
  BY <1>4 DEF QueryData
<1>6. TestReport(cache', view) = TestReport(cache, view) \/ TestReport(cache', view) = {}
  BY <1>3, <1>5 DEF TestReport, Ready, Reports
<1>7. DumpFollows'
  BY <1>1, <1>6, DumpStands DEF ReportInv
<1>8. CacheOK(cache')
  BY <1>1, AskedOK DEF ReportInv
<1>9. QED
  BY <1>1, <1>7, <1>8 DEF ReportInv, CacheOK, ViewOK

LEMMA RemoveAtIs ==
    ASSUME NEW S, NEW s \in Seq(S), NEW n \in DOMAIN s
    PROVE  /\ RemoveAt(s, n) \in Seq(S) /\ Len(RemoveAt(s, n)) = Len(s) - 1
           /\ n = 1 => \A i \in 1..(Len(s) - 1) : RemoveAt(s, n)[i] = s[i + 1]
<1> DEFINE a == SubSeq(s, 1, n - 1)
           b == SubSeq(s, n + 1, Len(s))
<1>1. n \in 1..Len(s) /\ Len(s) \in Nat
  OBVIOUS
<1>2. /\ a \in Seq(S) /\ Len(a) = n - 1
      /\ b \in Seq(S) /\ Len(b) = Len(s) - n
      /\ \A i \in 1..(Len(s) - n) : b[i] = s[i + n]
  BY <1>1, SubSeqProperties
<1> HIDE DEF a, b
<1>3. RemoveAt(s, n) = a \o b
  BY DEF RemoveAt, a, b
<1>4. /\ a \o b \in Seq(S) /\ Len(a \o b) = Len(a) + Len(b)
      /\ \A i \in 1..(Len(a) + Len(b)) : (a \o b)[i] = IF i <= Len(a) THEN a[i] ELSE b[i - Len(a)]
  BY <1>2, ConcatProperties
<1>5. Len(a \o b) = Len(s) - 1
  BY <1>1, <1>2, <1>4
<1>6. ASSUME n = 1, NEW i \in 1..(Len(s) - 1) PROVE (a \o b)[i] = s[i + 1]
  <2>1. i \in 1..(Len(a) + Len(b)) /\ ~(i <= Len(a)) /\ i - Len(a) = i
    BY <1>1, <1>2, <1>6
  <2>2. (a \o b)[i] = b[i]
    BY <1>4, <2>1
  <2>3. QED
    BY <1>2, <1>6, <2>2
<1>7. QED
  BY <1>3, <1>4, <1>5, <1>6

LEMMA DumpAnswerKeeps ==
    ASSUME ReportInv, NEW n \in DOMAIN dumpAsked, DumpAnswer(n)
    PROVE  ReportInv'
<1>1. /\ dumpInfo' = {dumpAsked[n]} /\ dumpAsked' = RemoveAt(dumpAsked, n)
      /\ overtaken' = (overtaken \/ n > 1)
      /\ UNCHANGED <<published, config, cache, view, clicks>>
  BY DEF DumpAnswer
<1>2. dumpAsked \in Seq(Report) /\ Len(dumpAsked) \in Nat /\ n \in 1..Len(dumpAsked)
  BY DEF ReportInv
<1>3. /\ dumpAsked' \in Seq(Report) /\ Len(dumpAsked') = Len(dumpAsked) - 1
      /\ n = 1 => \A i \in 1..(Len(dumpAsked) - 1) : dumpAsked'[i] = dumpAsked[i + 1]
  BY <1>1, <1>2, RemoveAtIs
<1>4. TestReport(cache, view)' = TestReport(cache, view)
  BY <1>1, NextTestReport
<1>5. ASSUME ~overtaken' PROVE Follows(TestReport(cache, view), dumpInfo', dumpAsked')
  <2>1. n = 1 /\ ~overtaken
    <3>1. ~(overtaken \/ n > 1)
      BY <1>1, <1>5, Zenon
    <3>2. ~overtaken /\ ~(n > 1)
      BY <3>1, Zenon
    <3>3. n = 1
      BY <1>2, <3>2
    <3>4. QED
      BY <3>2, <3>3, Zenon
  <2>2. dumpAsked # <<>>
    BY <1>2
  <2>3. SUFFICES ASSUME TestReport(cache, view) # {}
                 PROVE  IF dumpAsked' = <<>> THEN dumpInfo' = TestReport(cache, view)
                        ELSE TestReport(cache, view) = {dumpAsked'[Len(dumpAsked')]}
    BY DEF Follows
  <2>4. TestReport(cache, view) = {dumpAsked[Len(dumpAsked)]}
    BY <2>1, <2>2, <2>3 DEF ReportInv, DumpFollows, Follows
  <2>5. CASE Len(dumpAsked) = 1
    BY <1>1, <1>3, <2>1, <2>4, <2>5
  <2>6. CASE Len(dumpAsked) # 1
    <3>0. \A l \in Nat : l # 1 /\ n \in 1..l /\ n = 1 => l - 1 \in 1..(l - 1) /\ (l - 1) + 1 = l
      OBVIOUS
    <3>1. /\ Len(dumpAsked) - 1 \in 1..(Len(dumpAsked) - 1)
          /\ (Len(dumpAsked) - 1) + 1 = Len(dumpAsked)
      BY <1>2, <2>1, <2>6, <3>0
    <3>2. dumpAsked' # <<>> /\ dumpAsked'[Len(dumpAsked')] = dumpAsked[Len(dumpAsked)]
      BY <1>3, <2>1, <2>6, <3>1
    <3>3. QED
      BY <2>4, <3>2
  <2>7. QED
    BY <2>5, <2>6
<1>6. DumpFollows'
  BY <1>4, <1>5 DEF DumpFollows
<1>7. dumpAsked[n] \in Report
  BY <1>2
<1>8. QED
  BY <1>1, <1>3, <1>6, <1>7 DEF ReportInv, CacheOK, ViewOK

-----------------------------------------------------------------------------
(* The pages of the list.                                                  *)

LEMMA PageArithmetic ==
    ASSUME NEW a \in Nat \ {0}, NEW b \in Nat, NEW d \in Nat \ {0}
    PROVE  /\ (a - 1) * d \in Nat /\ a * d = (a - 1) * d + d
           /\ a <= b => (a - 1) * d + d <= b * d
           /\ b < a => b * d <= (a - 1) * d
<1>1. (a - 1) * d \in Nat /\ a * d = (a - 1) * d + d
  OBVIOUS
<1>2. \A x, y \in Nat : x <= y => x * d <= y * d
  <2> SUFFICES ASSUME NEW x \in Nat, NEW y \in Nat, x <= y PROVE x * d <= y * d
    OBVIOUS
  <2>1. (y - x) * d \in Nat /\ y * d = x * d + (y - x) * d
    OBVIOUS
  <2>2. x * d \in Nat /\ y * d \in Nat
    OBVIOUS
  <2>3. QED
    BY <2>1, <2>2
<1>3. a <= b => a * d <= b * d
  BY <1>2
<1>4. b < a => b * d <= (a - 1) * d
  BY <1>2
<1>5. QED
  BY <1>1, <1>3, <1>4

(* A page has rows if those of the pages before it leave some.             *)
LEMMA PageHasRows ==
    ASSUME NEW v, v.page \in Nat \ {0}, v.limit \in Nat \ {0}, v.sortBy \in Column,
           NEW data \in SUBSET Report
    PROVE  /\ Cardinality(Found(v, data)) \in Nat
           /\ Found(v, data) = {} <=> Cardinality(Found(v, data)) = 0
           /\ PageRows(v, data) # {} <=> (v.page - 1) * v.limit < Cardinality(Found(v, data))
<1> DEFINE F == Found(v, data)
           R == {p \in F \X F : Before(v, p[1], p[2])}
           N == Cardinality(F)
           first == (v.page - 1) * v.limit
<1>1. F \in SUBSET Report
  BY DEF Found
<1>2. IsFiniteSet(F)
  BY <1>1, FS_Subset, ReportAssumption, Zenon
<1>3. \A x, y \in F : /\ x.id \in Nat /\ y.id \in Nat /\ (x.id = y.id => x = y)
                      /\ x.cols[v.sortBy] \in Nat /\ y.cols[v.sortBy] \in Nat
  BY <1>1, ReportAssumption
<1>4. /\ \A x \in F : ~Before(v, x, x)
      /\ \A x, y \in F : x # y => Before(v, x, y) \/ Before(v, y, x)
      /\ \A x, y, z \in F : Before(v, x, y) /\ Before(v, y, z) => Before(v, x, z)
  BY <1>3 DEF Before
<1> HIDE DEF F
<1>5. \A x, y \in F : <<x, y>> \in R <=> Before(v, x, y)
  OBVIOUS
<1> HIDE DEF R
<1>6. Orders(R, F)
  BY <1>4, <1>5 DEF Orders
<1>7. /\ N \in Nat
      /\ \A x \in F : Cardinality(Below(F, R, x)) \in 0..(N - 1)
      /\ \A k \in 0..(N - 1) : \E x \in F : Cardinality(Below(F, R, x)) = k
  BY <1>2, <1>6, RankCovers
<1>8. \A x \in F : Rank(v, data, x) = Cardinality(Below(F, R, x))
  BY <1>5 DEF Rank, Below, F
<1>9. first \in Nat /\ v.page * v.limit = first + v.limit
  BY PageArithmetic
<1>10. PageRows(v, data) = {x \in F : Rank(v, data, x) \in first..(first + v.limit - 1)}
  BY <1>9 DEF PageRows, F
<1> HIDE DEF N, first
<1>11. PageRows(v, data) # {} => first < N
  BY <1>7, <1>8, <1>9, <1>10
<1>12. ASSUME first < N PROVE PageRows(v, data) # {}
  <2>1. PICK x \in F : Rank(v, data, x) = first
    BY <1>7, <1>8, <1>9, <1>12
  <2>2. first \in first..(first + v.limit - 1)
    BY <1>9
  <2>3. QED
    BY <1>10, <2>1, <2>2
<1>13. F = {} <=> N = 0
  BY <1>2, FS_EmptySet, Zenon DEF N
<1>14. QED
  BY <1>7, <1>11, <1>12, <1>13 DEF F, N, first

(* What the buttons under the table lead to.                               *)
LEMMA PagerIs ==
    ASSUME NEW v, v.page \in Nat \ {0}, v.limit \in Nat \ {0}, v.sortBy \in Column,
           NEW data \in SUBSET Report, NEW p \in PagerTargets(v, data)
    PROVE  p \in Nat \ {0} /\ (p - 1) * v.limit < Cardinality(Found(v, data))
<1> DEFINE N     == Cardinality(Found(v, data))
           total == Pages(v, data)
           half  == Window \div 2
           first == CASE total <= Window \/ v.page <= half + 1 -> 1
                      [] total > Window /\ v.page > half + 1 /\ v.page + half >= total ->
                            total - Window + 1
                      [] OTHER -> v.page - half
<1>1. N \in Nat /\ (v.page - 1) * v.limit < N
  BY PageHasRows DEF PagerTargets
<1>2. N + v.limit - 1 \in Nat
  BY <1>1
<1>3. /\ total \in Nat /\ v.limit * total <= N + v.limit - 1
      /\ N + v.limit - 1 < v.limit * total + v.limit
  BY <1>2, DivIs DEF Pages
<1>4. half \in Nat
  BY DivIs, ReportAssumption
<1>5. p \in {q \in first..(first + Window - 1) : q <= total}
           \cup (IF v.page > 1 THEN {1, v.page - 1} ELSE {})
           \cup (IF v.page < total THEN {v.page + 1, total} ELSE {})
  BY DEF PagerTargets
<1> HIDE DEF N, total, half
<1>6. v.limit * total = total * v.limit /\ total * v.limit \in Nat
  BY <1>3
<1>7. v.page <= total
  <2> SUFFICES ASSUME total < v.page PROVE FALSE
    BY <1>3
  <2>1. (v.page - 1) * v.limit \in Nat /\ total * v.limit <= (v.page - 1) * v.limit
    BY <1>3, PageArithmetic
  <2>2. QED
    BY <1>1, <1>3, <1>6, <2>1
<1>8. first \in Nat \ {0}
  BY <1>3, <1>4, ReportAssumption
<1> HIDE DEF first
<1>9. p \in 1..total
  BY <1>3, <1>5, <1>7, <1>8, ReportAssumption
<1>10. (p - 1) * v.limit \in Nat /\ (p - 1) * v.limit + v.limit <= total * v.limit
  BY <1>3, <1>9, PageArithmetic
<1>11. QED
  BY <1>1, <1>3, <1>6, <1>9, <1>10 DEF N

-----------------------------------------------------------------------------
(* What the user does: each shows a page there is, and of the list its      *)
(* first one or one of those its buttons lead to.                          *)

UserShows(v) ==
    /\ ViewOK(v) /\ Show(v)
    /\ v.at = "list" =>
          \/ v.page = 1
          \/ /\ view.at = "list" /\ v.page \in PagerTargets(view, Data)
             /\ v.filter = view.filter /\ v.limit = view.limit /\ v.sortBy = view.sortBy

LEMMA ListViews ==
    ASSUME NEW v, ViewOK(v), v.at = "list"
    PROVE  /\ v.page \in Nat \ {0} /\ v.limit \in Nat \ {0} /\ v.sortBy \in Column
           /\ \A f : ViewOK([v EXCEPT !.filter = f, !.page = 1])
           /\ \A col \in Column, up \in BOOLEAN :
                 ViewOK([v EXCEPT !.sortBy = col, !.page = 1, !.ascending = up])
           /\ \A p \in Nat \ {0} : ViewOK([v EXCEPT !.page = p])
           /\ \A l \in Limit : ViewOK([v EXCEPT !.limit = l, !.page = 1])
<1> DEFINE ListView(f) == [at : {"list"}, filter : {f}, page : Nat \ {0}, limit : Limit,
                           sortBy : Column, ascending : BOOLEAN]
<1>1. v \in ListView(v.filter)
  BY DEF ViewOK
<1>2. ASSUME NEW f, NEW w \in ListView(f) PROVE ViewOK(w)
  BY <1>2 DEF ViewOK
<1>3. v.page \in Nat \ {0} /\ v.limit \in Nat \ {0} /\ v.sortBy \in Column
  BY <1>1, ReportAssumption
<1> DEFINE one == 1
<1>0. one \in Nat \ {0}
  OBVIOUS
<1> HIDE DEF one
<1>4. \A f : [v EXCEPT !.filter = f, !.page = one] \in ListView(f)
  BY <1>0, <1>1
<1>5. \A col \in Column, up \in BOOLEAN :
        [v EXCEPT !.sortBy = col, !.page = one, !.ascending = up] \in ListView(v.filter)
  BY <1>0, <1>1
<1>6. \A p \in Nat \ {0} : [v EXCEPT !.page = p] \in ListView(v.filter)
  BY <1>1
<1>7. \A l \in Limit : [v EXCEPT !.limit = l, !.page = one] \in ListView(v.filter)
  BY <1>0, <1>1
<1> HIDE DEF ListView
<1>8. QED
  BY <1>2, <1>3, <1>4, <1>5, <1>6, <1>7 DEF one

LEMMA DashboardViews ==
    ASSUME NEW v, ViewOK(v), v.at = "dashboard"
    PROVE  \A w : (/\ \/ \E address : w = [v EXCEPT !.url = address]
                      \/ \E d, address : w = [v EXCEPT !.dir = d, !.url = address]
                      \/ \E networks, address : w = [v EXCEPT !.networks = networks, !.url = address]
                      \/ \E clients, address : w = [v EXCEPT !.clients = clients, !.url = address])
                  => ViewOK(w) /\ w.at = "dashboard"
<1> DEFINE Tab(w) == [at : {"dashboard"}, url : {w.url}, dir : {w.dir}, networks : {w.networks},
                      clients : {w.clients}]
<1>1. v \in Tab(v)
  BY DEF ViewOK
<1>2. ASSUME NEW w, w \in Tab(w) PROVE ViewOK(w) /\ w.at = "dashboard"
  BY <1>2 DEF ViewOK
<1>3. ASSUME NEW address, NEW w, w = [v EXCEPT !.url = address] PROVE w \in Tab(w)
  BY <1>1, <1>3
<1>4. ASSUME NEW d, NEW address, NEW w, w = [v EXCEPT !.dir = d, !.url = address] PROVE w \in Tab(w)
  BY <1>1, <1>4
<1>5. ASSUME NEW n, NEW address, NEW w, w = [v EXCEPT !.networks = n, !.url = address]
      PROVE  w \in Tab(w)
  BY <1>1, <1>5
<1>6. ASSUME NEW cs, NEW address, NEW w, w = [v EXCEPT !.clients = cs, !.url = address]
      PROVE  w \in Tab(w)
  BY <1>1, <1>6
<1> HIDE DEF Tab
<1>7. QED
  BY <1>2, <1>3, <1>4, <1>5, <1>6

UserAction ==
    \/ OpenDashboard \/ OpenList \/ OpenURL \/ OpenTest
    \/ HandleDirectoryChange \/ HandleNetworkChange \/ HandleCLClientChange \/ ViewMore
    \/ ChangeFilter \/ ClearFilters \/ HandleSort \/ HandlePageChange \/ HandleLimitChange

LEMMA UserActionShows ==
    ASSUME ReportInv, UserAction
    PROVE  \E v : UserShows(v)
<1>1. ViewOK(view)
  BY DEF ReportInv
<1>2. ASSUME NEW v, ViewOK(v), Show(v), v.at # "list" PROVE \E w : UserShows(w)
  BY <1>2 DEF UserShows
<1>3. ASSUME NEW v, ViewOK(v), Show(v), v.page = 1 PROVE \E w : UserShows(w)
  BY <1>3 DEF UserShows
<1>4. \A f : ListOf(f).page = 1
  BY DEF ListOf
<1>5. CASE OpenDashboard
  <2>1. CASE view.at = "dashboard" /\ Show([view EXCEPT !.url = NoDirectories])
    <3>1. /\ ViewOK([view EXCEPT !.url = NoDirectories])
          /\ [view EXCEPT !.url = NoDirectories].at = "dashboard"
      BY <1>1, <2>1, DashboardViews
    <3>2. QED
      BY <1>2, <2>1, <3>1
  <2>2. CASE Show(DashboardOf(NoDirectories))
    BY <1>2, <2>2, PagesOK
  <2>3. QED
    BY <1>5, <2>1, <2>2 DEF OpenDashboard
<1>6. CASE OpenList
  BY <1>3, <1>4, <1>6, PagesOK DEF OpenList
<1>7. CASE OpenURL \/ OpenTest
  <2>1. \E d, id : Show(DetailsOf(d, id))
    BY <1>7 DEF OpenURL, OpenTest
  <2>2. QED
    BY <1>2, <2>1, PagesOK
<1>8. CASE HandleDirectoryChange
  <2>1. PICK d, address : view.at = "dashboard" /\ Show([view EXCEPT !.dir = d, !.url = address])
    BY <1>8 DEF HandleDirectoryChange, On
  <2>2. /\ ViewOK([view EXCEPT !.dir = d, !.url = address])
        /\ [view EXCEPT !.dir = d, !.url = address].at = "dashboard"
    BY <1>1, <2>1, DashboardViews
  <2>3. QED
    BY <1>2, <2>1, <2>2
<1>9. CASE HandleNetworkChange
  <2>1. PICK ns, address : view.at = "dashboard" /\ Show([view EXCEPT !.networks = ns, !.url = address])
    BY <1>9 DEF HandleNetworkChange, On
  <2>2. /\ ViewOK([view EXCEPT !.networks = ns, !.url = address])
        /\ [view EXCEPT !.networks = ns, !.url = address].at = "dashboard"
    BY <1>1, <2>1, DashboardViews
  <2>3. QED
    BY <1>2, <2>1, <2>2
<1>10. CASE HandleCLClientChange
  <2>1. view.at = "dashboard"
    BY <1>10 DEF HandleCLClientChange, On
  <2>2. PICK c, cl : Show([view EXCEPT !.clients[c] = cl, !.url.dir = c[1],
                                       !.url.network = c[2], !.url.cl[c[3]] = cl])
    BY <1>10 DEF HandleCLClientChange
  <2> DEFINE w == [view EXCEPT !.clients[c] = cl, !.url.dir = c[1],
                               !.url.network = c[2], !.url.cl[c[3]] = cl]
  <2>3. view \in [at : {"dashboard"}, url : {view.url}, dir : {view.dir},
                  networks : {view.networks}, clients : {view.clients}]
    BY <1>1, <2>1 DEF ViewOK
  <2>4. w \in [at : {"dashboard"}, url : {w.url}, dir : {w.dir}, networks : {w.networks},
               clients : {w.clients}]
    BY <2>3
  <2>5. Show(w)
    BY <2>2
  <2> HIDE DEF w
  <2>6. ViewOK(w) /\ w.at = "dashboard"
    BY <2>4 DEF ViewOK
  <2>7. QED
    BY <1>2, <2>5, <2>6
<1>11. CASE ViewMore
  <2>1. \E f : Show(ListOf(f))
    BY <1>11 DEF ViewMore
  <2>2. QED
    BY <1>3, <1>4, <2>1, PagesOK
<1>12. CASE ChangeFilter \/ ClearFilters
  <2>1. PICK f : view.at = "list" /\ Show([view EXCEPT !.filter = f, !.page = 1])
    <3>1. view.at = "list" /\ \E f : SetFilter(f)
      BY <1>12 DEF ChangeFilter, ClearFilters, On
    <3>2. QED
      BY <3>1 DEF SetFilter
  <2>2. /\ ViewOK([view EXCEPT !.filter = f, !.page = 1])
        /\ [view EXCEPT !.filter = f, !.page = 1].page = 1
    BY <1>1, <2>1, ListViews DEF ViewOK
  <2>3. QED
    BY <1>3, <2>1, <2>2
<1>13. CASE HandleSort
  <2>1. PICK col \in Column, up \in BOOLEAN :
           view.at = "list" /\ Show([view EXCEPT !.sortBy = col, !.page = 1, !.ascending = up])
    <3>1. PICK col \in Column :
             Show([view EXCEPT !.sortBy = col, !.page = 1,
                               !.ascending = view.sortBy = col /\ ~view.ascending])
      BY <1>13, Zenon DEF HandleSort
    <3> DEFINE up == view.sortBy = col /\ ~view.ascending
    <3>2. up \in BOOLEAN /\ Show([view EXCEPT !.sortBy = col, !.page = 1, !.ascending = up])
      BY <3>1, Zenon
    <3> HIDE DEF up
    <3>3. view.at = "list"
      BY <1>13 DEF HandleSort, On
    <3>4. QED
      BY <3>2, <3>3, Zenon
  <2>2. /\ ViewOK([view EXCEPT !.sortBy = col, !.page = 1, !.ascending = up])
        /\ [view EXCEPT !.sortBy = col, !.page = 1, !.ascending = up].page = 1
    <3>1. ViewOK([view EXCEPT !.sortBy = col, !.page = 1, !.ascending = up])
      BY <1>1, <2>1, ListViews, Zenon
    <3>2. [view EXCEPT !.sortBy = col, !.page = 1, !.ascending = up].page = 1
      BY <1>1, <2>1 DEF ViewOK
    <3>3. QED
      BY <3>1, <3>2
  <2>3. QED
    BY <1>3, <2>1, <2>2
<1>14. CASE HandlePageChange
  <2>1. PICK p \in PagerTargets(view, Data) : view.at = "list" /\ Show([view EXCEPT !.page = p])
    BY <1>14 DEF HandlePageChange, On
  <2>2. /\ view.page \in Nat \ {0} /\ view.limit \in Nat \ {0} /\ view.sortBy \in Column
        /\ Data \in SUBSET Report
    BY <1>1, <2>1, ListViews, ReportsType DEF Data, ReportInv
  <2>3. p \in Nat \ {0}
    BY <2>2, PagerIs
  <2> DEFINE w == [view EXCEPT !.page = p]
  <2>4. ViewOK(w)
    BY <1>1, <2>1, <2>3, ListViews
  <2>5. /\ w.page = p /\ w.filter = view.filter /\ w.limit = view.limit
        /\ w.sortBy = view.sortBy
    BY <1>1, <2>1 DEF ViewOK
  <2>6. Show(w)
    BY <2>1
  <2> HIDE DEF w
  <2>7. QED
    BY <2>1, <2>4, <2>5, <2>6 DEF UserShows
<1>15. CASE HandleLimitChange
  <2>1. PICK l \in Limit : view.at = "list" /\ Show([view EXCEPT !.limit = l, !.page = 1])
    BY <1>15 DEF HandleLimitChange, On
  <2>2. /\ ViewOK([view EXCEPT !.limit = l, !.page = 1])
        /\ [view EXCEPT !.limit = l, !.page = 1].page = 1
    BY <1>1, <2>1, ListViews DEF ViewOK
  <2>3. QED
    BY <1>3, <2>1, <2>2
<1>16. QED
  BY <1>5, <1>6, <1>7, <1>8, <1>9, <1>10, <1>11, <1>12, <1>13, <1>14, <1>15 DEF UserAction

LEMMA ReportInvStep == ReportInv /\ [ReportNext]_reportVars => ReportInv'
<1> SUFFICES ASSUME ReportInv, [ReportNext]_reportVars PROVE ReportInv'
  OBVIOUS
<1>1. CASE Publish
  BY <1>1, PublishKeeps
<1>2. ASSUME NEW k \in DOMAIN cache, ReportsFetched(k) \/ Collect(k) PROVE ReportInv'
  BY <1>2, FetchedKeeps, CollectKeeps
<1>3. CASE Reconnect
  BY <1>3, ReconnectKeeps
<1>4. ASSUME NEW n \in DOMAIN dumpAsked, DumpAnswer(n) PROVE ReportInv'
  BY <1>4, DumpAnswerKeeps
<1>5. CASE UserAction
  <2>1. PICK v : UserShows(v)
    BY <1>5, UserActionShows
  <2>2. QED
    BY <2>1, ShowKeeps DEF UserShows
<1>6. CASE UNCHANGED reportVars
  <2>1. UNCHANGED <<published, config, cache, view, clicks, dumpInfo, dumpAsked, overtaken>>
    BY <1>6 DEF reportVars
  <2>2. DumpFollows'
    BY <2>1, DumpStands DEF ReportInv
  <2>3. QED
    BY <2>1, <2>2 DEF ReportInv, CacheOK, ViewOK
<1>7. QED
  BY <1>1, <1>2, <1>3, <1>4, <1>5, <1>6 DEF ReportNext, UserAction

LEMMA ReportTyped == ReportInv => ReportTypeOK
<1> SUFFICES ASSUME ReportInv PROVE ReportTypeOK
  OBVIOUS
<1>1. view.at \in {"dashboard", "list", "details"}
  BY DEF ReportInv, ViewOK
<1>2. dumpInfo \subseteq Report /\ Cardinality(dumpInfo) <= 1
  <2>1. CASE dumpInfo = {}
    BY <2>1, FS_EmptySet
  <2>2. ASSUME NEW r \in Report, dumpInfo = {r}
        PROVE  dumpInfo \subseteq Report /\ Cardinality(dumpInfo) <= 1
    <3>1. Cardinality({r}) = 1
      BY FS_Singleton
    <3>2. QED
      BY <2>2, <3>1
  <2>3. QED
    BY <2>1, <2>2 DEF ReportInv
<1>3. \A k \in DOMAIN cache : cache[k].data \subseteq Report /\ cache[k].loaded \in BOOLEAN
  BY DEF ReportInv, CacheOK, QueryData
<1>4. \A n \in DOMAIN dumpAsked : dumpAsked[n] \in Report
  BY DEF ReportInv
<1>5. QED
  BY <1>1, <1>2, <1>3, <1>4 DEF ReportInv, ReportTypeOK

(* The lists of reports the pages use are reports, and the test on the      *)
(* details page at most one.                                               *)
THEOREM ReportTypeOKHolds == ReportSpec => []ReportTypeOK
BY ReportTyped, ReportInvInit, ReportInvStep, PTL DEF ReportSpec

LEMMA DumpInfoFollows == ReportInv => DumpInfoIsOfTest
BY DEF ReportInv, DumpFollows, Follows, DumpInfoIsOfTest

(* The dump the details page links, once nothing is asked and no answer     *)
(* overtook another, is that of its test.                                  *)
THEOREM DumpInfoIsOfTestHolds == ReportSpec => []DumpInfoIsOfTest
BY DumpInfoFollows, ReportInvInit, ReportInvStep, PTL DEF ReportSpec

LEMMA MoreLinkIsOfGroup == ReportInv => MoreLinkListsGroup
<1> SUFFICES ASSUME ReportInv, NEW c \in Cards(view, Data)
             PROVE  Found(ListOf(MoreLink(view, Data, c)), Data)
                      = GroupShown(view, Data, c[1], c[2], c[3])
  BY DEF MoreLinkListsGroup
<1> DEFINE cl == ActiveCL(view, Data, c[1], c[2], c[3])
           f  == MoreLink(view, Data, c)
<1>1. Data \subseteq Report
  BY ReportsType DEF Data, ReportInv
<1>2. PICK r \in Data : c = <<r.dir, r.network, r.el>>
  BY DEF Cards
<1>3. c[1] # All /\ c[2] # All /\ c[3] # All
  BY <1>1, <1>2, ReportAssumption
<1>4. /\ f.dir = c[1] /\ f.network = c[2] /\ f.el = c[3] /\ f.cl = cl
      /\ f.status = All /\ f.minDuration = All /\ f.maxDuration = All
  BY DEF MoreLink, NoFilter
<1>5. ListOf(f).filter = f
  BY DEF ListOf
<1> HIDE DEF f, cl
<1>6. \A s \in Data : Matches(s, f) <=> /\ s.dir = c[1] /\ s.network = c[2] /\ s.el = c[3]
                                        /\ cl = All \/ s.cl = cl
  BY <1>3, <1>4 DEF Matches
<1>7. QED
  BY <1>5, <1>6 DEF Found, GroupShown, Group, f, cl

(* The link under a group lists the tests of the group, and no others.      *)
THEOREM MoreLinkListsGroupHolds == ReportSpec => []MoreLinkListsGroup
BY MoreLinkIsOfGroup, ReportInvInit, ReportInvStep, PTL DEF ReportSpec

(* A page that follows from a click has rows if there are any.             *)
LEMMA ListStepInRange ==
    ASSUME ReportInv, [ReportNext]_reportVars,
           On("list"), ListInRange, cache' = cache, view'.at = "list"
    PROVE  ListInRange'
<1>1. ReportInv' /\ ViewOK(view)
  BY ReportInvStep DEF ReportInv
<1>2. Data \in SUBSET Report
  BY ReportsType DEF Data, ReportInv
<1>3. UNCHANGED config
  <2>1. CASE UserAction
    BY <2>1, UserActionShows DEF UserShows, Show
  <2>2. CASE ~UserAction
    BY <2>2 DEF ReportNext, UserAction, reportVars, Publish, ReportsFetched, Collect,
                Reconnect, DumpAnswer
  <2>3. QED
    BY <2>1, <2>2
<1>4. view.at = "list" /\ Data' = Data
  BY <1>3 DEF On, Data, Reports, Configured, Key, CachedQuery, NewQuery
<1>5. CASE view' = view
  BY <1>4, <1>5 DEF ListInRange, PageRows, Found, Rank
<1>6. CASE UserAction
  <2>1. PICK v : UserShows(v)
    BY <1>6, UserActionShows
  <2>2. view' = v
    BY <2>1, ShowKeeps DEF UserShows
  <2>3. /\ v.page \in Nat \ {0} /\ v.limit \in Nat \ {0} /\ v.sortBy \in Column
        /\ view.page \in Nat \ {0} /\ view.limit \in Nat \ {0} /\ view.sortBy \in Column
    BY <1>1, <1>4, <2>1, <2>2, ListViews DEF UserShows
  <2>4. /\ Cardinality(Found(v, Data)) \in Nat
        /\ Found(v, Data) = {} <=> Cardinality(Found(v, Data)) = 0
        /\ PageRows(v, Data) # {} <=> (v.page - 1) * v.limit < Cardinality(Found(v, Data))
    BY <1>2, <2>3, PageHasRows
  <2>5. CASE v.page = 1
    <3>1. (v.page - 1) * v.limit = 0
      BY <2>3, <2>5
    <3>2. QED
      BY <1>4, <2>2, <2>4, <3>1 DEF ListInRange
  <2>6. CASE v.page \in PagerTargets(view, Data) /\ v.filter = view.filter /\ v.limit = view.limit
    <3>1. (v.page - 1) * view.limit < Cardinality(Found(view, Data))
      BY <1>2, <2>3, <2>6, PagerIs
    <3>2. Found(v, Data) = Found(view, Data)
      BY <2>6 DEF Found
    <3>3. PageRows(v, Data) # {}
      BY <2>4, <2>6, <3>1, <3>2
    <3>4. QED
      BY <1>4, <2>2, <3>3 DEF ListInRange
  <2>7. QED
    BY <2>1, <2>2, <2>5, <2>6 DEF UserShows
<1>7. ASSUME NEW k \in DOMAIN cache, ReportsFetched(k) PROVE view' = view
  <2>1. view' = view \/ view' = Defaulted(view, Reports(cache', view))
    BY <1>7 DEF ReportsFetched, CommitReports
  <2>2. QED
    BY <1>4, <2>1 DEF Defaulted
<1>8. Publish \/ (\E k \in DOMAIN cache : Collect(k)) \/ Reconnect
        \/ (\E n \in DOMAIN dumpAsked : DumpAnswer(n)) \/ UNCHANGED reportVars => view' = view
  BY DEF Publish, Collect, Reconnect, DumpAnswer, reportVars
<1>9. QED
  BY <1>5, <1>6, <1>7, <1>8 DEF ReportNext, UserAction

LEMMA ListStep == ReportInv /\ [ReportNext]_reportVars =>
    [(On("list") /\ ListInRange /\ cache' = cache /\ view'.at = "list") => ListInRange']_reportVars
BY ListStepInRange

(* The buttons under the list never lead beyond its end.                    *)
THEOREM ListPagesStayInRangeHolds == ReportSpec => ListPagesStayInRange
BY ListStep, ReportInvInit, ReportInvStep, PTL DEF ReportSpec, ListPagesStayInRange

-----------------------------------------------------------------------------
(* The dashboard. *)

(* The dashboard implements the live panel.                                *)
THEOREM WebImplementsLive == WebSpec => LiveSpec
<1>1. LiveIdle => LiveInit
  <2> SUFFICES ASSUME LiveIdle PROVE LiveInit
    OBVIOUS
  <2>1. /\ tests = [u \in Url |-> [r \in Run |-> "absent"]] /\ events = 0
        /\ LiveMounted(<<>>, FALSE)
    BY DEF LiveIdle
  <2>2. tests \in [Url -> [Run -> {"absent", "running"}]]
    BY <2>1
  <2>3. \A u \in Url : \A r \in Run \ RunsOf[u] : tests[u][r] = "absent"
    BY <2>1
  <2>4. QED
    BY <2>1, <2>2, <2>3, WebAssumption DEF LiveInit
<1>2. WebInit => LiveInit
  BY <1>1 DEF WebInit
<1>3. [WebNext]_webVars => [LiveNext]_liveVars
  BY DEF WebNext, webVars
<1>4. QED
  BY <1>2, <1>3, PTL DEF WebSpec, LiveSpec

(* The dashboard implements the details of the expanded tests.             *)
THEOREM WebImplementsDetails == WebSpec => DetailsSpec
<1>1. DetailsIdle => DetailsInit
  BY DEF DetailsIdle, DetailsInit
<1>2. WebInit => DetailsInit
  BY <1>1 DEF WebInit
<1>3. [WebNext]_webVars => [DetailsNext]_detailsVars
  BY DEF WebNext, webVars
<1>4. QED
  BY <1>2, <1>3, PTL DEF WebSpec, DetailsSpec

(* The dashboard implements the dump explorer.                             *)
THEOREM WebImplementsDump == WebSpec => DumpSpec
<1>1. DumpIdle => DumpInit
  BY DEF DumpIdle, DumpInit
<1>2. WebInit => DumpInit
  BY <1>1 DEF WebInit
<1>3. [WebNext]_webVars => [DumpNext]_dumpVars
  BY DEF WebNext, webVars
<1>4. QED
  BY <1>2, <1>3, PTL DEF WebSpec, DumpSpec

(* The rows of the dashboard's live panel have their own server's tests.   *)
THEOREM WebRowsOwnTests == WebSpec => []RowsOwnTests
BY WebImplementsLive, RowsOwnTestsHolds, PTL

(* The charts of the dashboard's expanded tests never lose a point.        *)
THEOREM WebHistoryOnlyGrows == WebSpec => HistoryOnlyGrows
BY WebImplementsDetails, HistoryOnlyGrowsHolds, PTL

(* The dashboard's explorer shows the content of the file it names.        *)
THEOREM WebContentIsOfFile == WebSpec => []ContentIsOfFile
BY WebImplementsDump, ContentIsOfFileHolds, PTL

(* The file the dashboard's explorer shows is the one in its URL.          *)
THEOREM WebSelectionIsInURL == WebSpec => []SelectionIsInURL
BY WebImplementsDump, SelectionIsInURLHolds, PTL

(* The dashboard implements the content of the details page.               *)
THEOREM WebImplementsTestPage == WebSpec => TestPageSpec
<1>1. TestIdle => TestPageInit
  <2>1. (CHOOSE f \in Finding : TRUE) \in Finding
    BY WebAssumption
  <2>2. QED
    BY <2>1 DEF TestIdle, TestPageInit
<1>2. WebInit => TestPageInit
  BY <1>1 DEF WebInit
<1>3. [WebNext]_webVars => [TestPageNext]_testPageVars
  BY DEF WebNext, webVars
<1>4. QED
  BY <1>2, <1>3, PTL DEF WebSpec, TestPageSpec

(* The dashboard implements the group of finished tests.                   *)
THEOREM WebImplementsGroup == WebSpec => GroupStatsSpec
<1>1. WebInit => GroupInit
  BY DEF WebInit, GroupInit
<1>2. [WebNext]_webVars => [GroupNext]_groupVars
  BY DEF WebNext, webVars
<1>3. QED
  BY <1>1, <1>2, PTL DEF WebSpec, GroupStatsSpec

(* The report pages of the dashboard keep their invariant: they begin as   *)
(* ReportSpec says, or without configuration when they are not looked at.  *)
LEMMA WebReportInvInit == WebInit => ReportInv
<1>1. ReportIdle => ReportInv
  BY PagesOK, MountedInv DEF ReportIdle
<1>2. QED
  BY <1>1, ReportInvInit DEF WebInit

LEMMA WebReportStep == [WebNext]_webVars => [ReportNext]_reportVars
BY DEF WebNext, webVars

(* The lists, clients and configuration of the report pages stay as the    *)
(* pages need them.                                                        *)
THEOREM WebReportInv == WebSpec => []ReportInv
BY WebReportInvInit, WebReportStep, ReportInvStep, PTL DEF WebSpec

(* The state of every page of the dashboard has its types.                 *)
THEOREM WebTypeOKHolds == WebSpec => []WebTypeOK
<1>1. LiveTypeOK /\ DetailsTypeOK /\ DumpTypeOK /\ ReportTypeOK /\ TestPageTypeOK /\ GroupTypeOK
        => WebTypeOK
  BY DEF WebTypeOK
<1>2. QED
  BY <1>1, WebImplementsLive, LiveTypeOKHolds, WebImplementsDetails, DetailsTypeOKHolds,
     WebImplementsDump, DumpTypeOKHolds, WebReportInv, ReportTyped, WebImplementsTestPage,
     TestPageTypeOKHolds, WebImplementsGroup, GroupTypeOKHolds, PTL

(* Every spinner of the dashboard is waiting for something that is asked.  *)
THEOREM SpinnersAreServedHolds == WebSpec => []SpinnersAreServed
<1>1. RefreshIsServed /\ DumpSpinnersAreServed => SpinnersAreServed
  BY DEF SpinnersAreServed
<1>2. QED
  BY <1>1, WebImplementsLive, RefreshIsServedHolds, WebImplementsDump,
     DumpSpinnersAreServedHolds, PTL

(* The dashboard shows of each group of tests its latest successes.        *)
THEOREM WebGroupShowsSuccesses == WebSpec => []GroupShowsSuccesses
BY WebImplementsGroup, GroupShowsSuccessesHolds, PTL

(* The link under a group of the dashboard lists the tests of the group.   *)
THEOREM WebMoreLinkListsGroup == WebSpec => []MoreLinkListsGroup
BY WebReportInv, MoreLinkIsOfGroup, PTL

(* The user's clicks never lead to an empty page, of the live tests or of  *)
(* the finished ones.                                                      *)
THEOREM PagesStayInRangeHolds == WebSpec => PagesStayInRange
<1>1. WebSpec => LivePagesStayInRange
  BY WebImplementsLive, LivePagesStayInRangeHolds, PTL
<1>2. WebSpec => ListPagesStayInRange
  BY WebReportInv, WebReportStep, ListStep, PTL DEF WebSpec, ListPagesStayInRange
<1>3. QED
  BY <1>1, <1>2 DEF PagesStayInRange

(* The points of an expanded test, put in order, are entries of a chart.    *)
LEMMA LiveEntries ==
    ASSUME DetailsTypeOK, NEW t \in DOMAIN details
    PROVE  LiveCharts(t) \in Seq(ProgressEntry)
<1> DEFINE S == details[t].points
           at == Ascending(S)
           N == Cardinality(S)
           Point == [at : Int, b : Int, s : Int, de : Int, dc : Int, pe : Int, pc : Int,
                     docker : DockerMetrics \cup {NoMetrics}]
           history == [n \in DOMAIN at |-> PointOf[at[n]]]
           entry(h) == [t |-> h.at \div Second,
                        b |-> h.b, s |-> h.s, de |-> h.de, dc |-> h.dc, pe |-> h.pe, pc |-> h.pc,
                        docker |-> IF h.docker = NoMetrics THEN NoDocker ELSE h.docker]
<1>1. S \in SUBSET (1..MaxPoint)
  BY DEF DetailsTypeOK
<1>2. IsFiniteSet(S) /\ S \subseteq Int
  <2>1. IsFiniteSet(1..MaxPoint)
    BY FS_Interval, DetailsAssumption
  <2>2. IsFiniteSet(S)
    BY <1>1, <2>1, FS_Subset, Zenon
  <2>3. QED
    BY <1>1, <2>2
<1> HIDE DEF S
<1>3. N \in Nat /\ at \in [1..N -> S]
  BY <1>2, AscendingIs
<1> HIDE DEF N, at
<1>4. PointOf \in Seq(Point) /\ \A p \in S : p \in DOMAIN PointOf
  <2>1. PointOf \in Seq(Point) /\ MaxPoint \in DOMAIN PointOf
    BY WebAssumption
  <2> HIDE DEF Point
  <2>2. QED
    BY <1>1, <2>1
<1>5. DOMAIN history = 1..N /\ \A n \in 1..N : history[n] \in Point
  <2> HIDE DEF Point
  <2>1. QED
    BY <1>3, <1>4
<1>6. \A h \in Point : entry(h) \in ProgressEntry
  <2>1. NoDocker \in DockerMetrics
    BY DEF NoDocker, DockerMetrics
  <2>2. \A h \in Point : h.at \div Second \in Int
    BY WebAssumption
  <2> HIDE DEF Point
  <2>3. ASSUME NEW h \in Point PROVE entry(h) \in ProgressEntry
    <3>1. /\ h.b \in Int /\ h.s \in Int /\ h.de \in Int /\ h.dc \in Int /\ h.pe \in Int
          /\ h.pc \in Int /\ h.docker \in DockerMetrics \cup {NoMetrics}
      BY DEF Point
    <3>2. h.at \div Second \in Int
      BY <2>2
    <3>3. (IF h.docker = NoMetrics THEN NoDocker ELSE h.docker) \in DockerMetrics \cup {NoMetrics}
      BY <2>1, <3>1
    <3>4. QED
      BY <3>1, <3>2, <3>3 DEF ProgressEntry
  <2>4. QED
    BY <2>3
<1>7. LiveCharts(t) = [n \in DOMAIN history |-> entry(history[n])]
  BY DEF LiveCharts, TransformProgressPoints, S, at
<1> HIDE DEF history, Point, entry
<1>8. LiveCharts(t) \in [1..N -> ProgressEntry]
  BY <1>5, <1>6, <1>7
<1>9. QED
  BY <1>3, <1>8, SeqDef

(* The charts of an expanded live test follow the history the page has of  *)
(* it.                                                                     *)
THEOREM WebLiveCharts == WebSpec => []LiveChartsFollowHistory
<1>1. DetailsTypeOK => LiveChartsFollowHistory
  <2> SUFFICES ASSUME DetailsTypeOK, NEW t \in DOMAIN details
               PROVE  ChartsFollow(ProgressCharts(LiveCharts(t)), LiveCharts(t))
    BY DEF LiveChartsFollowHistory
  <2>1. LiveCharts(t) \in Seq(ProgressEntry)
    BY LiveEntries
  <2>2. QED
    BY <2>1, ChartsFollowEntries
<1>2. QED
  BY <1>1, WebImplementsDetails, DetailsTypeOKHolds, PTL

(* What is said of a test is said of the right one: on the details page,   *)
(* by the link to its dump, the charts, the saved logs and the URL.        *)
THEOREM PagesTellTheirTestHolds == WebSpec => []PagesTellTheirTest
<1>1. ScreenIsOfTest /\ DumpInfoIsOfTest /\ ChartsFollowRecording /\ LiveChartsFollowHistory
        /\ DownloadsAreOwnLogs /\ SystemIsInURL => PagesTellTheirTest
  BY DEF PagesTellTheirTest
<1>2. QED
  BY <1>1, WebImplementsTestPage, ScreenIsOfTestHolds, ChartsFollowRecordingHolds,
     DownloadsAreOwnLogsHolds, SystemIsInURLHolds, WebReportInv, DumpInfoFollows,
     WebLiveCharts, PTL

=============================================================================
