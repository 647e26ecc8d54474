------------------------------ MODULE SyncRun ------------------------------
(***************************************************************************)
(* `syncoor sync`: the life of one sync test from the command line to the  *)
(* exit code (cmd/syncoor/sync.go, pkg/synctest/service.go), with the      *)
(* report it keeps (pkg/report/service.go) and the recovery of an          *)
(* interrupted test by the next process (pkg/recovery).                    *)
(*                                                                         *)
(* Two goroutines share the service: main (Start, WaitForSync, the         *)
(* deferred Stop) and the signal handler, which on SIGINT or SIGTERM saves *)
(* a temporary report, calls Stop and cancels the context while main goes  *)
(* on.  Nothing synchronises the two.  What outlives a process is the      *)
(* disk (the temporary report, the final reports) and the Kurtosis enclave.*)
(*                                                                         *)
(* A report is the run it belongs to (RunID; 0 is the empty RunID of a     *)
(* report service that was not started), its status and how many progress  *)
(* entries it holds.  os.WriteFile is not atomic: it truncates the file,   *)
(* then writes it, and a process can die, or the other goroutine write the *)
(* same file, between the two.                                             *)
(***************************************************************************)
EXTENDS Integers, FiniteSets

CONSTANTS
    MaxRuns,         \* bound: processes started, one after the other
    MaxEntries,      \* bound: progress entries collected
    SaveEvery,       \* a temp report is saved every 10 entries
    Config,          \* command lines: records [recovery, server, defaultName] of
                     \*   BOOLEAN, the flags --enable-recovery and --server, and
                     \*   whether the enclave has the name it gets without --enclave
    InitialServices, \* services of an enclave that exists beforehand, {} if none
    Failures,        \* may the disk fail, or a call to Kurtosis, Docker, a node
                     \*   or the server
    NoFile, Torn     \* a file that does not exist; one cut short or garbled

ASSUME BoundsAssumption ==
    /\ MaxRuns \in Nat
    /\ MaxEntries \in Nat
    /\ SaveEvery \in Nat \ {0}
    /\ Failures \in BOOLEAN

ASSUME ConfigAssumption ==
    Config \subseteq [recovery : BOOLEAN, server : BOOLEAN, defaultName : BOOLEAN]

VARIABLES
    pc,        \* where the goroutines "main" and "sig" are
    config,    \* the command line of the process
    run,       \* how many processes were started: the newest one's RunID
    report,    \* report service: s.result
    recovered, \* s.recoveredReport
    draft,     \* the report each goroutine is writing to the temp file
    synced,    \* main: this iteration found both clients synced
    verdict,   \* main: how the test ended, "none" before
    ctx,       \* main's context: "live", then "deadline" or "canceled",
               \*   whichever came first
    cancelled, \* cancel() was called on the outer context
    started,   \* s.cancel is set
    aborted,   \* s.cancel was called: the context of Start is cancelled
    closed,    \* reporting client: stopCh is closed
    exporter,  \* metrics exporter: containerID is set
    told,      \* what the server was told of this run
    temp,      \* disk: the temporary report of this configuration
    finals,    \* disk: the final report files by RunID
    services,  \* enclave: the services that run
    enclave,   \* the enclave exists
    exit,      \* exit code of the last process, NotExited while it runs
    diskFailed \* observation: a file operation of this process failed

disk    == <<temp, finals, diskFailed>>
world   == <<services, enclave>>
context == <<ctx, cancelled, aborted>>
service == <<report, recovered, synced, verdict>>
setup   == <<config, run, started>>
stops   == <<closed, exporter>>
vars == <<pc, draft, stops, told, exit, disk, world, context, service, setup>>

-----------------------------------------------------------------------------
Goroutine == {"main", "sig"}
RunID     == 0 .. MaxRuns
SyncStatus == {"", "running", "success", "timeout", "error"}
Service   == {"el", "cl", "exporter"}
ASSUME ServicesAssumption == InitialServices \subseteq Service

NotExited == -1
Killed    == 137

Result == [run : RunID, status : SyncStatus, entries : 0 .. MaxEntries]

NoResult == [run |-> 0, status |-> "", entries |-> 0]  \* report.NewService

(* The two files of a final report: the progress file holds the entries,   *)
(* the main file a count of them and the status.                           *)
ProgressFile == {NoFile, Torn} \cup 0 .. MaxEntries
MainFile     == {NoFile, Torn} \cup [status : SyncStatus, entries : 0 .. MaxEntries]
Final        == [progress : ProgressFile, main : MainFile]
NoFinal      == [progress |-> NoFile, main |-> NoFile]

(* A file that does not exist and one that is cut short are not each other *)
(* and hold no report, no count of entries and no status.                  *)
ASSUME FilesAssumption ==
    /\ NoFile # Torn
    /\ \A file \in {NoFile, Torn} :
          /\ file \notin Result
          /\ file \notin 0 .. MaxEntries
          /\ file \notin [status : SyncStatus, entries : 0 .. MaxEntries]

MainLabel ==
    {"off", "boot", "recover", "network", "report", "restore", "announce",
     "connect", "healthy", "loop", "health", "poll", "open", "write", "check",
     "tell", "openProgress", "writeProgress", "openMain", "writeMain",
     "exporter", "exporterCall", "cleanup", "deferred", "deferredCall", "return"}
SigLabel == {"off", "waiting", "open", "write", "stop", "stopCall", "cancel", "done"}

Goto(g, label) == pc' = [pc EXCEPT ![g] = label] /\ UNCHANGED exit

(* os.Exit, logger.Fatalf, a return from main, a panic: both goroutines    *)
(* are gone, and no deferred call runs that did not run yet.               *)
Exit(code) == pc' = [g \in Goroutine |-> "off"] /\ exit' = code

DiskFails == Failures /\ diskFailed' = TRUE

IsReport(file) == file \notin {NoFile, Torn}
StartAborted   == cancelled \/ aborted
Verdicts       == {"success", "timeout", "error"}

-----------------------------------------------------------------------------
(* The temporary report, written by both goroutines.                       *)

(* What a write leaves in a file another goroutine may have written, or    *)
(* removed, since it was truncated: a shorter text over a longer one is    *)
(* garbled, and a file removed while open stays removed.                   *)
Overlay(file, text) ==
    IF file = NoFile THEN NoFile
    ELSE IF IsReport(file) /\ file.entries > text.entries THEN Torn
    ELSE text

AfterSave(g) == IF g = "main" THEN "check" ELSE "stop"

SaveTempOpen(g) ==
    /\ pc[g] = "open"
    /\ \/ temp' = Torn /\ Goto(g, "write") /\ UNCHANGED diskFailed
       \/ DiskFails /\ Goto(g, AfterSave(g)) /\ UNCHANGED temp
    /\ UNCHANGED <<draft, stops, told, finals, world, context, service, setup>>

SaveTempWrite(g) ==
    /\ pc[g] = "write"
    /\ Goto(g, AfterSave(g))
    /\ \/ temp' = Overlay(temp, draft[g]) /\ UNCHANGED diskFailed
       \/ DiskFails /\ UNCHANGED temp
    /\ UNCHANGED <<draft, stops, told, finals, world, context, service, setup>>

-----------------------------------------------------------------------------
(* main: Start.                                                            *)

(* NewService, EnableRecovery, setupSignalHandling.                        *)
Launch(c) ==
    /\ pc["main"] = "off"
    /\ run < MaxRuns
    /\ pc' = [main |-> "boot", sig |-> "waiting"]
    /\ exit' = NotExited
    /\ config' = c
    /\ run' = run + 1
    /\ report' = NoResult
    /\ recovered' = NoFile
    /\ synced' = FALSE
    /\ verdict' = "none"
    /\ ctx' = "live"
    /\ cancelled' = FALSE
    /\ aborted' = FALSE
    /\ started' = FALSE
    /\ closed' = FALSE
    /\ exporter' = FALSE
    /\ told' = "nothing"
    /\ draft' = [g \in Goroutine |-> NoResult]
    /\ diskFailed' = FALSE
    /\ UNCHANGED <<temp, finals, world>>

(* Start returns an error, which is fatal: ParseEthereumPackage,           *)
(* ethereum.Run, the inspection of a client, the metrics exporter, whose   *)
(* container the handler's Stop may be removing.                           *)
StartFails ==
    /\ \/ /\ pc["main"] \in {"recover", "network", "connect"}
          /\ Failures \/ StartAborted \/ ~({"el", "cl"} \subseteq services)
       \/ /\ pc["main"] = "healthy" /\ exporter
          /\ Failures \/ StartAborted \/ pc["sig"] = "stopCall"
    /\ Exit(1)
    /\ UNCHANGED <<draft, stops, told, disk, world, context, service, setup>>

BeginStart ==
    /\ pc["main"] = "boot"
    /\ started' = TRUE
    /\ Goto("main", "recover")
    /\ UNCHANGED <<draft, stops, told, disk, world, context, service, config, run>>

(* getExpectedServices names the two clients and a metrics exporter.       *)
ExpectedServices == {"el", "cl", "exporter"}

(* The enclave is looked up by its default name; all processes of an       *)
(* instance are given the same name, so that no other test's is found.     *)
CheckRecoverable == enclave /\ config.defaultName

(* CheckRecoverable, then ValidateEnclave.                                 *)
Recoverable == CheckRecoverable /\ ExpectedServices \subseteq services

(* A file that does not parse is no report.                                *)
LoadTempReport == IF IsReport(temp) THEN temp ELSE NoFile

CheckRecovery ==
    /\ pc["main"] = "recover"
    /\ \/ config.recovery /\ Recoverable /\ ~StartAborted /\ recovered' = LoadTempReport
       \/ (config.recovery => ~Recoverable \/ Failures \/ StartAborted)
            /\ recovered' = NoFile
    /\ Goto("main", "network")
    /\ UNCHANGED <<draft, stops, told, disk, world, context, report, synced, verdict, setup>>

(* The services an enclave of Start's configuration has: the exporter of   *)
(* the package is disabled, EthereumMetricsExporterEnabled: false.         *)
ConfiguredServices == {"el", "cl"}

(* ethereum.Run with WithReuse and WithOrphanOnExit: an enclave of that    *)
(* name is used as it is, and it outlives the process.                     *)
RunNetwork ==
    /\ pc["main"] = "network"
    /\ ~StartAborted
    /\ enclave' = TRUE
    /\ services' = IF enclave THEN services ELSE ConfiguredServices
    /\ Goto("main", "report")
    /\ UNCHANGED <<draft, stops, told, disk, context, service, setup>>

StartReport ==
    /\ pc["main"] = "report"
    /\ report' = [report EXCEPT !.run = run, !.status = "running"]
    /\ Goto("main", "restore")
    /\ UNCHANGED <<draft, stops, told, disk, world, context, recovered, synced, verdict, setup>>

BadRestoreKeepsNewRunID ==
    /\ pc["main"] = "restore"
    /\ report' = IF IsReport(recovered) THEN [recovered EXCEPT !.run = run] ELSE report
    /\ Goto("main", "announce")
    /\ UNCHANGED <<draft, stops, told, disk, world, context, recovered, synced, verdict, setup>>

RestoreReportState ==
    /\ pc["main"] = "restore"
    /\ report' = IF IsReport(recovered) THEN recovered ELSE report
    /\ Goto("main", "announce")
    /\ UNCHANGED <<draft, stops, told, disk, world, context, recovered, synced, verdict, setup>>

(* The first keepalive; a failure to report is only logged.                *)
Announce ==
    /\ pc["main"] = "announce"
    /\ \/ config.server /\ ~StartAborted /\ told' = "running"
       \/ (config.server => Failures \/ StartAborted) /\ UNCHANGED told
    /\ Goto("main", "connect")
    /\ UNCHANGED <<draft, stops, disk, world, context, service, setup>>

(* The clients are inspected and the container of the metrics exporter is  *)
(* started.                                                                *)
Connect ==
    /\ pc["main"] = "connect"
    /\ ~StartAborted
    /\ exporter' = TRUE
    /\ Goto("main", "healthy")
    /\ UNCHANGED <<draft, closed, told, disk, world, context, service, setup>>

(* main slices containerID, and an empty one panics (exit code 2): Stop    *)
(* may have cleared it.  Then WaitForSync arms its deadline.               *)
waitForContainerHealth ==
    /\ pc["main"] = "healthy"
    /\ \/ exporter /\ Goto("main", "loop")
       \/ ~exporter /\ Exit(2)
    /\ UNCHANGED <<draft, stops, told, disk, world, context, service, setup>>

-----------------------------------------------------------------------------
(* main: WaitForSync.                                                      *)

(* The test ends: testCompleted, SetSyncStatus.                            *)
Conclude(status) ==
    /\ verdict' = status
    /\ report' = [report EXCEPT !.status = status]
    /\ Goto("main", "tell")
    /\ UNCHANGED <<recovered, synced>>

BadLoopTopIgnoresDeadline ==
    /\ pc["main"] = "loop"
    /\ \/ ctx = "canceled" /\ Exit(1) /\ UNCHANGED service
       \/ ctx # "canceled" /\ Goto("main", "health") /\ UNCHANGED service
    /\ UNCHANGED <<draft, stops, told, disk, world, context, setup>>

LoopTop ==
    /\ pc["main"] = "loop"
    /\ \/ ctx = "deadline" /\ Conclude("timeout")
       \/ ctx = "canceled" /\ Exit(1) /\ UNCHANGED service
       \/ ctx = "live" /\ Goto("main", "health") /\ UNCHANGED service
    /\ UNCHANGED <<draft, stops, told, disk, world, context, setup>>

(* checkContainerHealth of EL, then of CL: a status that cannot be read    *)
(* counts as healthy.                                                      *)
CheckHealth ==
    /\ pc["main"] = "health"
    /\ \/ /\ ~cancelled
          /\ ~({"el", "cl"} \subseteq services)
          /\ Conclude("error")
       \/ /\ Failures \/ cancelled \/ {"el", "cl"} \subseteq services
          /\ Goto("main", "poll")
          /\ UNCHANGED service
    /\ UNCHANGED <<draft, stops, told, disk, world, context, setup>>

BadPollAddsAlways ==
    /\ pc["main"] = "poll"
    /\ \E all, isSynced \in BOOLEAN :
          /\ all \/ isSynced => ~cancelled /\ {"el", "cl"} \subseteq services
          /\ all => report.entries < MaxEntries
          /\ synced' = isSynced
          /\ report' = [report EXCEPT !.entries = @ + 1]
          /\ Goto("main", "check")
    /\ UNCHANGED <<draft, stops, told, disk, world, context, recovered, verdict, setup>>

BadPollSavesLate ==
    /\ pc["main"] = "poll"
    /\ \E all, isSynced \in BOOLEAN :
          /\ all \/ isSynced => ~cancelled /\ {"el", "cl"} \subseteq services
          /\ all => report.entries < MaxEntries
          /\ synced' = isSynced
          /\ report' = IF all THEN [report EXCEPT !.entries = @ + 1] ELSE report
          /\ IF all /\ config.recovery /\ report'.entries > SaveEvery
             THEN Goto("main", "open") /\ draft' = [draft EXCEPT !["main"] = report']
             ELSE Goto("main", "check") /\ UNCHANGED draft
    /\ UNCHANGED <<stops, told, disk, world, context, recovered, verdict, setup>>

(* GetSyncStatus of both clients and FetchMetrics.  If all three answer,   *)
(* an entry is added, and every SaveEvery entries a temp report is saved.  *)
(* Both clients may be synced although the metrics were not read.          *)
Poll ==
    /\ pc["main"] = "poll"
    /\ \E all, isSynced \in BOOLEAN :
          /\ all \/ isSynced => ~cancelled /\ {"el", "cl"} \subseteq services
          /\ all => report.entries < MaxEntries
          /\ synced' = isSynced
          /\ report' = IF all THEN [report EXCEPT !.entries = @ + 1] ELSE report
          /\ IF all /\ config.recovery /\ report'.entries % SaveEvery = 0
             THEN Goto("main", "open") /\ draft' = [draft EXCEPT !["main"] = report']
             ELSE Goto("main", "check") /\ UNCHANGED draft
    /\ UNCHANGED <<stops, told, disk, world, context, recovered, verdict, setup>>

(* The end of an iteration: finish, or sleep for CheckInterval.            *)
CheckSynced ==
    /\ pc["main"] = "check"
    /\ \/ synced /\ Conclude("success")
       \/ ~synced /\ Goto("main", "loop") /\ UNCHANGED service
    /\ UNCHANGED <<draft, stops, told, disk, world, context, setup>>

BadReportTestCompleteSkipsSave ==
    /\ pc["main"] = "tell"
    /\ \/ /\ config.server /\ ~cancelled
          /\ told' = (IF verdict = "success" THEN "success" ELSE "failure")
          /\ Goto("main", "openProgress")
       \/ /\ config.server => Failures \/ cancelled
          /\ Goto("main", "cleanup")
          /\ UNCHANGED told
    /\ UNCHANGED <<draft, stops, disk, world, context, service, setup>>

(* ReportTestComplete; a failure to report is only logged.                 *)
ReportTestComplete ==
    /\ pc["main"] = "tell"
    /\ \/ config.server /\ ~cancelled
            /\ told' = (IF verdict = "success" THEN "success" ELSE "failure")
       \/ (config.server => Failures \/ cancelled) /\ UNCHANGED told
    /\ Goto("main", "openProgress")
    /\ UNCHANGED <<draft, stops, disk, world, context, service, setup>>

(* SaveReportToFiles: the progress file, then the main file, each          *)
(* truncated and then written.                                             *)
SetProgress(file) == finals' = [finals EXCEPT ![report.run].progress = file]
SetMain(file)     == finals' = [finals EXCEPT ![report.run].main = file]

BadWriteStepMainFirst(label, next) ==
    /\ pc["main"] = label
    /\ Goto("main", next)
    /\ \/ label = "openProgress"  /\ SetMain(Torn)
       \/ label = "writeProgress"
            /\ SetMain([status |-> report.status, entries |-> report.entries])
       \/ label = "openMain"      /\ SetProgress(Torn)
       \/ label = "writeMain"     /\ SetProgress(report.entries)
    /\ UNCHANGED <<draft, stops, told, temp, diskFailed, world, context, service, setup>>

WriteStep(label, next) ==
    /\ pc["main"] = label
    /\ Goto("main", next)
    /\ \/ label = "openProgress"  /\ SetProgress(Torn)
       \/ label = "writeProgress" /\ SetProgress(report.entries)
       \/ label = "openMain"      /\ SetMain(Torn)
       \/ label = "writeMain"
            /\ SetMain([status |-> report.status, entries |-> report.entries])
    /\ UNCHANGED <<draft, stops, told, temp, diskFailed, world, context, service, setup>>

BadSaveFailsIgnored ==
    /\ pc["main"] \in {"openProgress", "writeProgress", "openMain", "writeMain"}
    /\ DiskFails
    /\ Goto("main", "cleanup")
    /\ UNCHANGED <<draft, stops, told, temp, finals, world, context, service, setup>>

(* A step of it fails.  After a success this ends the process with an      *)
(* error; finalizeSyncTest only logs it.                                   *)
SaveFails ==
    /\ pc["main"] \in {"openProgress", "writeProgress", "openMain", "writeMain"}
    /\ DiskFails
    /\ \/ verdict = "success" /\ Exit(1)
       \/ verdict # "success" /\ Goto("main", "exporter")
    /\ UNCHANGED <<draft, stops, told, temp, finals, world, context, service, setup>>

AfterFiling == IF verdict = "success" THEN "cleanup" ELSE "exporter"

SaveReportToFiles ==
    \/ WriteStep("openProgress", "writeProgress")
    \/ WriteStep("writeProgress", "openMain")
    \/ WriteStep("openMain", "writeMain")
    \/ WriteStep("writeMain", AfterFiling)
    \/ SaveFails

-----------------------------------------------------------------------------
(* Manager.Stop of the metrics exporter, called by finalizeSyncTest after  *)
(* a failed test and by Stop.  It reads containerID, and reads it again to *)
(* pass it to StopContainer, which slices it: the other goroutine may have *)
(* cleared it between the two.                                             *)
CallLabel == {"exporterCall", "deferredCall", "stopCall"}

FindsContainer(g, label, call) ==
    /\ pc[g] = label
    /\ exporter
    /\ Goto(g, call)
    /\ UNCHANGED <<draft, stops, told, disk, world, context, service, setup>>

SlicesEmptyID(g, call) ==
    /\ pc[g] = call
    /\ ~exporter
    /\ Exit(2)
    /\ UNCHANGED <<draft, stops, told, disk, world, context, service, setup>>

(* containerID is cleared unless the call fails: Docker does, the context  *)
(* is done, or the other goroutine is removing the same container.         *)
StopContainer(g, done) ==
    /\ exporter
    /\ \/ ~done /\ exporter' = FALSE
       \/ /\ Failures \/ done \/ \E other \in Goroutine \ {g} : pc[other] \in CallLabel
          /\ UNCHANGED exporter

(* In finalizeSyncTest, under main's context.                              *)
StopExporter ==
    \/ FindsContainer("main", "exporter", "exporterCall")
    \/ SlicesEmptyID("main", "exporterCall")
    \/ /\ \/ pc["main"] = "exporter" /\ ~exporter /\ UNCHANGED exporter
          \/ pc["main"] = "exporterCall" /\ StopContainer("main", cancelled)
       /\ Goto("main", "cleanup")
       /\ UNCHANGED <<draft, closed, told, disk, world, context, service, setup>>

ExitCode == CASE verdict = "timeout" -> 124 [] verdict = "error" -> 125

BadRemoveTempReportOnFailureOnly ==
    /\ pc["main"] = "cleanup"
    /\ \/ config.recovery /\ verdict # "success" /\ temp' = NoFile /\ UNCHANGED diskFailed
       \/ config.recovery /\ DiskFails /\ UNCHANGED temp
       \/ (~config.recovery \/ verdict = "success") /\ UNCHANGED <<temp, diskFailed>>
    /\ \/ verdict = "success" /\ Goto("main", "deferred")
       \/ verdict # "success" /\ Exit(ExitCode)
    /\ UNCHANGED <<draft, stops, told, finals, world, context, service, setup>>

(* RemoveTempReport, and for a failed test the end of the process:         *)
(* os.Exit skips the deferred Stop.                                        *)
RemoveTempReport ==
    /\ pc["main"] = "cleanup"
    /\ \/ config.recovery /\ temp' = NoFile /\ UNCHANGED diskFailed
       \/ config.recovery /\ DiskFails /\ UNCHANGED temp
       \/ ~config.recovery /\ UNCHANGED <<temp, diskFailed>>
    /\ \/ verdict = "success" /\ Goto("main", "deferred")
       \/ verdict # "success" /\ Exit(ExitCode)
    /\ UNCHANGED <<draft, stops, told, finals, world, context, service, setup>>

-----------------------------------------------------------------------------
(* Stop, called by the signal handler and by main's defer: the exporter    *)
(* first, under a context of its own; then the reporting client closes     *)
(* stopCh, and closing it again panics; then s.cancel().                   *)
CloseAndCancel(g, next) ==
    \/ /\ config.server /\ closed
       /\ Exit(2)
       /\ UNCHANGED <<closed, aborted>>
    \/ /\ ~(config.server /\ closed)
       /\ closed' = config.server
       /\ aborted' = (aborted \/ started)
       /\ Goto(g, next)

Stop(g, label, call, next) ==
    \/ FindsContainer(g, label, call)
    \/ SlicesEmptyID(g, call)
    \/ /\ \/ pc[g] = label /\ ~exporter /\ UNCHANGED exporter
          \/ pc[g] = call /\ StopContainer(g, FALSE)
       /\ CloseAndCancel(g, next)
       /\ UNCHANGED <<draft, told, disk, world, ctx, cancelled, service, setup>>

DeferredStop == Stop("main", "deferred", "deferredCall", "return")

Return ==
    /\ pc["main"] = "return"
    /\ Exit(0)
    /\ UNCHANGED <<draft, stops, told, disk, world, context, service, setup>>

(* The signal handler.  SaveTempReport takes a copy of the report as it is *)
(* and does nothing unless recovery is enabled.  The handler's attempt to  *)
(* set the status "cancelled" comes to nothing: the synctest service has   *)
(* no SetSyncStatus.  A second signal is never read.                       *)
Signal ==
    /\ pc["sig"] = "waiting"
    /\ draft' = [draft EXCEPT !["sig"] = report]
    /\ Goto("sig", IF config.recovery THEN "open" ELSE "stop")
    /\ UNCHANGED <<stops, told, disk, world, context, service, setup>>

SignalStop == Stop("sig", "stop", "stopCall", "cancel")

SignalCancel ==
    /\ pc["sig"] = "cancel"
    /\ cancelled' = TRUE
    /\ ctx' = IF ctx = "live" THEN "canceled" ELSE ctx
    /\ Goto("sig", "done")
    /\ UNCHANGED <<draft, stops, told, disk, world, aborted, service, setup>>

-----------------------------------------------------------------------------
(* The world.                                                              *)

(* The deadline of WaitForSync passes: RunTimeout, 60 minutes by default.  *)
DeadlinePasses ==
    /\ pc["main"] \notin {"off", "boot", "recover", "network", "report",
                          "restore", "announce", "connect", "healthy"}
    /\ ctx = "live"
    /\ ctx' = "deadline"
    /\ UNCHANGED <<pc, draft, stops, told, exit, disk, world, cancelled, aborted, service, setup>>

(* SIGKILL, the machine stops, the process runs out of memory.             *)
Kill ==
    /\ pc["main"] # "off"
    /\ Exit(Killed)
    /\ UNCHANGED <<draft, stops, told, disk, world, context, service, setup>>

CrashContainer(s) ==
    /\ s \in services
    /\ services' = services \ {s}
    /\ UNCHANGED <<pc, draft, stops, told, exit, disk, enclave, context, service, setup>>

(* Somebody removes the enclave between two runs.                          *)
RemoveEnclave ==
    /\ pc["main"] = "off"
    /\ enclave
    /\ enclave' = FALSE
    /\ services' = {}
    /\ UNCHANGED <<pc, draft, stops, told, exit, disk, context, service, setup>>

-----------------------------------------------------------------------------
Init ==
    /\ pc = [g \in Goroutine |-> "off"]
    /\ config \in Config
    /\ run = 0
    /\ report = NoResult
    /\ recovered = NoFile
    /\ draft = [g \in Goroutine |-> NoResult]
    /\ synced = FALSE
    /\ verdict = "none"
    /\ ctx = "live"
    /\ cancelled = FALSE
    /\ started = FALSE
    /\ aborted = FALSE
    /\ closed = FALSE
    /\ exporter = FALSE
    /\ told = "nothing"
    /\ temp = NoFile
    /\ finals = [r \in RunID |-> NoFinal]
    /\ services = InitialServices
    /\ enclave = (InitialServices # {})
    /\ exit = NotExited
    /\ diskFailed = FALSE

Starting ==
    \/ BeginStart \/ CheckRecovery \/ RunNetwork \/ StartReport
    \/ RestoreReportState \/ Announce \/ Connect \/ waitForContainerHealth
    \/ StartFails

Waiting ==
    \/ LoopTop \/ CheckHealth \/ Poll \/ CheckSynced
    \/ SaveTempOpen("main") \/ SaveTempWrite("main")

Finishing ==
    \/ ReportTestComplete \/ SaveReportToFiles \/ StopExporter
    \/ RemoveTempReport \/ DeferredStop \/ Return

Main == Starting \/ Waiting \/ Finishing

SignalHandler ==
    \/ SaveTempOpen("sig") \/ SaveTempWrite("sig") \/ SignalStop \/ SignalCancel

World ==
    \/ \E c \in Config : Launch(c)
    \/ Signal \/ DeadlinePasses \/ Kill \/ RemoveEnclave
    \/ \E s \in Service : CrashContainer(s)

Next == Main \/ SignalHandler \/ World

Spec == Init /\ [][Next]_vars

(* Both goroutines are scheduled, the calls they make return, and a        *)
(* deadline passes; nothing is assumed of signals, crashes or launches.    *)
FairSpec ==
    /\ Spec
    /\ WF_vars(Main)
    /\ WF_vars(SignalHandler)
    /\ WF_vars(DeadlinePasses)

-----------------------------------------------------------------------------
(* Properties.                                                             *)

(* Every variable has its type.                                            *)
TypeOK ==
    /\ pc \in [Goroutine -> MainLabel \cup SigLabel]
    /\ pc["main"] \in MainLabel /\ pc["sig"] \in SigLabel
    /\ config \in Config
    /\ run \in RunID
    /\ report \in Result
    /\ recovered \in Result \cup {NoFile}
    /\ draft \in [Goroutine -> Result]
    /\ synced \in BOOLEAN
    /\ verdict \in Verdicts \cup {"none"}
    /\ ctx \in {"live", "deadline", "canceled"}
    /\ cancelled \in BOOLEAN /\ started \in BOOLEAN
    /\ aborted \in BOOLEAN
    /\ closed \in BOOLEAN /\ exporter \in BOOLEAN
    /\ told \in {"nothing", "running", "success", "failure"}
    /\ temp \in Result \cup {NoFile, Torn}
    /\ finals \in [RunID -> Final]
    /\ services \subseteq Service
    /\ enclave \in BOOLEAN
    /\ exit \in {NotExited, 0, 1, 2, 124, 125, Killed}
    /\ diskFailed \in BOOLEAN

(* The final report of the last process is on disk, whole.                 *)
Reported(status) ==
    finals[report.run] =
        [progress |-> report.entries,
         main |-> [status |-> status, entries |-> report.entries]]

(* What is on record of a test that ended so: its whole report, and no     *)
(* contrary completion on the server.  finalizeSyncTest goes on when the   *)
(* disk fails.                                                             *)
OnRecord(status) ==
    /\ Reported(status) \/ (status # "success" /\ diskFailed)
    /\ told # (IF status = "success" THEN "failure" ELSE "success")

(* A script that runs syncoor goes by the exit code, a person by the       *)
(* report, the dashboard by what the server was told: the three tell the   *)
(* same story, whatever the signal handler did meanwhile.  Exit 0, 124 and *)
(* 125 mean that a success, a timeout, an error is on record; a success    *)
(* the server was told of ends in 1 only if the report could not be saved; *)
(* and a panic, in whichever Stop it is, hits only a test that did not     *)
(* begin or one whose verdict is on record already.                        *)
OutcomesAgree ==
    pc["main"] = "off" =>
        /\ exit = 0 => OnRecord("success")
        /\ exit = 124 => OnRecord("timeout")
        /\ exit = 125 => OnRecord("error")
        /\ exit = 2 => IF verdict = "none" THEN told \in {"nothing", "running"}
                       ELSE OnRecord(verdict)
        /\ exit = 1 => told # "failure" /\ (told = "success" => diskFailed)

(* The main file of a final report never promises entries its progress     *)
(* file has not: a process may die between the two writes.                 *)
FinalFilesMatch ==
    \A r \in RunID :
        finals[r].main \notin {NoFile, Torn} =>
            /\ finals[r].progress \notin {NoFile, Torn}
            /\ finals[r].progress = finals[r].main.entries

(* A process that dies in WaitForSync loses less than SaveEvery entries:   *)
(* the rest is in the temp report.                                         *)
BoundedLoss ==
    pc["main"] = "loop" /\ pc["sig"] = "waiting" /\ config.recovery /\ ~diskFailed =>
        report.entries < SaveEvery +
            (IF IsReport(temp) /\ temp.run = report.run THEN temp.entries ELSE 0)

(* A test that ended leaves no temp report behind to be resumed, unless a  *)
(* signal arrived or the disk failed.                                      *)
EndedLeavesNoTemp ==
    pc["main"] = "deferred" /\ pc["sig"] = "waiting" /\ config.recovery /\ ~diskFailed =>
        temp = NoFile

(* RemoveTempReport never destroys the only record of a test: the entries  *)
(* of the temp report of this run are in its final report by then, unless  *)
(* the disk failed.                                                        *)
RemovalLosesNothing ==
    [][IsReport(temp) /\ temp' = NoFile /\ temp.run = report.run /\ ~diskFailed =>
          /\ finals[temp.run].main \notin {NoFile, Torn}
          /\ finals[temp.run].progress >= temp.entries]_vars

(* What RestoreReportState restored stays: the test goes on under its old  *)
(* RunID and keeps the entries it had.                                     *)
RestoredIsKept ==
    IsReport(recovered)
    /\ pc["main"] \notin {"off", "boot", "recover", "network", "report", "restore"} =>
        report.run = recovered.run /\ report.entries >= recovered.entries

(* Every process ends: the deadline of WaitForSync sees to it.             *)
Terminates == pc["main"] # "off" ~> pc["main"] = "off"

(* The flag --enable-recovery: a test of an earlier process whose temp     *)
(* report is on disk and whose clients run goes on where it was.           *)
ResumesInterrupted ==
    [][(/\ pc["main"] = "recover" /\ pc'["main"] = "network"
        /\ config.recovery /\ ~StartAborted
        /\ IsReport(temp) /\ temp.run \in 1 .. run - 1
        /\ enclave /\ {"el", "cl"} \subseteq services)
       => recovered' = temp]_vars

(* The signal handler saves progress: when it has written the temp report  *)
(* that file holds no less than before.                                    *)
SignalSavesProgress ==
    [][pc["sig"] = "open" /\ IsReport(temp) /\ temp' = Torn =>
          draft["sig"].entries >= temp.entries]_vars

(* `syncoor sync --help`: exit code 0 is "sync completed successfully".  A *)
(* test that succeeded and has its report on disk ends with it.            *)
SuccessExitsWithZero ==
    pc["main"] = "off" /\ verdict = "success" /\ Reported("success") /\ exit # Killed =>
        exit = 0

=============================================================================
