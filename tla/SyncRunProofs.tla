--------------------------- MODULE SyncRunProofs ---------------------------
(***************************************************************************)
(* Proofs about SyncRun for any number of runs and entries and any command *)
(* lines: type correctness, that exit code, report and server agree, and   *)
(* what becomes of the entries of a test: in memory, in the temp file, in  *)
(* the final files, over a crash and a resumption.                         *)
(*                                                                         *)
(* OutcomesAgree speaks of a process that ended.  It is inductive only     *)
(* together with what main knows at each step on the way there: Story.     *)
(* The entries need two more invariants: whose reports there are and which *)
(* has more entries (Lineage), and how far the temp file is behind the     *)
(* report (Saving).  Both are proved from a short list of kinds of steps   *)
(* (Kinds) instead of from the thirty actions.                             *)
(***************************************************************************)
EXTENDS SyncRun, TLAPS

Undecided ==
    {"boot", "recover", "network", "report", "restore", "announce", "connect",
     "healthy", "loop", "health", "poll", "open", "write", "check"}

Decided ==
    {"tell", "openProgress", "writeProgress", "openMain", "writeMain",
     "exporter", "exporterCall", "cleanup", "deferred", "deferredCall", "return"}

(* The labels of the signal handler before its Stop closes anything.       *)
BeforeStop == {"waiting", "open", "write", "stop", "stopCall"}

(* finalizeSyncTest goes on when the disk fails; a success does not.       *)
Excused == verdict # "success" /\ diskFailed

(* While the test runs nothing was said of its end.                        *)
NothingToldYet ==
    /\ pc["main"] \in Undecided \cup {"tell"} => told \in {"nothing", "running"}
    /\ pc["main"] \in Undecided => verdict = "none"

(* Once it ended, the report has the verdict and the server no other.      *)
VerdictTold ==
    pc["main"] \in Decided =>
        /\ verdict \in Verdicts
        /\ report.status = verdict
        /\ told = "success" => verdict = "success"
        /\ told = "failure" => verdict # "success"

(* How much of the final report is on disk.                                *)
ReportSaved ==
    /\ pc["main"] \in {"openMain", "writeMain"} =>
          Excused \/ finals[report.run].progress = report.entries
    /\ pc["main"] \in {"exporter", "exporterCall"} => verdict # "success"
    /\ pc["main"] \in {"exporter", "exporterCall", "cleanup"} =>
          Excused \/ Reported(verdict)
    /\ pc["main"] \in {"deferred", "deferredCall", "return"} =>
          verdict = "success" /\ Reported("success")

(* Who may have called Stop: the handler before it cancels, or main.  The  *)
(* container ID disappears under the handler only when main has stopped    *)
(* the exporter of a test whose verdict is on record.                      *)
StoppedBy ==
    /\ closed /\ pc["sig"] \in BeforeStop => pc["main"] \in {"off", "return"}
    /\ pc["sig"] = "stopCall" /\ ~exporter =>
          \/ pc["main"] = "cleanup" /\ verdict # "success"
          \/ pc["main"] = "return"
    /\ pc["main"] = "off" <=> pc["sig"] = "off"

Story == NothingToldYet /\ VerdictTold /\ ReportSaved /\ StoppedBy /\ OutcomesAgree

(* TypeOK in three parts, by what disturbs them.                           *)
PcOK ==
    /\ pc \in [Goroutine -> MainLabel \cup SigLabel]
    /\ pc["main"] \in MainLabel /\ pc["sig"] \in SigLabel

ReportsOK ==
    /\ report \in Result
    /\ recovered \in Result \cup {NoFile}
    /\ draft \in [Goroutine -> Result]
    /\ temp \in Result \cup {NoFile, Torn}
    /\ finals \in [RunID -> Final]

RestOK ==
    /\ config \in Config
    /\ run \in RunID
    /\ synced \in BOOLEAN
    /\ verdict \in Verdicts \cup {"none"}
    /\ ctx \in {"live", "deadline", "canceled"}
    /\ cancelled \in BOOLEAN /\ started \in BOOLEAN
    /\ aborted \in BOOLEAN
    /\ closed \in BOOLEAN /\ exporter \in BOOLEAN
    /\ told \in {"nothing", "running", "success", "failure"}
    /\ services \subseteq Service
    /\ enclave \in BOOLEAN
    /\ exit \in {NotExited, 0, 1, 2, 124, 125, Killed}
    /\ diskFailed \in BOOLEAN

LEMMA TypeParts == TypeOK <=> PcOK /\ ReportsOK /\ RestOK
BY DEF TypeOK, PcOK, ReportsOK, RestOK

IInv == PcOK /\ ReportsOK /\ RestOK /\ Story

-----------------------------------------------------------------------------
(* Control: what Goto and Exit do to the two goroutines.                   *)

LEMMA GotoMain ==
    ASSUME PcOK, NEW l \in MainLabel, Goto("main", l)
    PROVE  PcOK' /\ pc'["main"] = l /\ pc'["sig"] = pc["sig"] /\ exit' = exit
BY DEF PcOK, Goto, Goroutine

LEMMA GotoSig ==
    ASSUME PcOK, NEW l \in SigLabel, Goto("sig", l)
    PROVE  PcOK' /\ pc'["sig"] = l /\ pc'["main"] = pc["main"] /\ exit' = exit
BY DEF PcOK, Goto, Goroutine

LEMMA ExitBoth ==
    ASSUME NEW code, Exit(code)
    PROVE  PcOK' /\ pc'["main"] = "off" /\ pc'["sig"] = "off" /\ exit' = code
BY DEF PcOK, Exit, Goroutine, MainLabel, SigLabel

(* diskFailed is sticky.                                                   *)
LEMMA DiskFailedStays ==
    ASSUME RestOK, DiskFails \/ UNCHANGED diskFailed
    PROVE  diskFailed' \in BOOLEAN /\ (diskFailed => diskFailed')
<1>1. diskFailed \in BOOLEAN
  BY DEF RestOK
<1>2. CASE diskFailed' = TRUE
  BY <1>2
<1>3. CASE diskFailed' = diskFailed
  BY <1>1, <1>3
<1>4. QED
  BY <1>2, <1>3 DEF DiskFails

-----------------------------------------------------------------------------
(* Story is kept by steps of four kinds.                                   *)

(* A step that touches nothing of it.                                      *)
LEMMA Aside ==
    ASSUME IInv, UNCHANGED <<pc, report, told, finals, verdict, stops, exit>>,
           diskFailed => diskFailed'
    PROVE  Story'
<1> USE DEF IInv, Story
<1>1. NothingToldYet' /\ VerdictTold'
  BY DEF NothingToldYet, VerdictTold
<1>2. ReportSaved'
  BY DEF ReportSaved, Excused, Reported
<1>3. StoppedBy'
  BY DEF StoppedBy, stops
<1>4. OutcomesAgree'
  BY DEF OutcomesAgree, OnRecord, Reported
<1>5. QED
  BY <1>1, <1>2, <1>3, <1>4

(* main moves while the test is undecided.                                 *)
LEMMA StillUndecided ==
    ASSUME IInv, pc["main"] \in Undecided, pc'["main"] \in Undecided,
           pc'["sig"] = pc["sig"], told' = told \/ told' = "running",
           UNCHANGED <<closed, verdict>>, exporter => exporter'
    PROVE  Story'
<1> USE DEF IInv, Story, Undecided
<1>1. NothingToldYet' /\ VerdictTold'
  BY DEF NothingToldYet, VerdictTold, Decided
<1>2. ReportSaved'
  BY DEF ReportSaved
<1>3. StoppedBy'
  BY DEF StoppedBy
<1>4. OutcomesAgree'
  BY DEF OutcomesAgree
<1>5. QED
  BY <1>1, <1>2, <1>3, <1>4

(* The signal handler moves; if it calls Stop it is past BeforeStop.       *)
LEMMA HandlerMoves ==
    ASSUME IInv, pc'["main"] = pc["main"], pc["sig"] # "off", pc'["sig"] # "off",
           UNCHANGED <<report, told, finals, verdict, exit>>,
           diskFailed => diskFailed',
           pc'["sig"] \in BeforeStop => pc["sig"] \in BeforeStop /\ closed' = closed,
           pc'["sig"] = "stopCall" => exporter'
    PROVE  Story'
<1> USE DEF IInv, Story
<1>1. NothingToldYet' /\ VerdictTold'
  BY DEF NothingToldYet, VerdictTold
<1>2. ReportSaved'
  BY DEF ReportSaved, Excused, Reported
<1>3. StoppedBy'
  BY DEF StoppedBy
<1>4. OutcomesAgree'
  BY DEF StoppedBy, OutcomesAgree, OnRecord, Reported
<1>5. QED
  BY <1>1, <1>2, <1>3, <1>4

(* The process ends.                                                       *)
LEMMA Ends ==
    ASSUME pc'["main"] = "off", pc'["sig"] = "off", OutcomesAgree'
    PROVE  Story'
<1>1. NothingToldYet' /\ VerdictTold' /\ ReportSaved'
  BY DEF NothingToldYet, VerdictTold, ReportSaved, Undecided, Decided
<1>2. StoppedBy'
  BY DEF StoppedBy, BeforeStop
<1>3. QED
  BY <1>1, <1>2 DEF Story

(* Exit codes OutcomesAgree asks nothing of, or only that no end was told. *)
LEMMA EndsUntold ==
    ASSUME pc'["main"] = "off", pc'["sig"] = "off",
           exit' = Killed \/ (exit' = 1 /\ told' \in {"nothing", "running"})
    PROVE  Story'
<1>1. OutcomesAgree'
  BY DEF OutcomesAgree, Killed
<1>2. QED
  BY <1>1, Ends

-----------------------------------------------------------------------------
(* Initial states.                                                         *)

LEMMA NoResultType == NoResult \in Result
BY BoundsAssumption DEF NoResult, Result, RunID, SyncStatus

LEMMA InitIInv == Init => IInv
<1> SUFFICES ASSUME Init PROVE IInv
  OBVIOUS
<1>1. NoFinal \in Final /\ 0 \in RunID
  BY BoundsAssumption DEF RunID, NoFinal, Final, ProgressFile, MainFile
<1>2. PcOK /\ pc["main"] = "off" /\ pc["sig"] = "off"
  BY DEF Init, PcOK, Goroutine, MainLabel, SigLabel
<1>3. ReportsOK
  BY <1>1, NoResultType DEF Init, ReportsOK
<1>4. RestOK
  BY <1>1, ServicesAssumption DEF Init, RestOK
<1>5. OutcomesAgree
  BY DEF Init, OutcomesAgree, NotExited
<1>6. Story
  BY <1>2, <1>5 DEF Story, NothingToldYet, VerdictTold, ReportSaved, StoppedBy,
     Undecided, Decided, BeforeStop
<1>7. QED
  BY <1>2, <1>3, <1>4, <1>6 DEF IInv

-----------------------------------------------------------------------------
(* main: Start.                                                            *)

LEMMA ConfigType == IInv => config.recovery \in BOOLEAN /\ config.server \in BOOLEAN
BY ConfigAssumption DEF IInv, RestOK

LEMMA StartingStep ==
    ASSUME IInv, Starting
    PROVE  IInv'
<1> USE DEF stops, disk, world, context, service, setup
<1>1. CASE BeginStart
  <2>1. pc["main"] = "boot" /\ Goto("main", "recover")
    BY <1>1 DEF BeginStart
  <2>2. PcOK' /\ pc'["main"] = "recover" /\ pc'["sig"] = pc["sig"] /\ exit' = exit
    BY <2>1, GotoMain DEF IInv, MainLabel
  <2>3. ReportsOK' /\ RestOK'
    BY <1>1, <2>2 DEF BeginStart, IInv, ReportsOK, RestOK
  <2>4. Story'
    BY <1>1, <2>1, <2>2, StillUndecided DEF BeginStart, Undecided
  <2>5. QED
    BY <2>2, <2>3, <2>4 DEF IInv
<1>2. CASE CheckRecovery
  <2>1. pc["main"] = "recover" /\ Goto("main", "network")
    BY <1>2 DEF CheckRecovery
  <2>2. PcOK' /\ pc'["main"] = "network" /\ pc'["sig"] = pc["sig"] /\ exit' = exit
    BY <2>1, GotoMain DEF IInv, MainLabel
  <2>3. recovered' \in Result \cup {NoFile}
    BY <1>2 DEF CheckRecovery, LoadTempReport, IsReport, IInv, ReportsOK
  <2>4. ReportsOK' /\ RestOK'
    BY <1>2, <2>2, <2>3 DEF CheckRecovery, IInv, ReportsOK, RestOK
  <2>5. Story'
    BY <1>2, <2>1, <2>2, StillUndecided DEF CheckRecovery, Undecided
  <2>6. QED
    BY <2>2, <2>4, <2>5 DEF IInv
<1>3. CASE RunNetwork
  <2>1. pc["main"] = "network" /\ Goto("main", "report")
    BY <1>3 DEF RunNetwork
  <2>2. PcOK' /\ pc'["main"] = "report" /\ pc'["sig"] = pc["sig"] /\ exit' = exit
    BY <2>1, GotoMain DEF IInv, MainLabel
  <2>3. services' \subseteq Service
    BY <1>3 DEF RunNetwork, ConfiguredServices, Service, IInv, RestOK
  <2>4. ReportsOK' /\ RestOK'
    BY <1>3, <2>2, <2>3 DEF RunNetwork, IInv, ReportsOK, RestOK
  <2>5. Story'
    BY <1>3, <2>1, <2>2, StillUndecided DEF RunNetwork, Undecided
  <2>6. QED
    BY <2>2, <2>4, <2>5 DEF IInv
<1>4. CASE StartReport
  <2>1. pc["main"] = "report" /\ Goto("main", "restore")
    BY <1>4 DEF StartReport
  <2>2. PcOK' /\ pc'["main"] = "restore" /\ pc'["sig"] = pc["sig"] /\ exit' = exit
    BY <2>1, GotoMain DEF IInv, MainLabel
  <2>3. report' \in Result
    BY <1>4 DEF StartReport, IInv, ReportsOK, RestOK, Result, SyncStatus
  <2>4. ReportsOK' /\ RestOK'
    BY <1>4, <2>2, <2>3 DEF StartReport, IInv, ReportsOK, RestOK
  <2>5. Story'
    BY <1>4, <2>1, <2>2, StillUndecided DEF StartReport, Undecided
  <2>6. QED
    BY <2>2, <2>4, <2>5 DEF IInv
<1>5. CASE RestoreReportState
  <2>1. pc["main"] = "restore" /\ Goto("main", "announce")
    BY <1>5 DEF RestoreReportState
  <2>2. PcOK' /\ pc'["main"] = "announce" /\ pc'["sig"] = pc["sig"] /\ exit' = exit
    BY <2>1, GotoMain DEF IInv, MainLabel
  <2>3. report' \in Result
    BY <1>5 DEF RestoreReportState, IsReport, IInv, ReportsOK
  <2>4. ReportsOK' /\ RestOK'
    BY <1>5, <2>2, <2>3 DEF RestoreReportState, IInv, ReportsOK, RestOK
  <2>5. Story'
    BY <1>5, <2>1, <2>2, StillUndecided DEF RestoreReportState, Undecided
  <2>6. QED
    BY <2>2, <2>4, <2>5 DEF IInv
<1>6. CASE Announce
  <2>1. pc["main"] = "announce" /\ Goto("main", "connect")
    BY <1>6 DEF Announce
  <2>2. PcOK' /\ pc'["main"] = "connect" /\ pc'["sig"] = pc["sig"] /\ exit' = exit
    BY <2>1, GotoMain DEF IInv, MainLabel
  <2>3. told' = told \/ told' = "running"
    BY <1>6 DEF Announce
  <2>4. ReportsOK' /\ RestOK'
    BY <1>6, <2>2, <2>3 DEF Announce, IInv, ReportsOK, RestOK
  <2>5. Story'
    BY <1>6, <2>1, <2>2, <2>3, StillUndecided DEF Announce, Undecided
  <2>6. QED
    BY <2>2, <2>4, <2>5 DEF IInv
<1>7. CASE Connect
  <2>1. pc["main"] = "connect" /\ Goto("main", "healthy")
    BY <1>7 DEF Connect
  <2>2. PcOK' /\ pc'["main"] = "healthy" /\ pc'["sig"] = pc["sig"] /\ exit' = exit
    BY <2>1, GotoMain DEF IInv, MainLabel
  <2>3. ReportsOK' /\ RestOK'
    BY <1>7, <2>2 DEF Connect, IInv, ReportsOK, RestOK
  <2>4. Story'
    BY <1>7, <2>1, <2>2, StillUndecided DEF Connect, Undecided
  <2>5. QED
    BY <2>2, <2>3, <2>4 DEF IInv
<1>8. CASE StartFails
  <2>1. PcOK' /\ pc'["main"] = "off" /\ pc'["sig"] = "off" /\ exit' = 1
    BY <1>8, ExitBoth DEF StartFails
  <2>2. told' \in {"nothing", "running"}
    BY <1>8 DEF StartFails, IInv, Story, NothingToldYet, Undecided
  <2>3. ReportsOK' /\ RestOK'
    BY <1>8, <2>1 DEF StartFails, IInv, ReportsOK, RestOK
  <2>4. Story'
    BY <2>1, <2>2, EndsUntold
  <2>5. QED
    BY <2>1, <2>3, <2>4 DEF IInv
<1>9. CASE waitForContainerHealth
  <2>1. pc["main"] = "healthy"
        /\ UNCHANGED <<draft, stops, told, disk, world, context, service, setup>>
    BY <1>9 DEF waitForContainerHealth
  <2>2. CASE Goto("main", "loop")
    <3>1. PcOK' /\ pc'["main"] = "loop" /\ pc'["sig"] = pc["sig"] /\ exit' = exit
      BY <2>2, GotoMain DEF IInv, MainLabel
    <3>2. ReportsOK' /\ RestOK'
      BY <2>1, <3>1 DEF IInv, ReportsOK, RestOK
    <3>3. Story'
      BY <2>1, <3>1, StillUndecided DEF Undecided
    <3>4. QED
      BY <3>1, <3>2, <3>3 DEF IInv
  <2>3. CASE Exit(2)
    <3>1. PcOK' /\ pc'["main"] = "off" /\ pc'["sig"] = "off" /\ exit' = 2
      BY <2>3, ExitBoth
    <3>2. verdict' = "none" /\ told' \in {"nothing", "running"}
      BY <2>1 DEF IInv, Story, NothingToldYet, Undecided
    <3>3. ReportsOK' /\ RestOK'
      BY <2>1, <3>1 DEF IInv, ReportsOK, RestOK
    <3>4. OutcomesAgree'
      BY <3>1, <3>2 DEF OutcomesAgree
    <3>5. QED
      BY <3>1, <3>3, <3>4, Ends DEF IInv
  <2>4. QED
    BY <1>9, <2>2, <2>3 DEF waitForContainerHealth
<1>10. QED
  BY <1>1, <1>2, <1>3, <1>4, <1>5, <1>6, <1>7, <1>8, <1>9 DEF Starting

-----------------------------------------------------------------------------
(* main: WaitForSync.                                                      *)

(* The test ends, whatever the iteration did before.                       *)
LEMMA ConcludeStep ==
    ASSUME IInv, NEW status \in Verdicts, Conclude(status),
           pc["main"] \in Undecided,
           UNCHANGED <<draft, stops, told, disk, world, context, setup>>
    PROVE  IInv'
<1> USE DEF stops, disk, world, context, setup
<1>1. Goto("main", "tell") /\ verdict' = status /\ report' = [report EXCEPT !.status = status]
      /\ UNCHANGED <<recovered, synced>>
  BY DEF Conclude
<1>2. PcOK' /\ pc'["main"] = "tell" /\ pc'["sig"] = pc["sig"] /\ exit' = exit
  BY <1>1, GotoMain DEF IInv, MainLabel
<1>3. report' \in Result /\ report'.status = status
  BY <1>1 DEF IInv, ReportsOK, Result, SyncStatus, Verdicts
<1>4. ReportsOK' /\ RestOK'
  BY <1>1, <1>2, <1>3 DEF IInv, ReportsOK, RestOK
<1>5. told' \in {"nothing", "running"}
  BY DEF IInv, Story, NothingToldYet
<1>6. NothingToldYet' /\ VerdictTold'
  BY <1>1, <1>2, <1>3, <1>5 DEF NothingToldYet, VerdictTold, Undecided
<1>7. ReportSaved' /\ OutcomesAgree'
  BY <1>2 DEF ReportSaved, OutcomesAgree
<1>8. StoppedBy'
  BY <1>2 DEF IInv, Story, StoppedBy, Undecided
<1>9. QED
  BY <1>2, <1>4, <1>6, <1>7, <1>8 DEF IInv, Story

LEMMA PollStep ==
    ASSUME IInv, Poll
    PROVE  IInv'
<1> USE DEF stops, disk, world, context, setup
<1> PICK all \in BOOLEAN, isSynced \in BOOLEAN :
        /\ all => report.entries < MaxEntries
        /\ synced' = isSynced
        /\ report' = IF all THEN [report EXCEPT !.entries = @ + 1] ELSE report
        /\ IF all /\ config.recovery /\ report'.entries % SaveEvery = 0
           THEN Goto("main", "open") /\ draft' = [draft EXCEPT !["main"] = report']
           ELSE Goto("main", "check") /\ UNCHANGED draft
  BY Zenon DEF Poll
<1>1. /\ pc["main"] = "poll"
      /\ UNCHANGED <<stops, told, disk, world, context, recovered, verdict, setup>>
  BY DEF Poll
<1>2. /\ PcOK' /\ pc'["sig"] = pc["sig"] /\ exit' = exit
      /\ pc'["main"] \in {"open", "check"}
  <2>1. CASE Goto("main", "open")
    BY <2>1, GotoMain DEF IInv, MainLabel
  <2>2. CASE Goto("main", "check")
    BY <2>2, GotoMain DEF IInv, MainLabel
  <2>3. QED
    BY <2>1, <2>2
<1>3. report' \in Result
  BY BoundsAssumption DEF IInv, ReportsOK, Result
<1>4. draft' \in [Goroutine -> Result]
  BY <1>3 DEF IInv, ReportsOK
<1>5. ReportsOK' /\ RestOK'
  BY <1>1, <1>2, <1>3, <1>4 DEF IInv, ReportsOK, RestOK
<1>6. Story'
  BY <1>1, <1>2, StillUndecided DEF Undecided
<1>7. QED
  BY <1>2, <1>5, <1>6 DEF IInv

LEMMA OverlayType ==
    ASSUME NEW file, NEW text \in Result
    PROVE  Overlay(file, text) \in Result \cup {NoFile, Torn}
BY Zenon DEF Overlay

LEMMA WaitingStep ==
    ASSUME IInv, Waiting
    PROVE  IInv'
<1> USE DEF stops, disk, world, context, service, setup
<1>1. CASE LoopTop
  <2>1. CASE Conclude("timeout")
    BY <1>1, <2>1, ConcludeStep DEF LoopTop, Undecided, Verdicts
  <2>2. CASE Exit(1) /\ UNCHANGED service
    <3>1. PcOK' /\ pc'["main"] = "off" /\ pc'["sig"] = "off" /\ exit' = 1
      BY <2>2, ExitBoth
    <3>2. told' \in {"nothing", "running"}
      BY <1>1 DEF LoopTop, IInv, Story, NothingToldYet, Undecided
    <3>3. ReportsOK' /\ RestOK'
      BY <1>1, <2>2, <3>1 DEF LoopTop, IInv, ReportsOK, RestOK
    <3>4. QED
      BY <3>1, <3>2, <3>3, EndsUntold DEF IInv
  <2>3. CASE Goto("main", "health") /\ UNCHANGED service
    <3>1. PcOK' /\ pc'["main"] = "health" /\ pc'["sig"] = pc["sig"] /\ exit' = exit
      BY <2>3, GotoMain DEF IInv, MainLabel
    <3>2. ReportsOK' /\ RestOK'
      BY <1>1, <2>3, <3>1 DEF LoopTop, IInv, ReportsOK, RestOK
    <3>3. Story'
      BY <1>1, <2>3, <3>1, StillUndecided DEF LoopTop, Undecided
    <3>4. QED
      BY <3>1, <3>2, <3>3 DEF IInv
  <2>4. QED
    BY <1>1, <2>1, <2>2, <2>3 DEF LoopTop
<1>2. CASE CheckHealth
  <2>1. CASE Conclude("error")
    BY <1>2, <2>1, ConcludeStep DEF CheckHealth, Undecided, Verdicts
  <2>2. CASE Goto("main", "poll") /\ UNCHANGED service
    <3>1. PcOK' /\ pc'["main"] = "poll" /\ pc'["sig"] = pc["sig"] /\ exit' = exit
      BY <2>2, GotoMain DEF IInv, MainLabel
    <3>2. ReportsOK' /\ RestOK'
      BY <1>2, <2>2, <3>1 DEF CheckHealth, IInv, ReportsOK, RestOK
    <3>3. Story'
      BY <1>2, <2>2, <3>1, StillUndecided DEF CheckHealth, Undecided
    <3>4. QED
      BY <3>1, <3>2, <3>3 DEF IInv
  <2>3. QED
    BY <1>2, <2>1, <2>2 DEF CheckHealth
<1>3. CASE Poll
  BY <1>3, PollStep
<1>4. CASE CheckSynced
  <2>1. CASE Conclude("success")
    BY <1>4, <2>1, ConcludeStep DEF CheckSynced, Undecided, Verdicts
  <2>2. CASE Goto("main", "loop") /\ UNCHANGED service
    <3>1. PcOK' /\ pc'["main"] = "loop" /\ pc'["sig"] = pc["sig"] /\ exit' = exit
      BY <2>2, GotoMain DEF IInv, MainLabel
    <3>2. ReportsOK' /\ RestOK'
      BY <1>4, <2>2, <3>1 DEF CheckSynced, IInv, ReportsOK, RestOK
    <3>3. Story'
      BY <1>4, <2>2, <3>1, StillUndecided DEF CheckSynced, Undecided
    <3>4. QED
      BY <3>1, <3>2, <3>3 DEF IInv
  <2>3. QED
    BY <1>4, <2>1, <2>2 DEF CheckSynced
<1>5. CASE SaveTempOpen("main")
  <2>1. PcOK' /\ pc'["main"] \in {"write", "check"} /\ pc'["sig"] = pc["sig"] /\ exit' = exit
    <3>1. CASE Goto("main", "write")
      BY <3>1, GotoMain DEF IInv, MainLabel
    <3>2. CASE Goto("main", "check")
      BY <3>2, GotoMain DEF IInv, MainLabel
    <3>3. QED
      BY <1>5, <3>1, <3>2 DEF SaveTempOpen, AfterSave
  <2>2. ReportsOK' /\ RestOK'
    <3>1. diskFailed' \in BOOLEAN /\ temp' \in Result \cup {NoFile, Torn}
      BY <1>5 DEF SaveTempOpen, DiskFails, IInv, ReportsOK, RestOK
    <3>2. QED
      BY <1>5, <2>1, <3>1 DEF SaveTempOpen, IInv, ReportsOK, RestOK
  <2>3. Story'
    BY <1>5, <2>1, StillUndecided DEF SaveTempOpen, Undecided
  <2>4. QED
    BY <2>1, <2>2, <2>3 DEF IInv
<1>6. CASE SaveTempWrite("main")
  <2>1. PcOK' /\ pc'["main"] = "check" /\ pc'["sig"] = pc["sig"] /\ exit' = exit
    BY <1>6, GotoMain DEF SaveTempWrite, AfterSave, IInv, MainLabel
  <2>2. temp' \in Result \cup {NoFile, Torn}
    BY <1>6, OverlayType DEF SaveTempWrite, IInv, ReportsOK, Goroutine
  <2>3. ReportsOK' /\ RestOK'
    <3>1. diskFailed' \in BOOLEAN
      BY <1>6 DEF SaveTempWrite, DiskFails, IInv, RestOK
    <3>2. QED
      BY <1>6, <2>1, <2>2, <3>1 DEF SaveTempWrite, IInv, ReportsOK, RestOK
  <2>4. Story'
    BY <1>6, <2>1, StillUndecided DEF SaveTempWrite, Undecided
  <2>5. QED
    BY <2>1, <2>3, <2>4 DEF IInv
<1>7. QED
  BY <1>1, <1>2, <1>3, <1>4, <1>5, <1>6 DEF Waiting

-----------------------------------------------------------------------------
(* main: the end of a test.                                                *)

LEMMA ReportTestCompleteStep ==
    ASSUME IInv, ReportTestComplete
    PROVE  IInv'
<1> USE DEF stops, disk, world, context, service, setup
<1>1. pc["main"] = "tell" /\ Goto("main", "openProgress")
  BY DEF ReportTestComplete
<1>2. PcOK' /\ pc'["main"] = "openProgress" /\ pc'["sig"] = pc["sig"] /\ exit' = exit
  BY <1>1, GotoMain DEF IInv, MainLabel
<1>3. told' \in {told, IF verdict = "success" THEN "success" ELSE "failure"}
  BY DEF ReportTestComplete
<1>4. ReportsOK' /\ RestOK'
  BY <1>2, <1>3 DEF ReportTestComplete, IInv, ReportsOK, RestOK
<1>5. NothingToldYet' /\ ReportSaved' /\ OutcomesAgree'
  BY <1>2 DEF NothingToldYet, ReportSaved, OutcomesAgree, Undecided
<1>6. VerdictTold'
  BY <1>1, <1>2, <1>3 DEF ReportTestComplete, IInv, Story, NothingToldYet, VerdictTold, Decided
<1>7. StoppedBy'
  BY <1>1, <1>2 DEF ReportTestComplete, IInv, Story, StoppedBy
<1>8. QED
  BY <1>2, <1>4, <1>5, <1>6, <1>7 DEF IInv, Story

(* The four writes: which part of the report is on disk after each.        *)
LEMMA WriteStepStep ==
    ASSUME IInv,
           NEW label \in {"openProgress", "writeProgress", "openMain", "writeMain"},
           NEW next, WriteStep(label, next),
           \/ label = "openProgress"  /\ next = "writeProgress"
           \/ label = "writeProgress" /\ next = "openMain"
           \/ label = "openMain"      /\ next = "writeMain"
           \/ label = "writeMain"     /\ next = AfterFiling
    PROVE  IInv'
<1> USE DEF stops, world, context, service, setup
<1>1. pc["main"] = label /\ Goto("main", next)
      /\ UNCHANGED <<draft, stops, told, temp, diskFailed, world, context, service, setup>>
  BY DEF WriteStep
<1>2. PcOK' /\ pc'["main"] = next /\ pc'["sig"] = pc["sig"] /\ exit' = exit
  BY <1>1, GotoMain DEF IInv, MainLabel, AfterFiling
<1>3. report.run \in RunID /\ report.entries \in 0 .. MaxEntries
      /\ report.status \in SyncStatus /\ finals[report.run] \in Final
  BY DEF IInv, ReportsOK, Result
<1>4. /\ finals' \in [RunID -> Final]
      /\ label = "writeProgress" => finals'[report.run].progress = report.entries
      /\ label = "openMain" => finals'[report.run].progress = finals[report.run].progress
      /\ label = "writeMain" =>
            finals'[report.run] =
                [progress |-> finals[report.run].progress,
                 main |-> [status |-> report.status, entries |-> report.entries]]
  <2>1. CASE label = "openProgress"
    BY <1>3, <2>1 DEF WriteStep, SetProgress, IInv, ReportsOK, Final, ProgressFile
  <2>2. CASE label = "writeProgress"
    BY <1>3, <2>2 DEF WriteStep, SetProgress, IInv, ReportsOK, Final, ProgressFile
  <2>3. CASE label = "openMain"
    BY <1>3, <2>3 DEF WriteStep, SetMain, IInv, ReportsOK, Final, MainFile
  <2>4. CASE label = "writeMain"
    BY <1>3, <2>4 DEF WriteStep, SetMain, IInv, ReportsOK, Final, MainFile
  <2>5. QED
    BY <2>1, <2>2, <2>3, <2>4
<1>5. ReportsOK' /\ RestOK'
  BY <1>1, <1>2, <1>4 DEF IInv, ReportsOK, RestOK
<1>6. NothingToldYet' /\ VerdictTold' /\ OutcomesAgree'
  BY <1>1, <1>2 DEF IInv, Story, NothingToldYet, VerdictTold, OutcomesAgree, Undecided, Decided,
     AfterFiling
<1>7. ReportSaved'
  <2>1. report.status = verdict
    BY <1>1 DEF IInv, Story, VerdictTold, Decided
  <2>2. label \in {"openMain", "writeMain"} =>
            Excused \/ finals[report.run].progress = report.entries
    BY <1>1 DEF IInv, Story, ReportSaved
  <2>3. Excused' = Excused
    BY <1>1 DEF Excused
  <2>4. QED
    BY <1>1, <1>2, <1>4, <2>1, <2>2, <2>3 DEF ReportSaved, Reported, AfterFiling
<1>8. StoppedBy'
  BY <1>1, <1>2 DEF IInv, Story, StoppedBy, AfterFiling
<1>9. QED
  BY <1>2, <1>5, <1>6, <1>7, <1>8 DEF IInv, Story

LEMMA SaveFailsStep ==
    ASSUME IInv, SaveFails
    PROVE  IInv'
<1> USE DEF stops, world, context, service, setup
<1>1. /\ pc["main"] \in {"openProgress", "writeProgress", "openMain", "writeMain"}
      /\ diskFailed' = TRUE
      /\ UNCHANGED <<draft, stops, told, temp, finals, world, context, service, setup>>
  BY DEF SaveFails, DiskFails
<1>2. CASE verdict = "success" /\ Exit(1)
  <2>1. PcOK' /\ pc'["main"] = "off" /\ pc'["sig"] = "off" /\ exit' = 1
    BY <1>2, ExitBoth
  <2>2. ReportsOK' /\ RestOK'
    BY <1>1, <2>1 DEF IInv, ReportsOK, RestOK
  <2>3. told # "failure"
    BY <1>1, <1>2 DEF IInv, Story, VerdictTold, Decided
  <2>4. OutcomesAgree'
    BY <1>1, <2>1, <2>3 DEF OutcomesAgree
  <2>5. QED
    BY <2>1, <2>2, <2>4, Ends DEF IInv
<1>3. CASE verdict # "success" /\ Goto("main", "exporter")
  <2>1. PcOK' /\ pc'["main"] = "exporter" /\ pc'["sig"] = pc["sig"] /\ exit' = exit
    BY <1>3, GotoMain DEF IInv, MainLabel
  <2>2. ReportsOK' /\ RestOK'
    BY <1>1, <2>1 DEF IInv, ReportsOK, RestOK
  <2>3. NothingToldYet' /\ VerdictTold' /\ OutcomesAgree'
    BY <1>1, <2>1 DEF IInv, Story, NothingToldYet, VerdictTold, OutcomesAgree, Undecided, Decided
  <2>4. ReportSaved'
    BY <1>1, <1>3, <2>1 DEF ReportSaved, Excused
  <2>5. StoppedBy'
    BY <1>1, <2>1 DEF IInv, Story, StoppedBy
  <2>6. QED
    BY <2>1, <2>2, <2>3, <2>4, <2>5 DEF IInv, Story
<1>4. QED
  BY <1>2, <1>3 DEF SaveFails

LEMMA RemoveTempReportStep ==
    ASSUME IInv, RemoveTempReport
    PROVE  IInv'
<1> USE DEF stops, world, context, service, setup
<1>1. /\ pc["main"] = "cleanup"
      /\ UNCHANGED <<draft, stops, told, finals, world, context, service, setup>>
  BY DEF RemoveTempReport
<1>2. /\ temp' \in {temp, NoFile}
      /\ diskFailed' \in BOOLEAN
      /\ diskFailed => diskFailed'
  <2>1. DiskFails \/ UNCHANGED diskFailed
    BY DEF RemoveTempReport
  <2>2. temp' = temp \/ temp' = NoFile
    BY DEF RemoveTempReport
  <2>3. QED
    BY <2>1, <2>2, DiskFailedStays DEF IInv
<1>3. CASE verdict = "success" /\ Goto("main", "deferred")
  <2>1. PcOK' /\ pc'["main"] = "deferred" /\ pc'["sig"] = pc["sig"] /\ exit' = exit
    BY <1>3, GotoMain DEF IInv, MainLabel
  <2>2. ReportsOK' /\ RestOK'
    BY <1>1, <1>2, <2>1 DEF IInv, ReportsOK, RestOK
  <2>3. NothingToldYet' /\ VerdictTold' /\ OutcomesAgree'
    BY <1>1, <2>1 DEF IInv, Story, NothingToldYet, VerdictTold, OutcomesAgree, Undecided, Decided
  <2>4. ReportSaved'
    BY <1>1, <1>3, <2>1 DEF IInv, Story, ReportSaved, Excused, Reported
  <2>5. StoppedBy'
    BY <1>1, <1>3, <2>1 DEF IInv, Story, StoppedBy
  <2>6. QED
    BY <2>1, <2>2, <2>3, <2>4, <2>5 DEF IInv, Story
<1>4. CASE verdict # "success" /\ Exit(ExitCode)
  <2>1. PcOK' /\ pc'["main"] = "off" /\ pc'["sig"] = "off" /\ exit' = ExitCode
    BY <1>4, ExitBoth
  <2>2. \/ verdict = "timeout" /\ exit' = 124
        \/ verdict = "error" /\ exit' = 125
    BY <1>1, <1>4, <2>1 DEF ExitCode, IInv, Story, VerdictTold, Decided, Verdicts
  <2>3. ReportsOK' /\ RestOK'
    BY <1>1, <1>2, <2>1, <2>2 DEF IInv, ReportsOK, RestOK
  <2>4. told # "success" /\ (diskFailed \/ Reported(verdict))
    BY <1>1, <1>4 DEF IInv, Story, VerdictTold, ReportSaved, Excused, Decided
  <2>5. OutcomesAgree'
    BY <1>1, <1>2, <2>1, <2>2, <2>4 DEF OutcomesAgree, OnRecord, Reported
  <2>6. QED
    BY <2>1, <2>3, <2>5, Ends DEF IInv
<1>5. QED
  BY <1>3, <1>4 DEF RemoveTempReport

(* What a test past the filing of its report is on record with.            *)
LEMMA RecordedVerdict ==
    ASSUME IInv,
           pc["main"] \in {"exporter", "exporterCall", "cleanup", "deferred", "deferredCall",
                          "return"}
    PROVE  verdict \in Verdicts /\ OnRecord(verdict)
<1>1. verdict \in Verdicts /\ (Excused \/ Reported(verdict))
  BY DEF IInv, Story, VerdictTold, ReportSaved, Decided
<1>2. told # (IF verdict = "success" THEN "failure" ELSE "success")
  BY DEF IInv, Story, VerdictTold, Decided
<1>3. QED
  BY <1>1, <1>2 DEF OnRecord, Excused

(* A panic of such a test.                                                 *)
LEMMA PanicOnRecord ==
    ASSUME IInv, Exit(2), UNCHANGED <<draft, told, disk, world, ctx, cancelled, service, setup>>,
           closed' \in BOOLEAN, aborted' \in BOOLEAN, exporter' \in BOOLEAN,
           pc["main"] \in {"exporter", "exporterCall", "cleanup", "deferred", "deferredCall",
                          "return"}
    PROVE  IInv'
<1> USE DEF disk, world, service, setup
<1>1. PcOK' /\ pc'["main"] = "off" /\ pc'["sig"] = "off" /\ exit' = 2
  BY ExitBoth
<1>2. ReportsOK' /\ RestOK'
  BY <1>1 DEF IInv, ReportsOK, RestOK
<1>3. verdict \in Verdicts /\ OnRecord(verdict)
  BY RecordedVerdict
<1>4. OutcomesAgree'
  BY <1>1, <1>3 DEF OutcomesAgree, OnRecord, Reported, Verdicts
<1>5. QED
  BY <1>1, <1>2, <1>4, Ends DEF IInv

(* main goes on after its test is on record.                               *)
LEMMA StillOnRecord ==
    ASSUME IInv, NEW to, Goto("main", to),
           UNCHANGED <<draft, told, disk, world, ctx, cancelled, service, setup>>,
           closed' \in BOOLEAN, aborted' \in BOOLEAN, exporter' \in BOOLEAN,
           \/ /\ pc["main"] \in {"exporter", "exporterCall"}
              /\ to \in {"exporterCall", "cleanup"}
              /\ UNCHANGED closed
              /\ to = "exporterCall" => UNCHANGED exporter
           \/ /\ pc["main"] \in {"deferred", "deferredCall"}
              /\ to \in {"deferredCall", "return"}
              /\ to = "deferredCall" => UNCHANGED <<closed, exporter>>
    PROVE  IInv'
<1> USE DEF disk, world, service, setup
<1>1. PcOK' /\ pc'["main"] = to /\ pc'["sig"] = pc["sig"] /\ exit' = exit
  BY GotoMain DEF IInv, MainLabel
<1>2. ReportsOK' /\ RestOK'
  BY <1>1 DEF IInv, ReportsOK, RestOK
<1>3. NothingToldYet' /\ VerdictTold' /\ OutcomesAgree'
  BY <1>1 DEF IInv, Story, NothingToldYet, VerdictTold, OutcomesAgree, Undecided, Decided
<1>4. ReportSaved'
  BY <1>1 DEF IInv, Story, ReportSaved, Excused, Reported
<1>5. StoppedBy'
  BY <1>1 DEF IInv, Story, ReportSaved, StoppedBy
<1>6. QED
  BY <1>1, <1>2, <1>3, <1>4, <1>5 DEF IInv, Story

(* The steps of Manager.Stop.                                              *)
LEMMA FoundContainer ==
    ASSUME NEW g, NEW label, NEW call, FindsContainer(g, label, call)
    PROVE  /\ pc[g] = label /\ Goto(g, call) /\ exporter
           /\ UNCHANGED <<closed, exporter, aborted, draft, told, disk, world, ctx, cancelled,
                          service, setup>>
BY DEF FindsContainer, stops, context

LEMMA SlicedEmptyID ==
    ASSUME NEW g, NEW call, SlicesEmptyID(g, call)
    PROVE  /\ pc[g] = call /\ Exit(2) /\ ~exporter
           /\ UNCHANGED <<closed, exporter, aborted, draft, told, disk, world, ctx, cancelled,
                          service, setup>>
BY DEF SlicesEmptyID, stops, context

LEMMA StoppedContainer ==
    ASSUME IInv, NEW g, NEW done, exporter' = exporter \/ StopContainer(g, done)
    PROVE  exporter' \in BOOLEAN
BY DEF StopContainer, IInv, RestOK

LEMMA StopExporterStep ==
    ASSUME IInv, StopExporter
    PROVE  IInv'
<1>1. closed \in BOOLEAN /\ exporter \in BOOLEAN /\ aborted \in BOOLEAN
  BY DEF IInv, RestOK
<1>2. CASE FindsContainer("main", "exporter", "exporterCall")
  BY <1>1, <1>2, FoundContainer, StillOnRecord
<1>3. CASE SlicesEmptyID("main", "exporterCall")
  BY <1>1, <1>3, SlicedEmptyID, PanicOnRecord
<1>4. CASE /\ \/ pc["main"] = "exporter" /\ ~exporter /\ UNCHANGED exporter
              \/ pc["main"] = "exporterCall" /\ StopContainer("main", cancelled)
           /\ Goto("main", "cleanup")
           /\ UNCHANGED <<draft, closed, told, disk, world, context, service, setup>>
  <2>1. exporter' \in BOOLEAN
    BY <1>4, StoppedContainer
  <2>2. QED
    BY <1>1, <1>4, <2>1, StillOnRecord DEF context
<1>5. QED
  BY <1>2, <1>3, <1>4 DEF StopExporter

LEMMA StopEffect ==
    ASSUME IInv, NEW g, NEW label, NEW call, NEW next, Stop(g, label, call, next)
    PROVE  /\ UNCHANGED <<draft, told, disk, world, ctx, cancelled, service, setup>>
           /\ closed' \in BOOLEAN /\ aborted' \in BOOLEAN /\ exporter' \in BOOLEAN
           /\ \/ /\ pc[g] = label /\ Goto(g, call)
                 /\ exporter /\ UNCHANGED <<closed, exporter>>
              \/ pc[g] = call /\ Exit(2) /\ ~exporter
              \/ pc[g] \in {label, call} /\ Exit(2) /\ closed
              \/ pc[g] \in {label, call} /\ Goto(g, next)
<1>1. /\ config.server \in BOOLEAN
      /\ closed \in BOOLEAN /\ aborted \in BOOLEAN /\ exporter \in BOOLEAN
      /\ started \in BOOLEAN
  BY ConfigType DEF IInv, RestOK
<1>2. CASE FindsContainer(g, label, call)
  BY <1>1, <1>2, FoundContainer
<1>3. CASE SlicesEmptyID(g, call)
  BY <1>1, <1>3, SlicedEmptyID
<1>4. CASE /\ \/ pc[g] = label /\ ~exporter /\ UNCHANGED exporter
              \/ pc[g] = call /\ StopContainer(g, FALSE)
           /\ CloseAndCancel(g, next)
           /\ UNCHANGED <<draft, told, disk, world, ctx, cancelled, service, setup>>
  <2>1. exporter' \in BOOLEAN /\ pc[g] \in {label, call}
    BY <1>4, StoppedContainer
  <2>2. CASE closed /\ Exit(2) /\ UNCHANGED <<closed, aborted>>
    BY <1>1, <1>4, <2>1, <2>2
  <2>3. CASE closed' = config.server /\ aborted' = (aborted \/ started) /\ Goto(g, next)
    BY <1>1, <1>4, <2>1, <2>3
  <2>4. QED
    BY <1>4, <2>2, <2>3 DEF CloseAndCancel
<1>5. QED
  BY <1>2, <1>3, <1>4 DEF Stop

(* A deferred Stop that panics can only be that of a saved success.        *)
LEMMA DeferredStopStep ==
    ASSUME IInv, DeferredStop
    PROVE  IInv'
<1>1. /\ UNCHANGED <<draft, told, disk, world, ctx, cancelled, service, setup>>
      /\ closed' \in BOOLEAN /\ aborted' \in BOOLEAN /\ exporter' \in BOOLEAN
      /\ pc["main"] \in {"deferred", "deferredCall"}
      /\ \/ /\ Goto("main", "deferredCall")
            /\ UNCHANGED <<closed, exporter>>
         \/ Exit(2)
         \/ Goto("main", "return")
  BY StopEffect DEF DeferredStop
<1>2. CASE Exit(2)
  BY <1>1, <1>2, PanicOnRecord
<1>3. CASE Goto("main", "return")
  BY <1>1, <1>3, StillOnRecord
<1>4. CASE Goto("main", "deferredCall") /\ UNCHANGED <<closed, exporter>>
  BY <1>1, <1>4, StillOnRecord
<1>5. QED
  BY <1>1, <1>2, <1>3, <1>4

LEMMA ReturnStep ==
    ASSUME IInv, Return
    PROVE  IInv'
<1> USE DEF stops, disk, world, context, service, setup
<1>1. PcOK' /\ pc'["main"] = "off" /\ pc'["sig"] = "off" /\ exit' = 0
  BY ExitBoth DEF Return
<1>2. ReportsOK' /\ RestOK'
  BY <1>1 DEF Return, IInv, ReportsOK, RestOK
<1>3. Reported("success") /\ told # "failure"
  BY DEF Return, IInv, Story, VerdictTold, ReportSaved, Decided
<1>4. OutcomesAgree'
  BY <1>1, <1>3 DEF Return, OutcomesAgree, OnRecord, Reported
<1>5. QED
  BY <1>1, <1>2, <1>4, Ends DEF IInv

LEMMA FinishingStep ==
    ASSUME IInv, Finishing
    PROVE  IInv'
<1>1. CASE SaveReportToFiles
  BY <1>1, WriteStepStep, SaveFailsStep DEF SaveReportToFiles
<1>2. QED
  BY <1>1, ReportTestCompleteStep, StopExporterStep, RemoveTempReportStep, DeferredStopStep,
     ReturnStep DEF Finishing

-----------------------------------------------------------------------------
(* The signal handler.                                                     *)

LEMMA SignalHandlerStep ==
    ASSUME IInv, SignalHandler
    PROVE  IInv'
<1> USE DEF stops, disk, world, context, service, setup
<1>1. CASE SaveTempOpen("sig")
  <2>1. PcOK' /\ pc'["sig"] \in {"write", "stop"} /\ pc'["main"] = pc["main"] /\ exit' = exit
    <3>1. CASE Goto("sig", "write")
      BY <3>1, GotoSig DEF IInv, SigLabel
    <3>2. CASE Goto("sig", "stop")
      BY <3>2, GotoSig DEF IInv, SigLabel
    <3>3. QED
      BY <1>1, <3>1, <3>2 DEF SaveTempOpen, AfterSave
  <2>2. /\ diskFailed' \in BOOLEAN /\ (diskFailed => diskFailed')
        /\ temp' = Torn \/ temp' = temp
    BY <1>1, DiskFailedStays DEF SaveTempOpen, IInv
  <2>3. ReportsOK' /\ RestOK'
    BY <1>1, <2>1, <2>2 DEF SaveTempOpen, IInv, ReportsOK, RestOK
  <2>4. Story'
    BY <1>1, <2>1, <2>2, HandlerMoves DEF SaveTempOpen, BeforeStop
  <2>5. QED
    BY <2>1, <2>3, <2>4 DEF IInv
<1>2. CASE SaveTempWrite("sig")
  <2>1. PcOK' /\ pc'["sig"] = "stop" /\ pc'["main"] = pc["main"] /\ exit' = exit
    BY <1>2, GotoSig DEF SaveTempWrite, AfterSave, IInv, SigLabel
  <2>2. temp' \in Result \cup {NoFile, Torn}
    BY <1>2, OverlayType DEF SaveTempWrite, IInv, ReportsOK, Goroutine
  <2>3. diskFailed' \in BOOLEAN /\ (diskFailed => diskFailed')
    BY <1>2, DiskFailedStays DEF SaveTempWrite, IInv
  <2>4. ReportsOK' /\ RestOK'
    BY <1>2, <2>1, <2>2, <2>3 DEF SaveTempWrite, IInv, ReportsOK, RestOK
  <2>5. Story'
    BY <1>2, <2>1, <2>3, HandlerMoves DEF SaveTempWrite, BeforeStop
  <2>6. QED
    BY <2>1, <2>4, <2>5 DEF IInv
<1>3. CASE SignalStop
  <2>1. /\ UNCHANGED <<draft, told, disk, world, ctx, cancelled, service, setup>>
        /\ closed' \in BOOLEAN /\ aborted' \in BOOLEAN /\ exporter' \in BOOLEAN
        /\ pc["sig"] \in {"stop", "stopCall"}
        /\ \/ Goto("sig", "stopCall") /\ exporter /\ UNCHANGED <<closed, exporter>>
           \/ Exit(2) /\ (closed \/ (pc["sig"] = "stopCall" /\ ~exporter))
           \/ Goto("sig", "cancel")
    BY <1>3, StopEffect DEF SignalStop
  <2>2. CASE Goto("sig", "stopCall") /\ exporter /\ UNCHANGED <<closed, exporter>>
    <3>1. PcOK' /\ pc'["sig"] = "stopCall" /\ pc'["main"] = pc["main"] /\ exit' = exit
      BY <2>2, GotoSig DEF IInv, SigLabel
    <3>2. ReportsOK' /\ RestOK'
      BY <2>1, <3>1 DEF IInv, ReportsOK, RestOK
    <3>3. Story'
      BY <2>1, <2>2, <3>1, HandlerMoves DEF BeforeStop
    <3>4. QED
      BY <3>1, <3>2, <3>3 DEF IInv
  <2>3. CASE Exit(2) /\ (closed \/ (pc["sig"] = "stopCall" /\ ~exporter))
    <3>1. pc["main"] \in {"cleanup", "return"}
      BY <2>1, <2>3 DEF IInv, Story, StoppedBy, BeforeStop
    <3>2. QED
      BY <2>1, <2>3, <3>1, PanicOnRecord
  <2>4. CASE Goto("sig", "cancel")
    <3>1. PcOK' /\ pc'["sig"] = "cancel" /\ pc'["main"] = pc["main"] /\ exit' = exit
      BY <2>4, GotoSig DEF IInv, SigLabel
    <3>2. ReportsOK' /\ RestOK'
      BY <2>1, <3>1 DEF IInv, ReportsOK, RestOK
    <3>3. Story'
      BY <2>1, <3>1, HandlerMoves DEF BeforeStop
    <3>4. QED
      BY <3>1, <3>2, <3>3 DEF IInv
  <2>5. QED
    BY <2>1, <2>2, <2>3, <2>4
<1>4. CASE SignalCancel
  <2>1. PcOK' /\ pc'["sig"] = "done" /\ pc'["main"] = pc["main"] /\ exit' = exit
    BY <1>4, GotoSig DEF SignalCancel, IInv, SigLabel
  <2>2. ReportsOK' /\ RestOK'
    BY <1>4, <2>1 DEF SignalCancel, IInv, ReportsOK, RestOK
  <2>3. Story'
    BY <1>4, <2>1, HandlerMoves DEF SignalCancel, BeforeStop
  <2>4. QED
    BY <2>1, <2>2, <2>3 DEF IInv
<1>5. QED
  BY <1>1, <1>2, <1>3, <1>4 DEF SignalHandler

-----------------------------------------------------------------------------
(* Launches, signals, deadlines, kills and the enclave.                    *)

LEMMA LaunchStep ==
    ASSUME IInv, NEW c \in Config, Launch(c)
    PROVE  IInv'
<1> USE DEF stops, world
<1>1. PcOK' /\ pc'["main"] = "boot" /\ pc'["sig"] = "waiting"
  BY DEF Launch, PcOK, Goroutine, MainLabel, SigLabel
<1>2. run' \in RunID
  BY BoundsAssumption DEF Launch, IInv, RestOK, RunID
<1>3. ReportsOK' /\ RestOK'
  BY <1>2, NoResultType DEF Launch, IInv, ReportsOK, RestOK
<1>4. NothingToldYet' /\ VerdictTold' /\ ReportSaved' /\ OutcomesAgree'
  BY <1>1 DEF Launch, NothingToldYet, VerdictTold, ReportSaved, OutcomesAgree, Decided
<1>5. StoppedBy'
  BY <1>1 DEF Launch, StoppedBy
<1>6. QED
  BY <1>1, <1>3, <1>4, <1>5 DEF IInv, Story

LEMMA SignalStep ==
    ASSUME IInv, Signal
    PROVE  IInv'
<1> USE DEF stops, disk, world, context, service, setup
<1>1. PcOK' /\ pc'["sig"] \in {"open", "stop"} /\ pc'["main"] = pc["main"] /\ exit' = exit
  <2>1. CASE Goto("sig", "open")
    BY <2>1, GotoSig DEF IInv, SigLabel
  <2>2. CASE Goto("sig", "stop")
    BY <2>2, GotoSig DEF IInv, SigLabel
  <2>3. QED
    BY <2>1, <2>2, ConfigType DEF Signal
<1>2. ReportsOK' /\ RestOK'
  <2>1. draft' \in [Goroutine -> Result]
    BY DEF Signal, IInv, ReportsOK
  <2>2. UNCHANGED <<stops, told, disk, world, context, service, setup>>
    BY DEF Signal
  <2>3. QED
    BY <1>1, <2>1, <2>2 DEF IInv, ReportsOK, RestOK
<1>3. Story'
  BY <1>1, HandlerMoves DEF Signal, BeforeStop
<1>4. QED
  BY <1>1, <1>2, <1>3 DEF IInv

LEMMA KillStep ==
    ASSUME IInv, Kill
    PROVE  IInv'
<1> USE DEF stops, disk, world, context, service, setup
<1>1. PcOK' /\ pc'["main"] = "off" /\ pc'["sig"] = "off" /\ exit' = Killed
  BY ExitBoth DEF Kill
<1>2. ReportsOK' /\ RestOK'
  BY <1>1 DEF Kill, IInv, ReportsOK, RestOK
<1>3. QED
  BY <1>1, <1>2, EndsUntold DEF IInv

LEMMA AsideStep ==
    ASSUME IInv,
           \/ DeadlinePasses \/ RemoveEnclave \/ UNCHANGED vars
           \/ \E s \in Service : CrashContainer(s)
    PROVE  IInv'
<1> USE DEF stops, disk, world, context, service, setup
<1>1. UNCHANGED <<pc, draft, stops, told, exit, disk, cancelled, aborted, service, setup>>
  BY DEF DeadlinePasses, RemoveEnclave, CrashContainer, vars
<1>2. /\ ctx' \in {"live", "deadline", "canceled"}
      /\ services' \subseteq Service
      /\ enclave' \in BOOLEAN
  <2>1. RestOK
    BY DEF IInv
  <2>2. CASE DeadlinePasses
    BY <2>1, <2>2 DEF DeadlinePasses, RestOK
  <2>3. CASE RemoveEnclave
    BY <2>1, <2>3 DEF RemoveEnclave, RestOK
  <2>4. CASE UNCHANGED vars
    BY <2>1, <2>4 DEF vars, RestOK
  <2>5. CASE \E s \in Service : CrashContainer(s)
    BY <2>1, <2>5 DEF CrashContainer, RestOK
  <2>6. QED
    BY <2>2, <2>3, <2>4, <2>5
<1>3. PcOK' /\ ReportsOK' /\ RestOK'
  BY <1>1, <1>2 DEF IInv, PcOK, ReportsOK, RestOK
<1>4. Story'
  BY <1>1, Aside
<1>5. QED
  BY <1>3, <1>4 DEF IInv

LEMMA NextIInv == IInv /\ [Next]_vars => IInv'
<1> SUFFICES ASSUME IInv, [Next]_vars PROVE IInv'
  OBVIOUS
<1>1. CASE Main
  BY <1>1, StartingStep, WaitingStep, FinishingStep DEF Main
<1>2. CASE SignalHandler
  BY <1>2, SignalHandlerStep
<1>3. CASE World
  BY <1>3, LaunchStep, SignalStep, KillStep, AsideStep DEF World
<1>4. CASE UNCHANGED vars
  BY <1>4, AsideStep
<1>5. QED
  BY <1>1, <1>2, <1>3, <1>4 DEF Next

-----------------------------------------------------------------------------
(* IInv is an inductive invariant of every instance.                       *)
THEOREM Invariance == Spec => []IInv
BY InitIInv, NextIInv, PTL DEF Spec

(* Every variable keeps its type.                                          *)
THEOREM TypeCorrect == Spec => []TypeOK
<1>1. IInv => TypeOK
  BY TypeParts DEF IInv
<1>2. QED
  BY <1>1, Invariance, PTL

(* However the signal handler interleaves with main, and whatever fails,   *)
(* the exit code of a `syncoor sync`, the final report it wrote and what   *)
(* it told the server tell the same story.                                 *)
THEOREM OutcomesAlwaysAgree == Spec => []OutcomesAgree
<1>1. IInv => OutcomesAgree
  BY DEF IInv, Story
<1>2. QED
  BY <1>1, Invariance, PTL
-----------------------------------------------------------------------------
(* What a step does to the reports: in memory, in the temp file and in the *)
(* final files.  Every step is one of these kinds (StepKinds), and the     *)
(* invariants below are proved kind by kind.                               *)

Launched ==
    /\ pc["main"] = "off" /\ pc'["main"] = "boot" /\ pc'["sig"] = "waiting"
    /\ run' = run + 1
    /\ report' = NoResult /\ recovered' = NoFile /\ draft' = [g \in Goroutine |-> NoResult]
    /\ diskFailed' = FALSE
    /\ UNCHANGED <<temp, finals>>

Ended ==
    /\ pc'["main"] = "off"
    /\ temp' = temp \/ (temp' = NoFile /\ pc["main"] = "cleanup")
    /\ UNCHANGED <<run, report, recovered, draft, finals>>

(* The signal handler or the world: main and what only main writes stay.   *)
Beside ==
    /\ pc'["main"] = pc["main"]
    /\ UNCHANGED <<run, config, report, recovered, finals>>
    /\ draft'["main"] = draft["main"]
    /\ draft'["sig"] \in {draft["sig"], report}
    /\ temp' \in {temp, Torn} \/ temp' = draft["sig"]
    /\ diskFailed => diskFailed'
    /\ pc'["sig"] = "waiting" => pc["sig"] = "waiting" /\ UNCHANGED <<temp, draft, diskFailed>>
    /\ pc["main"] = "off" => UNCHANGED temp
    /\ temp' = NoFile => temp = NoFile

(* A step of main from one place to another; of the reports only those the *)
(* kind names change.                                                      *)
MainGoes(from, to) ==
    /\ pc["main"] = from /\ pc'["main"] = to /\ pc'["sig"] = pc["sig"]
    /\ UNCHANGED <<run, config>>
    /\ diskFailed => diskFailed'

Passed ==
    /\ \E from, to \in MainLabel :
          /\ <<from, to>> \in {<<"boot", "recover">>, <<"network", "report">>,
                 <<"announce", "connect">>, <<"connect", "healthy">>, <<"healthy", "loop">>,
                 <<"loop", "health">>, <<"health", "poll">>, <<"check", "loop">>,
                 <<"tell", "openProgress">>, <<"exporter", "exporterCall">>,
                 <<"exporter", "cleanup">>, <<"exporterCall", "cleanup">>,
                 <<"deferred", "deferredCall">>, <<"deferred", "return">>,
                 <<"deferredCall", "return">>}
          /\ MainGoes(from, to)
    /\ UNCHANGED <<report, recovered, draft, temp, finals, diskFailed>>

LookedUp ==
    /\ MainGoes("recover", "network")
    /\ recovered' \in {NoFile, LoadTempReport}
    /\ IsReport(recovered') => config.recovery
    /\ UNCHANGED <<report, draft, temp, finals, diskFailed>>

Begun ==
    /\ MainGoes("report", "restore")
    /\ report' = [report EXCEPT !.run = run, !.status = "running"]
    /\ UNCHANGED <<recovered, draft, temp, finals, diskFailed>>

Restored ==
    /\ MainGoes("restore", "announce")
    /\ report' = IF IsReport(recovered) THEN recovered ELSE report
    /\ UNCHANGED <<recovered, draft, temp, finals, diskFailed>>

Polled ==
    /\ \/ /\ MainGoes("poll", "check")
          /\ report' = report
          /\ UNCHANGED draft
       \/ /\ MainGoes("poll", "check")
          /\ report' = [report EXCEPT !.entries = @ + 1]
          /\ ~(config.recovery /\ report'.entries % SaveEvery = 0)
          /\ UNCHANGED draft
       \/ /\ MainGoes("poll", "open")
          /\ report' = [report EXCEPT !.entries = @ + 1]
          /\ draft' = [draft EXCEPT !["main"] = report']
    /\ UNCHANGED <<recovered, temp, finals, diskFailed>>

Opened ==
    /\ \/ MainGoes("open", "write") /\ temp' = Torn /\ UNCHANGED diskFailed
       \/ MainGoes("open", "check") /\ diskFailed' = TRUE /\ UNCHANGED temp
    /\ UNCHANGED <<report, recovered, draft, finals>>

Written ==
    /\ MainGoes("write", "check")
    /\ \/ temp' = Overlay(temp, draft["main"]) /\ UNCHANGED diskFailed
       \/ diskFailed' = TRUE /\ UNCHANGED temp
    /\ UNCHANGED <<report, recovered, draft, finals>>

Concluded ==
    /\ \E from \in {"loop", "health", "check"} : MainGoes(from, "tell")
    /\ \E status \in Verdicts : report' = [report EXCEPT !.status = status]
    /\ UNCHANGED <<recovered, draft, temp, finals, diskFailed>>

Filed ==
    /\ \/ MainGoes("openProgress", "writeProgress") /\ SetProgress(Torn)
       \/ MainGoes("writeProgress", "openMain")     /\ SetProgress(report.entries)
       \/ MainGoes("openMain", "writeMain")         /\ SetMain(Torn)
       \/ /\ \E to \in {"cleanup", "exporter"} : MainGoes("writeMain", to)
          /\ SetMain([status |-> report.status, entries |-> report.entries])
    /\ UNCHANGED <<report, recovered, draft, temp, diskFailed>>

FilingFailed ==
    /\ \E from \in {"openProgress", "writeProgress", "openMain", "writeMain"} :
          MainGoes(from, "exporter")
    /\ UNCHANGED <<report, recovered, draft, temp, finals>>

Removed ==
    /\ MainGoes("cleanup", "deferred")
    /\ temp' \in {temp, NoFile}
    /\ config.recovery => temp' = NoFile \/ diskFailed'
    /\ UNCHANGED <<report, recovered, draft, finals>>

Kinds ==
    \/ Launched \/ Ended \/ Beside \/ Passed \/ LookedUp \/ Begun \/ Restored
    \/ Polled \/ Opened \/ Written \/ Concluded \/ Filed \/ FilingFailed \/ Removed

-----------------------------------------------------------------------------
(* Lineage: whose reports there are, and which has more entries.           *)

(* Of one run, x has no more entries than y.                               *)
AtMost(x, y) == IsReport(x) /\ x.run = y.run => x.entries <= y.entries

BeforeReport == {"boot", "recover", "network", "report"}
BeforeAnnounce == BeforeReport \cup {"restore"}

RunsKnown ==
    /\ IsReport(temp) => temp.run <= run
    /\ report.run <= run
    /\ \A g \in Goroutine : draft[g].run <= run

(* Until its own report begins, a process has nothing.                     *)
NothingYet ==
    pc["main"] \in BeforeReport =>
        /\ report = NoResult
        /\ \A g \in Goroutine : draft[g] = NoResult
        /\ run > 0
        /\ IsReport(temp) => temp.run < run

(* What was found is of an earlier process, and what the signal handler    *)
(* writes over it has no more entries of that run.                         *)
FoundIsOlder ==
    pc["main"] \in BeforeAnnounce \ {"boot", "recover"} /\ IsReport(recovered) =>
        recovered.run < run /\ AtMost(temp, recovered)

ReportIsEmpty ==
    pc["main"] = "restore" =>
        /\ report.run = run /\ run > 0 /\ report.entries = 0
        /\ \A g \in Goroutine : draft[g] \in {NoResult, report}
        /\ AtMost(temp, report)

(* From then on memory has the most of its run.                            *)
MemoryHasMost ==
    pc["main"] \notin BeforeAnnounce \cup {"off"} =>
        /\ AtMost(temp, report)
        /\ \A g \in Goroutine : AtMost(draft[g], report)

Lineage == RunsKnown /\ NothingYet /\ FoundIsOlder /\ ReportIsEmpty /\ MemoryHasMost

-----------------------------------------------------------------------------
(* What the temp file has of the report.                                   *)

SavedEntries == IF IsReport(temp) /\ temp.run = report.run THEN temp.entries ELSE 0

Undisturbed == pc["sig"] = "waiting" /\ config.recovery /\ ~diskFailed

(* No save was due since the last one.                                     *)
NoSaveMissed ==
    Undisturbed /\ pc["main"] \in {"announce", "connect", "healthy", "loop", "health",
                                   "poll", "check"} =>
        \A n \in SavedEntries + 1 .. report.entries : n % SaveEvery # 0

SaveUnderWay ==
    /\ pc["main"] \in {"open", "write"} => draft["main"] = report
    /\ Undisturbed /\ pc["main"] = "write" => temp = Torn

(* Nobody else touched what was found.                                     *)
FoundIsThere ==
    Undisturbed /\ pc["main"] \in {"network", "report", "restore"} /\ IsReport(recovered) =>
        temp = recovered

Saving == NoSaveMissed /\ SaveUnderWay /\ FoundIsThere

-----------------------------------------------------------------------------
(* The final files: until a run's report is filed its main file is not     *)
(* whole.  A later process can break that, when it resumes a run whose     *)
(* report is whole already: because the process that filed it was killed   *)
(* before, or could not do, the removal of its temp report.                *)

ResumesUnfinished ==
    pc["main"] = "restore" /\ IsReport(recovered) =>
        finals[recovered.run].main \in {NoFile, Torn}

(* The places from where the final report of a run may yet be written.     *)
Unfiled ==
    Undecided \cup {"tell", "openProgress", "writeProgress", "openMain", "writeMain"}

NotFiledYet ==
    /\ \A r \in RunID : r > run => finals[r].main \in {NoFile, Torn}
    /\ pc["main"] \in BeforeAnnounce => finals[run].main \in {NoFile, Torn}
    /\ pc["main"] \in Unfiled \ BeforeAnnounce => finals[report.run].main \in {NoFile, Torn}
    /\ pc["main"] \in {"openMain", "writeMain"} =>
           finals[report.run].progress = report.entries

(* Every step is of one of these kinds.                                    *)
LEMMA MainGoesBy ==
    ASSUME IInv, NEW from, pc["main"] = from, NEW to \in MainLabel, Goto("main", to),
           UNCHANGED setup, DiskFails \/ UNCHANGED diskFailed
    PROVE  MainGoes(from, to)
<1>1. pc'["main"] = to /\ pc'["sig"] = pc["sig"]
  BY GotoMain DEF IInv
<1>2. diskFailed => diskFailed'
  BY DiskFailedStays DEF IInv
<1>3. QED
  BY <1>1, <1>2 DEF MainGoes, setup

LEMMA StartingKinds ==
    ASSUME IInv, Starting
    PROVE  Kinds
<1> USE DEF stops, disk, world, context, service
<1>1. CASE BeginStart
  <2>1. MainGoes("boot", "recover")
    <3>1. pc'["main"] = "recover" /\ pc'["sig"] = pc["sig"]
      BY <1>1, GotoMain DEF BeginStart, IInv, MainLabel
    <3>2. QED
      BY <1>1, <3>1 DEF BeginStart, MainGoes
  <2>2. Passed
    BY <1>1, <2>1 DEF BeginStart, Passed, MainLabel
  <2>3. QED
    BY <2>2 DEF Kinds
<1>2. CASE CheckRecovery
  <2>1. MainGoes("recover", "network")
    BY <1>2, MainGoesBy DEF CheckRecovery, MainLabel
  <2>2. \/ config.recovery /\ recovered' = LoadTempReport
        \/ recovered' = NoFile
    BY <1>2, Zenon DEF CheckRecovery
  <2>3. LookedUp
    BY <1>2, <2>1, <2>2 DEF CheckRecovery, LookedUp, IsReport, LoadTempReport
  <2>4. QED
    BY <2>3 DEF Kinds
<1>3. CASE RunNetwork
  <2>1. MainGoes("network", "report")
    BY <1>3, MainGoesBy DEF RunNetwork, MainLabel
  <2>2. Passed
    BY <1>3, <2>1 DEF RunNetwork, Passed, MainLabel
  <2>3. QED
    BY <2>2 DEF Kinds
<1>4. CASE StartReport
  <2>1. MainGoes("report", "restore")
    BY <1>4, MainGoesBy DEF StartReport, MainLabel
  <2>2. QED
    BY <1>4, <2>1 DEF StartReport, Begun, Kinds
<1>5. CASE RestoreReportState
  <2>1. MainGoes("restore", "announce")
    BY <1>5, MainGoesBy DEF RestoreReportState, MainLabel
  <2>2. QED
    BY <1>5, <2>1 DEF RestoreReportState, Restored, Kinds
<1>6. CASE Announce
  <2>1. MainGoes("announce", "connect")
    BY <1>6, MainGoesBy DEF Announce, MainLabel
  <2>2. Passed
    BY <1>6, <2>1 DEF Announce, Passed, MainLabel
  <2>3. QED
    BY <2>2 DEF Kinds
<1>7. CASE Connect
  <2>1. MainGoes("connect", "healthy")
    BY <1>7, MainGoesBy DEF Connect, MainLabel
  <2>2. Passed
    BY <1>7, <2>1 DEF Connect, Passed, MainLabel
  <2>3. QED
    BY <2>2 DEF Kinds
<1>8. CASE StartFails
  BY <1>8, ExitBoth DEF StartFails, Ended, Kinds, setup
<1>9. CASE waitForContainerHealth
  <2>1. CASE Exit(2)
    BY <1>9, <2>1, ExitBoth DEF waitForContainerHealth, Ended, Kinds, setup
  <2>2. CASE Goto("main", "loop")
    <3>1. MainGoes("healthy", "loop")
      BY <1>9, <2>2, MainGoesBy DEF waitForContainerHealth, MainLabel
    <3>2. Passed
      BY <1>9, <3>1 DEF waitForContainerHealth, Passed, MainLabel
    <3>3. QED
      BY <3>2 DEF Kinds
  <2>3. QED
    BY <1>9, <2>1, <2>2 DEF waitForContainerHealth
<1>10. QED
  BY <1>1, <1>2, <1>3, <1>4, <1>5, <1>6, <1>7, <1>8, <1>9 DEF Starting

LEMMA ConcludedBy ==
    ASSUME IInv, NEW status \in Verdicts, Conclude(status),
           pc["main"] \in {"loop", "health", "check"},
           UNCHANGED <<draft, temp, finals, diskFailed, setup>>
    PROVE  Concluded
<1>1. MainGoes(pc["main"], "tell")
  BY MainGoesBy DEF Conclude, MainLabel
<1>2. QED
  BY <1>1 DEF Conclude, Concluded

LEMMA WaitingKinds ==
    ASSUME IInv, Waiting
    PROVE  Kinds
<1> USE DEF stops, disk, world, context, service
<1>1. CASE LoopTop
  <2>1. CASE Conclude("timeout")
    BY <1>1, <2>1, ConcludedBy DEF LoopTop, Verdicts, Kinds
  <2>2. CASE Exit(1) /\ UNCHANGED service
    BY <1>1, <2>2, ExitBoth DEF LoopTop, Ended, Kinds, setup
  <2>3. CASE Goto("main", "health") /\ UNCHANGED service
    <3>1. MainGoes("loop", "health")
      BY <1>1, <2>3, MainGoesBy DEF LoopTop, MainLabel
    <3>2. Passed
      BY <1>1, <2>3, <3>1 DEF LoopTop, Passed, MainLabel
    <3>3. QED
      BY <3>2 DEF Kinds
  <2>4. QED
    BY <1>1, <2>1, <2>2, <2>3 DEF LoopTop
<1>2. CASE CheckHealth
  <2>1. CASE Conclude("error")
    BY <1>2, <2>1, ConcludedBy DEF CheckHealth, Verdicts, Kinds
  <2>2. CASE Goto("main", "poll") /\ UNCHANGED service
    <3>1. MainGoes("health", "poll")
      BY <1>2, <2>2, MainGoesBy DEF CheckHealth, MainLabel
    <3>2. Passed
      BY <1>2, <2>2, <3>1 DEF CheckHealth, Passed, MainLabel
    <3>3. QED
      BY <3>2 DEF Kinds
  <2>3. QED
    BY <1>2, <2>1, <2>2 DEF CheckHealth
<1>3. CASE Poll
  <2>1. PICK all \in BOOLEAN :
          /\ report' = IF all THEN [report EXCEPT !.entries = @ + 1] ELSE report
          /\ IF all /\ config.recovery /\ report'.entries % SaveEvery = 0
             THEN Goto("main", "open") /\ draft' = [draft EXCEPT !["main"] = report']
             ELSE Goto("main", "check") /\ UNCHANGED draft
    BY <1>3, Zenon DEF Poll
  <2>2. /\ pc["main"] = "poll"
        /\ UNCHANGED <<stops, told, disk, world, context, recovered, verdict, setup>>
    BY <1>3 DEF Poll
  <2>3. CASE all /\ config.recovery /\ report'.entries % SaveEvery = 0
    <3>1. MainGoes("poll", "open")
      BY <2>1, <2>2, <2>3, MainGoesBy DEF MainLabel
    <3>2. QED
      BY <2>1, <2>2, <2>3, <3>1 DEF Polled, Kinds
  <2>4. CASE ~(all /\ config.recovery /\ report'.entries % SaveEvery = 0)
    <3>1. MainGoes("poll", "check")
      BY <2>1, <2>2, <2>4, MainGoesBy DEF MainLabel
    <3>2. QED
      BY <2>1, <2>2, <2>4, <3>1 DEF Polled, Kinds
  <2>5. QED
    BY <2>3, <2>4
<1>4. CASE CheckSynced
  <2>1. CASE Conclude("success")
    BY <1>4, <2>1, ConcludedBy DEF CheckSynced, Verdicts, Kinds
  <2>2. CASE Goto("main", "loop") /\ UNCHANGED service
    <3>1. MainGoes("check", "loop")
      BY <1>4, <2>2, MainGoesBy DEF CheckSynced, MainLabel
    <3>2. Passed
      BY <1>4, <2>2, <3>1 DEF CheckSynced, Passed, MainLabel
    <3>3. QED
      BY <3>2 DEF Kinds
  <2>3. QED
    BY <1>4, <2>1, <2>2 DEF CheckSynced
<1>5. CASE SaveTempOpen("main")
  <2>1. CASE temp' = Torn /\ Goto("main", "write") /\ UNCHANGED diskFailed
    <3>1. MainGoes("open", "write")
      BY <1>5, <2>1, MainGoesBy DEF SaveTempOpen, MainLabel
    <3>2. QED
      BY <1>5, <2>1, <3>1 DEF SaveTempOpen, Opened, Kinds
  <2>2. CASE DiskFails /\ Goto("main", "check") /\ UNCHANGED temp
    <3>1. MainGoes("open", "check")
      BY <1>5, <2>2, MainGoesBy DEF SaveTempOpen, MainLabel
    <3>2. QED
      BY <1>5, <2>2, <3>1 DEF SaveTempOpen, DiskFails, Opened, Kinds
  <2>3. QED
    BY <1>5, <2>1, <2>2 DEF SaveTempOpen, AfterSave
<1>6. CASE SaveTempWrite("main")
  <2>1. MainGoes("write", "check")
    BY <1>6, MainGoesBy DEF SaveTempWrite, AfterSave, MainLabel
  <2>2. QED
    BY <1>6, <2>1 DEF SaveTempWrite, DiskFails, Written, Kinds
<1>7. QED
  BY <1>1, <1>2, <1>3, <1>4, <1>5, <1>6 DEF Waiting

LEMMA FinishingKinds ==
    ASSUME IInv, Finishing
    PROVE  Kinds
<1> USE DEF stops, disk, world, context, service
<1>1. CASE ReportTestComplete
  <2>1. MainGoes("tell", "openProgress")
    BY <1>1, MainGoesBy DEF ReportTestComplete, MainLabel
  <2>2. Passed
    BY <1>1, <2>1 DEF ReportTestComplete, Passed, MainLabel
  <2>3. QED
    BY <2>2 DEF Kinds
<1>2. ASSUME NEW label \in MainLabel, NEW next \in MainLabel, WriteStep(label, next),
             <<label, next>> \in {<<"openProgress", "writeProgress">>,
                <<"writeProgress", "openMain">>, <<"openMain", "writeMain">>,
                <<"writeMain", "cleanup">>, <<"writeMain", "exporter">>}
      PROVE  Kinds
  <2>1. MainGoes(label, next)
    BY <1>2, MainGoesBy DEF WriteStep
  <2>2. Filed
    BY <1>2, <2>1 DEF WriteStep, Filed
  <2>3. QED
    BY <2>2 DEF Kinds
<1>3. CASE SaveFails
  <2>1. CASE Exit(1)
    BY <1>3, <2>1, ExitBoth DEF SaveFails, Ended, Kinds, setup
  <2>2. CASE Goto("main", "exporter")
    <3>1. MainGoes(pc["main"], "exporter")
      BY <1>3, <2>2, MainGoesBy DEF SaveFails, MainLabel
    <3>2. FilingFailed
      BY <1>3, <3>1 DEF SaveFails, FilingFailed
    <3>3. QED
      BY <3>2 DEF Kinds
  <2>3. QED
    BY <1>3, <2>1, <2>2 DEF SaveFails
<1>4. CASE SaveReportToFiles
  BY <1>2, <1>3, <1>4 DEF SaveReportToFiles, AfterFiling, MainLabel
<1>5. CASE RemoveTempReport
  <2>1. /\ DiskFails \/ UNCHANGED diskFailed
        /\ temp' \in {temp, NoFile}
        /\ config.recovery => temp' = NoFile \/ diskFailed'
    BY <1>5 DEF RemoveTempReport, DiskFails
  <2>2. CASE Goto("main", "deferred")
    <3>1. MainGoes("cleanup", "deferred")
      BY <1>5, <2>1, <2>2, MainGoesBy DEF RemoveTempReport, MainLabel
    <3>2. Removed
      BY <1>5, <2>1, <3>1 DEF RemoveTempReport, Removed
    <3>3. QED
      BY <3>2 DEF Kinds
  <2>3. CASE Exit(ExitCode)
    BY <1>5, <2>1, <2>3, ExitBoth DEF RemoveTempReport, Ended, Kinds, setup
  <2>4. QED
    BY <1>5, <2>2, <2>3 DEF RemoveTempReport
<1>6. CASE DeferredStop \/ StopExporter
  <2>1. /\ UNCHANGED <<draft, disk, service, setup>>
        /\ \/ Exit(2)
           \/ /\ pc["main"] \in {"deferred", "deferredCall"}
              /\ Goto("main", "return")
           \/ pc["main"] = "deferred" /\ Goto("main", "deferredCall")
           \/ pc["main"] = "exporter" /\ Goto("main", "exporterCall")
           \/ pc["main"] \in {"exporter", "exporterCall"} /\ Goto("main", "cleanup")
    <3>1. CASE DeferredStop
      BY <3>1, StopEffect DEF DeferredStop
    <3>2. CASE StopExporter
      BY <3>2 DEF StopExporter, FindsContainer, SlicesEmptyID
    <3>3. QED
      BY <1>6, <3>1, <3>2
  <2>2. CASE Exit(2)
    BY <2>1, <2>2, ExitBoth DEF Ended, Kinds, setup
  <2>3. ASSUME NEW from \in MainLabel, NEW to \in MainLabel,
               pc["main"] = from, Goto("main", to),
               <<from, to>> \in {<<"deferred", "return">>, <<"deferredCall", "return">>,
                  <<"deferred", "deferredCall">>, <<"exporter", "exporterCall">>,
                  <<"exporter", "cleanup">>, <<"exporterCall", "cleanup">>}
        PROVE  Kinds
    <3>1. MainGoes(from, to)
      BY <2>1, <2>3, MainGoesBy
    <3>2. Passed
      BY <2>1, <2>3, <3>1 DEF Passed
    <3>3. QED
      BY <3>2 DEF Kinds
  <2>4. QED
    BY <2>1, <2>2, <2>3 DEF MainLabel
<1>7. CASE Return
  BY <1>7, ExitBoth DEF Return, Ended, Kinds, setup
<1>8. QED
  BY <1>1, <1>4, <1>5, <1>6, <1>7 DEF Finishing

(* The handler stops the process, or moves alone.                          *)
LEMMA HandlerKinds ==
    ASSUME IInv, SignalHandler \/ Signal
    PROVE  Kinds
<1> USE DEF stops, disk, world, context, service, setup
<1>1. pc["main"] # "off"
  <2>1. pc["sig"] # "off"
    BY StopEffect DEF SignalHandler, Signal, SaveTempOpen, SaveTempWrite, SignalStop, SignalCancel
  <2>2. QED
    BY <2>1 DEF IInv, Story, StoppedBy
<1>2. CASE SaveTempOpen("sig")
  <2>1. pc'["main"] = pc["main"] /\ pc'["sig"] \in {"write", "stop"}
    <3>1. CASE Goto("sig", "write")
      BY <3>1, GotoSig DEF IInv, SigLabel
    <3>2. CASE Goto("sig", "stop")
      BY <3>2, GotoSig DEF IInv, SigLabel
    <3>3. QED
      BY <1>2, <3>1, <3>2 DEF SaveTempOpen, AfterSave
  <2>2. diskFailed => diskFailed'
    BY <1>2, DiskFailedStays DEF SaveTempOpen, IInv
  <2>3. temp' \in {Torn, temp}
    BY <1>2 DEF SaveTempOpen
  <2>4. temp' = NoFile => temp = NoFile
    BY <2>3, FilesAssumption
  <2>5. Beside
    BY <1>1, <1>2, <2>1, <2>2, <2>3, <2>4 DEF SaveTempOpen, Beside
  <2>6. QED
    BY <2>5 DEF Kinds
<1>3. CASE SaveTempWrite("sig")
  <2>1. pc'["main"] = pc["main"] /\ pc'["sig"] = "stop"
    BY <1>3, GotoSig DEF SaveTempWrite, AfterSave, IInv, SigLabel
  <2>2. diskFailed => diskFailed'
    BY <1>3, DiskFailedStays DEF SaveTempWrite, IInv
  <2>3. /\ temp' \in {temp, Torn} \/ temp' = draft["sig"]
        /\ temp' = NoFile => temp = NoFile
    <3>1. temp' = temp \/ temp' = Overlay(temp, draft["sig"])
      BY <1>3 DEF SaveTempWrite
    <3>2. draft["sig"] # NoFile
      BY FilesAssumption DEF IInv, ReportsOK, Goroutine
    <3>3. QED
      BY <3>1, <3>2, FilesAssumption, Zenon DEF Overlay
  <2>4. Beside
    BY <1>1, <1>3, <2>1, <2>2, <2>3 DEF SaveTempWrite, Beside
  <2>5. QED
    BY <2>4 DEF Kinds
<1>4. CASE SignalStop
  <2>1. CASE Exit(2)
    BY <1>4, <2>1, ExitBoth, StopEffect DEF SignalStop, Ended, Kinds
  <2>2. CASE Goto("sig", "cancel") \/ Goto("sig", "stopCall")
    <3>1. pc'["main"] = pc["main"] /\ pc'["sig"] \in {"cancel", "stopCall"}
      BY <2>2, GotoSig DEF IInv, SigLabel
    <3>2. UNCHANGED <<draft, disk, service, setup>>
      BY <1>4, StopEffect DEF SignalStop
    <3>3. Beside
      BY <1>1, <3>1, <3>2 DEF Beside
    <3>4. QED
      BY <3>3 DEF Kinds
  <2>3. QED
    BY <1>4, <2>1, <2>2, StopEffect DEF SignalStop
<1>5. CASE SignalCancel
  <2>1. pc'["main"] = pc["main"] /\ pc'["sig"] = "done"
    BY <1>5, GotoSig DEF SignalCancel, IInv, SigLabel
  <2>2. Beside
    BY <1>1, <1>5, <2>1 DEF SignalCancel, Beside
  <2>3. QED
    BY <2>2 DEF Kinds
<1>6. CASE Signal
  <2>1. pc'["main"] = pc["main"] /\ pc'["sig"] \in {"open", "stop"}
    <3>1. CASE Goto("sig", "open")
      BY <3>1, GotoSig DEF IInv, SigLabel
    <3>2. CASE Goto("sig", "stop")
      BY <3>2, GotoSig DEF IInv, SigLabel
    <3>3. QED
      BY <1>6, <3>1, <3>2, ConfigType DEF Signal
  <2>2. draft'["sig"] = report /\ draft'["main"] = draft["main"]
    BY <1>6 DEF Signal, IInv, ReportsOK, Goroutine
  <2>3. Beside
    BY <1>1, <1>6, <2>1, <2>2 DEF Signal, Beside
  <2>4. QED
    BY <2>3 DEF Kinds
<1>7. QED
  BY <1>2, <1>3, <1>4, <1>5, <1>6 DEF SignalHandler

LEMMA StepKinds ==
    ASSUME IInv, [Next]_vars
    PROVE  Kinds
<1> USE DEF stops, disk, world, context, service, setup
<1>1. CASE Main
  BY <1>1, StartingKinds, WaitingKinds, FinishingKinds DEF Main
<1>2. CASE SignalHandler \/ Signal
  BY <1>2, HandlerKinds
<1>3. ASSUME NEW c \in Config, Launch(c)
      PROVE  Kinds
  BY <1>3 DEF Launch, Launched, Kinds
<1>4. CASE Kill
  BY <1>4, ExitBoth DEF Kill, Ended, Kinds
<1>5. CASE \/ DeadlinePasses \/ RemoveEnclave \/ UNCHANGED vars
           \/ \E s \in Service : CrashContainer(s)
  <2>1. UNCHANGED <<pc, draft, disk, service, setup>>
    BY <1>5 DEF DeadlinePasses, RemoveEnclave, CrashContainer, vars
  <2>2. Beside
    BY <2>1 DEF Beside
  <2>3. QED
    BY <2>2 DEF Kinds
<1>6. QED
  BY <1>1, <1>2, <1>3, <1>4, <1>5 DEF Next, World

-----------------------------------------------------------------------------
(* Properties of one process that need nothing but StepKinds.              *)

LEMMA RestoredStep ==
    ASSUME IInv, Kinds, RestoredIsKept
    PROVE  RestoredIsKept'
<1> USE DEF RestoredIsKept, MainGoes, IsReport
<1>1. report \in Result /\ recovered \in Result \cup {NoFile}
  BY DEF IInv, ReportsOK
<1>2. CASE Launched \/ Ended
  BY <1>2 DEF Launched, Ended
<1>3. CASE Beside \/ Passed
  BY <1>3 DEF Beside, Passed
<1>4. CASE LookedUp \/ Begun
  BY <1>4 DEF LookedUp, Begun
<1>5. CASE Restored
  BY <1>1, <1>5 DEF Restored, Result
<1>6. CASE Polled
  BY <1>1, <1>6 DEF Polled, Result
<1>7. CASE Concluded
  BY <1>1, <1>7 DEF Concluded, Result
<1>8. CASE Opened \/ Written \/ Filed \/ FilingFailed \/ Removed
  BY <1>8 DEF Opened, Written, Filed, FilingFailed, Removed
<1>9. QED
  BY <1>2, <1>3, <1>4, <1>5, <1>6, <1>7, <1>8 DEF Kinds

LEMMA EndedStep ==
    ASSUME IInv, Kinds, EndedLeavesNoTemp
    PROVE  EndedLeavesNoTemp'
<1> USE DEF EndedLeavesNoTemp, MainGoes
<1>1. CASE Launched \/ Ended
  BY <1>1 DEF Launched, Ended
<1>2. CASE Beside \/ Passed
  BY <1>2 DEF Beside, Passed
<1>3. CASE Removed
  BY <1>3 DEF Removed
<1>4. CASE \/ LookedUp \/ Begun \/ Restored \/ Polled \/ Opened \/ Written
           \/ Concluded \/ Filed \/ FilingFailed
  BY <1>4 DEF LookedUp, Begun, Restored, Polled, Opened, Written, Concluded, Filed, FilingFailed
<1>5. QED
  BY <1>1, <1>2, <1>3, <1>4 DEF Kinds

-----------------------------------------------------------------------------
(* Lineage.                                                                *)

LEMMA ResultParts ==
    ASSUME NEW x \in Result
    PROVE  IsReport(x) /\ x.run \in RunID /\ x.entries \in 0 .. MaxEntries /\ x.run \in Nat
           /\ x.entries \in Nat
BY FilesAssumption, BoundsAssumption DEF IsReport, Result, RunID

(* Whatever draft or temp file: what it holds is a Result.                 *)
LEMMA LineageTypes ==
    ASSUME IInv
    PROVE  /\ report \in Result
           /\ recovered \in Result \cup {NoFile}
           /\ \A g \in Goroutine : draft[g] \in Result
           /\ temp \in Result \cup {NoFile, Torn}
           /\ run \in Nat
BY BoundsAssumption DEF IInv, ReportsOK, RestOK, RunID

LEMMA LineageInit == Init => Lineage
<1> SUFFICES ASSUME Init PROVE Lineage
  OBVIOUS
<1>1. /\ pc["main"] = "off" /\ temp = NoFile /\ run = 0
      /\ report.run = 0 /\ \A g \in Goroutine : draft[g].run = 0
  BY DEF Init, Goroutine, NoResult
<1>2. QED
  BY <1>1 DEF Lineage, RunsKnown, NothingYet, FoundIsOlder, ReportIsEmpty, MemoryHasMost,
     BeforeReport, BeforeAnnounce, IsReport

LEMMA LineageLaunched ==
    ASSUME IInv, Lineage, Launched
    PROVE  Lineage'
<1>1. pc'["main"] = "boot" /\ run' = run + 1 /\ temp' = temp
      /\ report' = NoResult /\ draft' = [g \in Goroutine |-> NoResult]
  BY DEF Launched
<1>2. run \in Nat /\ temp \in Result \cup {NoFile, Torn}
  BY LineageTypes
<1>3. IsReport(temp) => temp.run < run + 1 /\ temp.run <= run + 1
  BY <1>2, ResultParts DEF Lineage, RunsKnown, IsReport
<1>4. report'.run = 0 /\ \A g \in Goroutine : draft'[g] = NoResult /\ draft'[g].run = 0
  BY <1>1 DEF NoResult
<1>5. RunsKnown' /\ NothingYet'
  BY <1>1, <1>2, <1>3, <1>4 DEF RunsKnown, NothingYet, IsReport
<1>6. FoundIsOlder' /\ ReportIsEmpty' /\ MemoryHasMost'
  BY <1>1 DEF FoundIsOlder, ReportIsEmpty, MemoryHasMost, BeforeAnnounce, BeforeReport
<1>7. QED
  BY <1>5, <1>6 DEF Lineage

LEMMA LineageEnded ==
    ASSUME IInv, Lineage, Ended
    PROVE  Lineage'
BY DEF Ended, Lineage, RunsKnown, NothingYet, FoundIsOlder, ReportIsEmpty, MemoryHasMost,
   BeforeReport, BeforeAnnounce, IsReport

(* The signal handler takes the report as it is and may write it out.      *)
LEMMA LineageBeside ==
    ASSUME IInv, Lineage, Beside
    PROVE  Lineage'
<1> USE DEF Lineage
<1>1. /\ report \in Result /\ run \in Nat
      /\ \A g \in Goroutine : draft[g] \in Result
      /\ recovered \in Result \cup {NoFile}
      /\ temp \in Result \cup {NoFile, Torn}
  BY LineageTypes
<1>2. /\ pc'["main"] = pc["main"]
      /\ UNCHANGED <<run, report, recovered>>
      /\ \A g \in Goroutine : draft'[g] \in {draft[g], report}
      /\ temp' = temp \/ ~IsReport(temp') \/ temp' = draft["sig"]
      /\ pc["main"] = "off" => UNCHANGED temp
  BY DEF Beside, IsReport, Goroutine
<1>0. RunsKnown'
  BY <1>1, <1>2 DEF RunsKnown, IsReport, Goroutine
<1>3. CASE pc["main"] = "off"
  BY <1>0, <1>2, <1>3 DEF NothingYet, FoundIsOlder, ReportIsEmpty, MemoryHasMost,
     BeforeReport, BeforeAnnounce
<1>4. CASE pc["main"] \in BeforeReport
  <2>1. /\ report = NoResult /\ run > 0 /\ report.run <= run
        /\ \A g \in Goroutine : draft[g] = NoResult
        /\ IsReport(temp) => temp.run < run
    BY <1>4 DEF NothingYet, RunsKnown
  <2>2. IsReport(temp') => temp' = temp \/ temp' = NoResult
    BY <1>2, <2>1 DEF Goroutine
  <2>3. NoResult.run = 0 /\ NoResult.entries = 0
    BY DEF NoResult
  <2>4. NothingYet'
    BY <1>1, <1>2, <2>1, <2>2, <2>3 DEF NothingYet, IsReport
  <2>5. FoundIsOlder'
    BY <1>1, <1>2, <2>2, <2>3, ResultParts DEF FoundIsOlder, AtMost, IsReport
  <2>6. ReportIsEmpty' /\ MemoryHasMost'
    BY <1>2, <1>4 DEF ReportIsEmpty, MemoryHasMost, BeforeReport, BeforeAnnounce
  <2>7. QED
    BY <1>0, <2>4, <2>5, <2>6
<1>5. CASE pc["main"] = "restore"
  <2>1. /\ report.run = run /\ run > 0 /\ report.entries = 0
        /\ \A g \in Goroutine : draft[g] \in {NoResult, report}
        /\ AtMost(temp, report)
    BY <1>5 DEF ReportIsEmpty
  <2>2. IsReport(temp') => temp' = temp \/ temp' = NoResult \/ temp' = report
    BY <1>2, <2>1 DEF Goroutine
  <2>3. NoResult.run = 0 /\ NoResult.entries = 0
    BY DEF NoResult
  <2>4. FoundIsOlder'
    BY <1>1, <1>2, <1>5, <2>1, <2>2, <2>3, ResultParts
       DEF FoundIsOlder, AtMost, IsReport, BeforeAnnounce
  <2>5. ReportIsEmpty'
    BY <1>1, <1>2, <2>1, <2>2, <2>3 DEF ReportIsEmpty, AtMost, IsReport
  <2>6. NothingYet' /\ MemoryHasMost'
    BY <1>2, <1>5 DEF NothingYet, MemoryHasMost, BeforeReport, BeforeAnnounce
  <2>7. QED
    BY <1>0, <2>4, <2>5, <2>6
<1>6. CASE pc["main"] \notin BeforeAnnounce \cup {"off"}
  <2>1. /\ AtMost(temp, report)
        /\ \A g \in Goroutine : AtMost(draft[g], report)
    BY <1>6 DEF MemoryHasMost
  <2>2. MemoryHasMost'
    BY <1>1, <1>2, <2>1, ResultParts DEF MemoryHasMost, AtMost, Goroutine
  <2>3. NothingYet' /\ FoundIsOlder' /\ ReportIsEmpty'
    BY <1>2, <1>6 DEF NothingYet, FoundIsOlder, ReportIsEmpty, BeforeReport, BeforeAnnounce
  <2>4. QED
    BY <1>0, <2>2, <2>3
<1>7. QED
  BY <1>3, <1>4, <1>5, <1>6 DEF BeforeAnnounce

(* main on its way to the report.                                          *)
LEMMA LineageStarting ==
    ASSUME IInv, Lineage, LookedUp \/ Begun \/ Restored
    PROVE  Lineage'
<1> USE DEF Lineage, MainGoes
<1>1. /\ report \in Result /\ run \in Nat
      /\ \A g \in Goroutine : draft[g] \in Result
      /\ recovered \in Result \cup {NoFile}
      /\ temp \in Result \cup {NoFile, Torn}
  BY LineageTypes
<1>2. NoResult.run = 0 /\ NoResult.entries = 0
  BY DEF NoResult
<1>3. CASE LookedUp
  <2>1. RunsKnown' /\ NothingYet'
    BY <1>3 DEF LookedUp, RunsKnown, NothingYet, BeforeReport
  <2>2. IsReport(recovered') => recovered' = temp /\ IsReport(temp)
    BY <1>3 DEF LookedUp, LoadTempReport, IsReport
  <2>3. FoundIsOlder'
    BY <1>1, <1>3, <2>2, ResultParts
       DEF LookedUp, NothingYet, FoundIsOlder, AtMost, BeforeReport, IsReport
  <2>4. ReportIsEmpty' /\ MemoryHasMost'
    BY <1>3 DEF LookedUp, ReportIsEmpty, MemoryHasMost, BeforeReport, BeforeAnnounce
  <2>5. QED
    BY <2>1, <2>3, <2>4
<1>4. CASE Begun
  <2>1. /\ report = NoResult /\ run > 0
        /\ \A g \in Goroutine : draft[g] = NoResult
        /\ IsReport(temp) => temp.run < run
    BY <1>4 DEF Begun, NothingYet, BeforeReport
  <2>2. /\ report'.run = run /\ report'.entries = 0
        /\ UNCHANGED <<run, temp, draft, recovered>> /\ pc'["main"] = "restore"
    BY <1>4, <2>1 DEF Begun, NoResult
  <2>3. RunsKnown' /\ ReportIsEmpty'
    BY <1>1, <2>1, <2>2 DEF RunsKnown, ReportIsEmpty, AtMost, IsReport
  <2>4. FoundIsOlder'
    BY <1>4, <2>2 DEF Begun, FoundIsOlder, BeforeAnnounce, BeforeReport, AtMost, IsReport
  <2>5. NothingYet' /\ MemoryHasMost'
    BY <2>2 DEF NothingYet, MemoryHasMost, BeforeReport, BeforeAnnounce
  <2>6. QED
    BY <2>3, <2>4, <2>5
<1>5. CASE Restored
  <2>1. /\ report.run = run /\ run > 0 /\ report.entries = 0
        /\ \A g \in Goroutine : draft[g] \in {NoResult, report}
        /\ AtMost(temp, report)
    BY <1>5 DEF Restored, ReportIsEmpty
  <2>2. IsReport(recovered) => recovered.run < run /\ AtMost(temp, recovered)
    BY <1>5 DEF Restored, FoundIsOlder, BeforeAnnounce, BeforeReport
  <2>3. /\ report' = IF IsReport(recovered) THEN recovered ELSE report
        /\ UNCHANGED <<run, temp, draft>> /\ pc'["main"] = "announce"
    BY <1>5 DEF Restored
  <2>4. RunsKnown'
    BY <1>1, <2>1, <2>2, <2>3, ResultParts DEF RunsKnown, IsReport
  <2>5. MemoryHasMost'
    <3>1. CASE IsReport(recovered)
      <4>1. recovered \in Result /\ report' = recovered
        BY <1>1, <2>3, <3>1 DEF IsReport
      <4>2. \A g \in Goroutine : AtMost(draft[g], recovered)
        BY <1>1, <1>2, <2>1, <2>2, <3>1, <4>1, ResultParts DEF AtMost
      <4>3. QED
        BY <2>2, <2>3, <3>1, <4>1, <4>2 DEF MemoryHasMost, AtMost, IsReport
    <3>2. CASE ~IsReport(recovered)
      <4>1. \A g \in Goroutine : AtMost(draft[g], report)
        BY <1>1, <1>2, <2>1, ResultParts DEF AtMost
      <4>2. QED
        BY <2>1, <2>3, <3>2, <4>1 DEF MemoryHasMost, AtMost, IsReport
    <3>3. QED
      BY <3>1, <3>2
  <2>6. NothingYet' /\ FoundIsOlder' /\ ReportIsEmpty'
    BY <2>3 DEF NothingYet, FoundIsOlder, ReportIsEmpty, BeforeReport, BeforeAnnounce
  <2>7. QED
    BY <2>4, <2>5, <2>6
<1>6. QED
  BY <1>3, <1>4, <1>5

(* Later the report keeps its run and its entries, or gains one.           *)
LEMMA LineageGrows ==
    ASSUME IInv, Lineage, UNCHANGED <<run, recovered>>,
           pc["main"] \notin BeforeAnnounce \cup {"off"},
           pc'["main"] \notin BeforeAnnounce \cup {"off"},
           report'.run = report.run, report'.entries >= report.entries,
           report' \in Result,
           draft' = draft \/ draft' = [draft EXCEPT !["main"] = report'],
           temp' = temp \/ ~IsReport(temp') \/ temp' = draft["main"]
    PROVE  Lineage'
<1> USE DEF Lineage
<1>1. /\ report \in Result /\ run \in Nat
      /\ draft \in [Goroutine -> Result]
      /\ temp \in Result \cup {NoFile, Torn}
  BY LineageTypes DEF IInv, ReportsOK
<1>2. /\ report.run <= run
      /\ AtMost(temp, report)
      /\ \A g \in Goroutine : AtMost(draft[g], report)
  BY DEF RunsKnown, MemoryHasMost
<1>3. report.entries \in Nat /\ report'.entries \in Nat
  BY <1>1, ResultParts
<1>4. \A g \in Goroutine : draft'[g] = draft[g] \/ draft'[g] = report'
  BY <1>1
<1>5. \A g \in Goroutine : AtMost(draft'[g], report')
  BY <1>1, <1>2, <1>3, <1>4, ResultParts DEF AtMost
<1>6. AtMost(temp', report')
  <2>1. CASE temp' = temp
    BY <1>1, <1>2, <1>3, <2>1, ResultParts DEF AtMost, IsReport
  <2>2. CASE ~IsReport(temp')
    BY <2>2 DEF AtMost
  <2>3. CASE temp' = draft["main"]
    BY <1>1, <1>2, <1>3, <2>3, ResultParts DEF AtMost, Goroutine
  <2>4. QED
    BY <2>1, <2>2, <2>3
<1>7. MemoryHasMost'
  BY <1>5, <1>6 DEF MemoryHasMost, AtMost, IsReport
<1>8. RunsKnown'
  BY <1>1, <1>2 DEF RunsKnown, AtMost, IsReport, Goroutine
<1>9. NothingYet' /\ FoundIsOlder' /\ ReportIsEmpty'
  BY DEF NothingYet, FoundIsOlder, ReportIsEmpty, BeforeReport, BeforeAnnounce
<1>10. QED
  BY <1>7, <1>8, <1>9

(* Passed is the only kind whose places lie on both sides.                 *)
LEMMA LineagePassed ==
    ASSUME IInv, Lineage, Passed
    PROVE  Lineage'
<1> USE DEF Lineage, MainGoes
<1>1. UNCHANGED <<run, report, recovered, draft, temp>>
  BY DEF Passed
<1>2. CASE pc["main"] \in BeforeAnnounce
  <2>1. \/ pc["main"] = "boot" /\ pc'["main"] = "recover"
        \/ pc["main"] = "network" /\ pc'["main"] = "report"
    BY <1>2 DEF Passed, BeforeAnnounce, BeforeReport
  <2>2. QED
    BY <1>1, <2>1 DEF RunsKnown, NothingYet, FoundIsOlder, ReportIsEmpty, MemoryHasMost,
       BeforeReport, BeforeAnnounce, AtMost, IsReport
<1>3. CASE pc["main"] \notin BeforeAnnounce
  <2>1. pc["main"] # "off" /\ pc'["main"] \notin BeforeAnnounce \cup {"off"}
    BY <1>3 DEF Passed, BeforeAnnounce, BeforeReport
  <2>2. report.entries >= report.entries /\ report \in Result
    BY LineageTypes, ResultParts
  <2>3. QED
    BY <1>1, <1>3, <2>1, <2>2, LineageGrows
<1>4. QED
  BY <1>2, <1>3

LEMMA LineageStep ==
    ASSUME IInv, IInv', Lineage, Kinds
    PROVE  Lineage'
<1> USE DEF MainGoes
<1>1. /\ report \in Result /\ report.entries \in Nat
      /\ report.entries >= report.entries
      /\ report' \in Result
  BY LineageTypes, ResultParts DEF IInv, ReportsOK
<1>2. CASE Polled
  <2>1. \/ report' = report
        \/ report' = [report EXCEPT !.entries = @ + 1]
    BY <1>2 DEF Polled
  <2>2. report'.run = report.run /\ report'.entries >= report.entries
    BY <1>1, <2>1 DEF Result
  <2>3. QED
    BY <1>1, <1>2, <2>2, LineageGrows DEF Polled, BeforeAnnounce, BeforeReport
<1>3. CASE Concluded
  <2>1. PICK status \in Verdicts : report' = [report EXCEPT !.status = status]
    BY <1>3 DEF Concluded
  <2>2. report'.run = report.run /\ report'.entries >= report.entries
    BY <1>1, <2>1 DEF Result
  <2>3. QED
    BY <1>1, <1>3, <2>2, LineageGrows DEF Concluded, BeforeAnnounce, BeforeReport
<1>4. CASE Opened
  BY <1>1, <1>4, LineageGrows DEF Opened, BeforeAnnounce, BeforeReport, IsReport
<1>5. CASE Written
  <2>1. temp' = temp \/ ~IsReport(temp') \/ temp' = draft["main"]
    BY <1>5, Zenon DEF Written, Overlay, IsReport
  <2>2. QED
    BY <1>1, <1>5, <2>1, LineageGrows DEF Written, BeforeAnnounce, BeforeReport
<1>6. CASE Filed
  BY <1>1, <1>6, LineageGrows DEF Filed, BeforeAnnounce, BeforeReport
<1>7. CASE FilingFailed
  BY <1>1, <1>7, LineageGrows DEF FilingFailed, BeforeAnnounce, BeforeReport
<1>8. CASE Removed
  BY <1>1, <1>8, LineageGrows DEF Removed, BeforeAnnounce, BeforeReport, IsReport
<1>9. QED
  BY <1>2, <1>3, <1>4, <1>5, <1>6, <1>7, <1>8, LineageLaunched, LineageEnded, LineageBeside,
     LineageStarting, LineagePassed DEF Kinds

(* A temp file is only removed when the final report has its entries.      *)
LEMMA RemovalStep ==
    ASSUME IInv, Lineage, Kinds, IsReport(temp), temp' = NoFile,
           temp.run = report.run, ~diskFailed
    PROVE  /\ finals[temp.run].main \notin {NoFile, Torn}
           /\ finals[temp.run].progress >= temp.entries
<1>1. /\ temp \in Result /\ report \in Result /\ draft["main"] \in Result
      /\ report.entries \in 0 .. MaxEntries /\ temp.entries \in Nat /\ report.entries \in Nat
  BY LineageTypes, ResultParts DEF IsReport, Goroutine
<1>2. temp # NoFile
  BY DEF IsReport
<1>3. pc["main"] = "cleanup"
  <2>1. CASE Ended \/ Removed
    BY <1>2, <2>1 DEF Ended, Removed, MainGoes
  <2>2. CASE Written
    <3>1. Overlay(temp, draft["main"]) # NoFile
      BY <1>1, <1>2, FilesAssumption, Zenon DEF Overlay
    <3>2. QED
      BY <1>2, <2>2, <3>1 DEF Written
  <2>3. CASE \/ Launched \/ Beside \/ Passed \/ LookedUp \/ Begun \/ Restored
             \/ Polled \/ Opened \/ Concluded \/ Filed \/ FilingFailed
    BY <1>2, <2>3, FilesAssumption DEF Launched, Beside, Passed, LookedUp, Begun, Restored,
       Polled, Opened, Concluded, Filed, FilingFailed
  <2>4. QED
    BY <2>1, <2>2, <2>3 DEF Kinds
<1>4. /\ finals[report.run].progress = report.entries
      /\ finals[report.run].main = [status |-> verdict, entries |-> report.entries]
  <2>1. Reported(verdict)
    BY <1>3 DEF IInv, Story, ReportSaved, Excused
  <2>2. QED
    BY <2>1 DEF Reported
<1>5. verdict \in SyncStatus
  BY <1>3 DEF IInv, Story, VerdictTold, Decided, Verdicts, SyncStatus
<1>6. finals[report.run].main \notin {NoFile, Torn}
  BY <1>1, <1>4, <1>5, FilesAssumption
<1>7. temp.entries <= report.entries
  BY <1>3 DEF Lineage, MemoryHasMost, AtMost, BeforeAnnounce, BeforeReport
<1>8. QED
  BY <1>1, <1>4, <1>6, <1>7

-----------------------------------------------------------------------------
(* Saving.                                                                 *)

LEMMA SavingInit == Init => Saving
<1> SUFFICES ASSUME Init PROVE Saving
  OBVIOUS
<1>1. pc["main"] = "off"
  BY DEF Init, Goroutine
<1>2. QED
  BY <1>1 DEF Saving, NoSaveMissed, SaveUnderWay, FoundIsThere

(* A step after which nothing is asked.                                    *)
LEMMA SavingAside ==
    ASSUME pc'["main"] \notin {"network", "report", "restore", "announce", "connect",
                               "healthy", "loop", "health", "poll", "check", "open", "write"}
    PROVE  Saving'
BY DEF Saving, NoSaveMissed, SaveUnderWay, FoundIsThere

(* The handler moves, and no longer waits; or something else does.         *)
LEMMA SavingBeside ==
    ASSUME IInv, Saving, Beside
    PROVE  Saving'
<1> USE DEF Saving
<1>1. SaveUnderWay'
  BY DEF Beside, SaveUnderWay, Undisturbed
<1>2. CASE pc'["sig"] = "waiting"
  <2>1. /\ UNCHANGED <<temp, draft, diskFailed, report, recovered, config>>
        /\ pc'["main"] = pc["main"] /\ pc["sig"] = "waiting"
    BY <1>2 DEF Beside
  <2>2. QED
    BY <1>1, <2>1 DEF NoSaveMissed, FoundIsThere, Undisturbed, SavedEntries, IsReport
<1>3. CASE pc'["sig"] # "waiting"
  BY <1>1, <1>3 DEF NoSaveMissed, FoundIsThere, Undisturbed
<1>4. QED
  BY <1>2, <1>3

LEMMA SavingPassed ==
    ASSUME IInv, Saving, Passed
    PROVE  Saving'
<1> USE DEF Saving
<1>1. /\ UNCHANGED <<config, report, recovered, draft, temp, diskFailed>>
      /\ pc'["sig"] = pc["sig"]
      /\ Undisturbed' = Undisturbed /\ SavedEntries' = SavedEntries
  BY DEF Passed, MainGoes, Undisturbed, SavedEntries, IsReport
<1>2. \/ pc["main"] = "network" /\ pc'["main"] = "report"
      \/ /\ pc["main"] \in {"announce", "connect", "healthy", "loop", "health", "check"}
         /\ pc'["main"] \in {"connect", "healthy", "loop", "health", "poll"}
      \/ pc'["main"] \in {"recover", "openProgress", "exporterCall", "cleanup", "deferredCall",
                          "return"}
  BY DEF Passed, MainGoes
<1>3. QED
  BY <1>1, <1>2 DEF NoSaveMissed, SaveUnderWay, FoundIsThere, IsReport

LEMMA SavingStarting ==
    ASSUME IInv, Lineage, Saving, LookedUp \/ Begun \/ Restored
    PROVE  Saving'
<1> USE DEF Saving, MainGoes
<1>1. CASE LookedUp
  <2>1. /\ IsReport(recovered') => recovered' = temp
        /\ pc'["main"] = "network" /\ temp' = temp
    BY <1>1 DEF LookedUp, LoadTempReport, IsReport
  <2>2. QED
    BY <2>1 DEF NoSaveMissed, SaveUnderWay, FoundIsThere
<1>2. CASE Begun
  <2>1. /\ pc["main"] = "report" /\ pc'["main"] = "restore" /\ pc'["sig"] = pc["sig"]
        /\ UNCHANGED <<config, recovered, temp, diskFailed>>
    BY <1>2 DEF Begun
  <2>2. QED
    BY <2>1 DEF NoSaveMissed, SaveUnderWay, FoundIsThere, Undisturbed, IsReport
<1>3. CASE Restored
  <2>1. /\ pc["main"] = "restore" /\ pc'["main"] = "announce" /\ pc'["sig"] = pc["sig"]
        /\ UNCHANGED <<config, recovered, temp, diskFailed>>
        /\ report' = IF IsReport(recovered) THEN recovered ELSE report
    BY <1>3 DEF Restored
  <2>2. ASSUME Undisturbed'
        PROVE  SavedEntries' + 1 .. report'.entries = {}
    <3>1. CASE IsReport(recovered)
      <4>1. Undisturbed
        BY <2>1, <2>2 DEF Undisturbed
      <4>2. temp = recovered
        BY <2>1, <3>1, <4>1 DEF FoundIsThere
      <4>3. report' = temp /\ IsReport(temp) /\ temp \in Result
        BY <2>1, <3>1, <4>2, LineageTypes DEF IsReport
      <4>4. SavedEntries' = report'.entries /\ report'.entries \in Nat
        BY <2>1, <4>3, ResultParts DEF SavedEntries, IsReport
      <4>5. QED
        BY <4>4
    <3>2. CASE ~IsReport(recovered)
      <4>1. report'.entries = 0
        BY <2>1, <3>2 DEF Lineage, ReportIsEmpty
      <4>2. SavedEntries' \in Nat
        BY <2>1, LineageTypes, ResultParts DEF SavedEntries, IsReport
      <4>3. \A e \in Nat : e + 1 .. 0 = {}
        OBVIOUS
      <4>4. QED
        BY <4>1, <4>2, <4>3
    <3>3. QED
      BY <3>1, <3>2
  <2>3. NoSaveMissed'
    BY <2>2 DEF NoSaveMissed
  <2>4. SaveUnderWay' /\ FoundIsThere'
    BY <2>1 DEF SaveUnderWay, FoundIsThere
  <2>5. QED
    BY <2>3, <2>4
<1>4. QED
  BY <1>1, <1>2, <1>3

LEMMA SavingPolled ==
    ASSUME IInv, Saving, Polled
    PROVE  Saving'
<1> USE DEF Saving, MainGoes
<1>1. /\ pc["main"] = "poll" /\ pc'["sig"] = pc["sig"]
      /\ UNCHANGED <<config, temp, diskFailed>>
      /\ Undisturbed' = Undisturbed
  BY DEF Polled, Undisturbed
<1>2. /\ report \in Result /\ report.entries \in Nat /\ temp \in Result \cup {NoFile, Torn}
      /\ draft \in [Goroutine -> Result]
  BY LineageTypes, ResultParts DEF IInv, ReportsOK
<1>3. CASE pc'["main"] = "open"
  <2>1. draft' = [draft EXCEPT !["main"] = report']
    BY <1>3 DEF Polled
  <2>2. draft'["main"] = report'
    BY <1>2, <2>1 DEF Goroutine
  <2>3. QED
    BY <1>3, <2>2 DEF NoSaveMissed, SaveUnderWay, FoundIsThere
<1>4. CASE pc'["main"] = "check"
  <2>1. SaveUnderWay' /\ FoundIsThere'
    BY <1>4 DEF SaveUnderWay, FoundIsThere
  <2>2. ASSUME Undisturbed
        PROVE  \A n \in SavedEntries' + 1 .. report'.entries : n % SaveEvery # 0
    <3>1. \A n \in SavedEntries + 1 .. report.entries : n % SaveEvery # 0
      BY <1>1, <2>2 DEF NoSaveMissed
    <3>2. CASE report' = report
      BY <1>1, <3>1, <3>2 DEF SavedEntries, IsReport
    <3>3. CASE /\ report' = [report EXCEPT !.entries = @ + 1]
               /\ report'.entries % SaveEvery # 0
      <4>1. report'.entries = report.entries + 1 /\ report'.run = report.run
        BY <1>2, <3>3 DEF Result
      <4>2. SavedEntries' = SavedEntries /\ SavedEntries \in Nat
        BY <1>1, <1>2, <4>1, ResultParts DEF SavedEntries, IsReport
      <4>3. ASSUME NEW n \in SavedEntries' + 1 .. report'.entries
            PROVE  n \in SavedEntries + 1 .. report.entries \/ n = report'.entries
        BY <1>2, <4>1, <4>2
      <4>4. QED
        BY <3>1, <3>3, <4>3
    <3>4. QED
      BY <1>4, <2>2, <3>2, <3>3 DEF Polled, Undisturbed
  <2>3. QED
    BY <1>1, <2>1, <2>2 DEF NoSaveMissed
<1>5. QED
  BY <1>3, <1>4 DEF Polled

LEMMA SavingSaved ==
    ASSUME IInv, Saving, Opened \/ Written
    PROVE  Saving'
<1> USE DEF Saving, MainGoes
<1>1. CASE Opened
  <2>1. CASE MainGoes("open", "write") /\ temp' = Torn
    BY <1>1, <2>1 DEF Opened, NoSaveMissed, SaveUnderWay, FoundIsThere
  <2>2. CASE MainGoes("open", "check") /\ diskFailed' = TRUE
    BY <2>2 DEF NoSaveMissed, SaveUnderWay, FoundIsThere, Undisturbed
  <2>3. QED
    BY <1>1, <2>1, <2>2 DEF Opened
<1>2. CASE Written
  <2>1. /\ pc["main"] = "write" /\ pc'["main"] = "check" /\ pc'["sig"] = pc["sig"]
        /\ UNCHANGED <<config, report>>
        /\ draft["main"] = report
    BY <1>2 DEF Written, SaveUnderWay
  <2>2. SaveUnderWay' /\ FoundIsThere'
    BY <2>1 DEF SaveUnderWay, FoundIsThere
  <2>3. ASSUME Undisturbed'
        PROVE  SavedEntries' + 1 .. report'.entries = {}
    <3>1. temp' = Overlay(temp, report) /\ diskFailed' = diskFailed
      BY <1>2, <2>1, <2>3 DEF Written, Undisturbed
    <3>2. temp = Torn
      BY <2>1, <2>3, <3>1 DEF SaveUnderWay, Undisturbed
    <3>3. temp' = report
      BY <3>1, <3>2, FilesAssumption DEF Overlay, IsReport
    <3>4. IsReport(report) /\ report.entries \in Nat
      BY LineageTypes, ResultParts
    <3>5. SavedEntries' = report'.entries
      BY <2>1, <3>3, <3>4 DEF SavedEntries, IsReport
    <3>6. QED
      BY <2>1, <3>4, <3>5
  <2>4. NoSaveMissed'
    BY <2>3 DEF NoSaveMissed
  <2>5. QED
    BY <2>2, <2>4
<1>3. QED
  BY <1>1, <1>2

LEMMA SavingStep ==
    ASSUME IInv, Lineage, Saving, Kinds
    PROVE  Saving'
<1>1. CASE Launched \/ Ended \/ Concluded \/ Filed \/ FilingFailed \/ Removed
  BY <1>1, SavingAside DEF Launched, Ended, Concluded, Filed, FilingFailed, Removed, MainGoes
<1>2. QED
  BY <1>1, SavingBeside, SavingPassed, SavingStarting, SavingPolled, SavingSaved DEF Kinds

(* Of SaveEvery numbers in a row one is a multiple of it.                  *)
LEMMA OneIsMultiple ==
    ASSUME NEW a \in Nat, NEW d \in Nat \ {0}
    PROVE  \E n \in a + 1 .. a + d : n % d = 0
<1> DEFINE n == a + d - (a % d)
<1>1. a % d \in 0 .. d - 1
  OBVIOUS
<1>2. n \in a + 1 .. a + d
  BY <1>1
<1>3. n % d = 0
  <2>1. a = d * (a \div d) + (a % d) /\ a \div d \in Int
    OBVIOUS
  <2>2. n \in Int /\ n = d * (n \div d) + (n % d) /\ n \div d \in Int /\ n % d \in 0 .. d - 1
    BY <1>1
  <2>3. PICK k \in Int : k = (a \div d) + 1 - (n \div d)
    BY <2>1, <2>2
  <2>4. n = d * (a \div d) + d
    BY <1>1, <2>1
  <2>5. d * k = d * (a \div d) + d - d * (n \div d)
    BY <2>1, <2>2, <2>3
  <2>6. d * k = n % d
    BY <1>1, <2>1, <2>2, <2>4, <2>5
  <2>7. ~(k >= 1) /\ ~(k <= -1)
    <3>1. ASSUME k >= 1 PROVE d * k >= d
      BY <3>1
    <3>2. ASSUME k <= -1 PROVE d * k <= -d
      BY <3>2
    <3>3. QED
      BY <2>2, <2>6, <3>1, <3>2
  <2>8. k = 0
    BY <2>7
  <2>9. QED
    BY <2>6, <2>8
<1>4. QED
  BY <1>2, <1>3

LEMMA LossIsBounded == IInv /\ Saving => BoundedLoss
<1> SUFFICES ASSUME IInv, Saving, pc["main"] = "loop", Undisturbed
             PROVE  report.entries < SaveEvery + SavedEntries
  BY DEF BoundedLoss, Undisturbed, SavedEntries
<1>1. /\ report.entries \in Nat /\ SavedEntries \in Nat
      /\ SaveEvery \in Nat \ {0}
  BY LineageTypes, ResultParts, BoundsAssumption DEF SavedEntries, IsReport
<1>2. PICK n \in SavedEntries + 1 .. SavedEntries + SaveEvery : n % SaveEvery = 0
  BY <1>1, OneIsMultiple
<1>3. n \notin SavedEntries + 1 .. report.entries
  BY <1>2 DEF Saving, NoSaveMissed
<1>4. QED
  BY <1>1, <1>2, <1>3

-----------------------------------------------------------------------------
(* The final files.                                                        *)

LEMMA FinalsInit == Init => NotFiledYet /\ FinalFilesMatch
<1> SUFFICES ASSUME Init PROVE NotFiledYet /\ FinalFilesMatch
  OBVIOUS
<1>1. pc["main"] = "off" /\ \A r \in RunID : finals[r].main = NoFile
  BY DEF Init, Goroutine, NoFinal
<1>2. QED
  BY <1>1 DEF NotFiledYet, FinalFilesMatch, Unfiled, Undecided, BeforeAnnounce, BeforeReport

(* A step that writes no final file and goes to no place that asks more.   *)
LEMMA FinalsStay ==
    ASSUME IInv, NotFiledYet, UNCHANGED <<run, finals>>, report'.run = report.run,
           \/ /\ pc'["main"] \in Unfiled => pc["main"] \in Unfiled
              /\ pc'["main"] \in BeforeAnnounce <=> pc["main"] \in BeforeAnnounce
              /\ pc'["main"] \in {"openMain", "writeMain"} =>
                     pc["main"] \in {"openMain", "writeMain"}
                     /\ report'.entries = report.entries
           \/ pc'["main"] \notin Unfiled
    PROVE  NotFiledYet'
BY DEF NotFiledYet, Unfiled, Undecided, BeforeAnnounce, BeforeReport

LEMMA FinalsLaunched ==
    ASSUME IInv, IInv', NotFiledYet, Launched
    PROVE  NotFiledYet'
<1>1. /\ run \in Nat /\ run' \in RunID /\ run' = run + 1
      /\ UNCHANGED finals /\ pc'["main"] = "boot"
  BY LineageTypes DEF Launched, IInv, RestOK
<1>2. \A r \in RunID : r > run' => r > run
  BY <1>1, BoundsAssumption DEF RunID
<1>3. QED
  BY <1>1, <1>2 DEF NotFiledYet, Unfiled, Undecided, BeforeAnnounce, BeforeReport

LEMMA FinalsFiled ==
    ASSUME IInv, Lineage, NotFiledYet, FinalFilesMatch, Filed
    PROVE  NotFiledYet' /\ FinalFilesMatch'
<1> USE DEF Filed, MainGoes, SetProgress, SetMain
<1>1. /\ finals \in [RunID -> Final] /\ report \in Result
      /\ report.run \in RunID /\ report.entries \in 0 .. MaxEntries
      /\ run \in Nat /\ report.run <= run /\ RunID \subseteq Nat
  BY LineageTypes, ResultParts, BoundsAssumption DEF IInv, ReportsOK, Lineage, RunsKnown, RunID
<1>2. /\ UNCHANGED <<run, report>>
      /\ pc["main"] \in Unfiled \ BeforeAnnounce
  BY DEF Unfiled, Undecided, BeforeAnnounce, BeforeReport
<1>3. \A r \in RunID : r # report.run => finals'[r] = finals[r]
  BY <1>1
<1>4. /\ \A r \in RunID : r > run => finals'[r].main \in {NoFile, Torn}
      /\ \A r \in RunID \ {report.run} : finals'[r].main \notin {NoFile, Torn} =>
            /\ finals'[r].progress \notin {NoFile, Torn}
            /\ finals'[r].progress = finals'[r].main.entries
  BY <1>1, <1>3 DEF NotFiledYet, FinalFilesMatch
<1>5. finals[report.run] \in [progress : ProgressFile, main : MainFile]
  BY <1>1 DEF Final
<1>6. finals[report.run].main \in {NoFile, Torn}
  BY <1>2 DEF NotFiledYet
<1>7. CASE \/ pc["main"] = "openProgress" /\ SetProgress(Torn)
           \/ pc["main"] = "writeProgress" /\ SetProgress(report.entries)
  <2>1. finals'[report.run].main \in {NoFile, Torn}
    BY <1>1, <1>5, <1>6, <1>7
  <2>2. pc'["main"] = "openMain" => finals'[report.run].progress = report.entries
    BY <1>1, <1>5, <1>7
  <2>3. pc'["main"] \in {"writeProgress", "openMain"}
    BY <1>7
  <2>4. NotFiledYet'
    BY <1>2, <1>4, <2>1, <2>2, <2>3 DEF NotFiledYet, BeforeAnnounce, BeforeReport
  <2>5. QED
    BY <1>2, <1>4, <2>1, <2>4 DEF FinalFilesMatch
<1>8. CASE pc["main"] = "openMain" /\ pc'["main"] = "writeMain" /\ SetMain(Torn)
  <2>1. finals'[report.run].main = Torn
        /\ finals'[report.run].progress = finals[report.run].progress
    BY <1>1, <1>5, <1>8
  <2>2. finals[report.run].progress = report.entries
    BY <1>8 DEF NotFiledYet
  <2>3. NotFiledYet'
    BY <1>2, <1>4, <1>8, <2>1, <2>2 DEF NotFiledYet, BeforeAnnounce, BeforeReport
  <2>4. QED
    BY <1>2, <1>4, <2>1, <2>3 DEF FinalFilesMatch
<1>9. CASE /\ pc["main"] = "writeMain" /\ pc'["main"] \in {"cleanup", "exporter"}
           /\ SetMain([status |-> report.status, entries |-> report.entries])
  <2>1. /\ finals'[report.run].main = [status |-> report.status, entries |-> report.entries]
        /\ finals'[report.run].progress = finals[report.run].progress
    BY <1>1, <1>5, <1>9
  <2>2. finals[report.run].progress = report.entries
    BY <1>9 DEF NotFiledYet
  <2>3. report.entries \notin {NoFile, Torn}
    BY <1>1, FilesAssumption
  <2>4. NotFiledYet'
    BY <1>4, <1>9 DEF NotFiledYet, Unfiled, Undecided, BeforeAnnounce, BeforeReport
  <2>5. QED
    BY <1>2, <1>4, <2>1, <2>2, <2>3, <2>4 DEF FinalFilesMatch
<1>10. QED
  BY <1>7, <1>8, <1>9

LEMMA FinalsStep ==
    ASSUME IInv, IInv', Lineage, Kinds, ResumesUnfinished, NotFiledYet, FinalFilesMatch
    PROVE  NotFiledYet' /\ FinalFilesMatch'
<1> USE DEF MainGoes
<1>1. report \in Result
  BY LineageTypes
<1>2. CASE Filed
  BY <1>2, FinalsFiled
<1>3. CASE ~Filed
  <2>1. FinalFilesMatch'
    <3>1. UNCHANGED finals
      BY <1>3, Zenon DEF Kinds, Launched, Ended, Beside, Passed, LookedUp, Begun, Restored, Polled,
         Opened, Written, Concluded, FilingFailed, Removed
    <3>2. QED
      BY <3>1 DEF FinalFilesMatch
  <2>2. CASE Launched
    BY <2>1, <2>2, FinalsLaunched
  <2>3. CASE Ended \/ Beside
    BY <2>1, <2>3, FinalsStay DEF Ended, Beside, Unfiled, Undecided
  <2>4. CASE Passed
    BY <2>1, <2>4, FinalsStay DEF Passed, Unfiled, Undecided, BeforeAnnounce, BeforeReport
  <2>5. CASE LookedUp
    BY <2>1, <2>5, FinalsStay DEF LookedUp, Unfiled, Undecided, BeforeAnnounce, BeforeReport
  <2>6. CASE Begun
    BY <2>1, <2>6 DEF Begun, NotFiledYet, Unfiled, Undecided, BeforeAnnounce, BeforeReport
  <2>7. CASE Restored
    <3>1. /\ pc["main"] = "restore" /\ pc'["main"] = "announce"
          /\ UNCHANGED <<run, finals>>
          /\ report'.run = IF IsReport(recovered) THEN recovered.run ELSE run
      BY <2>7 DEF Restored, Lineage, ReportIsEmpty
    <3>2. finals[run].main \in {NoFile, Torn}
      BY <3>1 DEF NotFiledYet, BeforeAnnounce
    <3>3. IsReport(recovered) => finals[recovered.run].main \in {NoFile, Torn}
      BY <3>1 DEF ResumesUnfinished
    <3>4. QED
      BY <2>1, <3>1, <3>2, <3>3 DEF NotFiledYet, BeforeAnnounce, BeforeReport
  <2>8. CASE Polled \/ Concluded
    <3>1. UNCHANGED <<run, finals>> /\ report'.run = report.run
      BY <1>1, <2>8 DEF Polled, Concluded, Result
    <3>2. /\ pc["main"] \in Unfiled \ BeforeAnnounce /\ pc'["main"] \in Unfiled \ BeforeAnnounce
          /\ pc'["main"] \notin {"openMain", "writeMain"}
      BY <2>8 DEF Polled, Concluded, Unfiled, Undecided, BeforeAnnounce, BeforeReport
    <3>3. QED
      BY <2>1, <3>1, <3>2, FinalsStay
  <2>9. CASE Opened \/ Written
    BY <2>1, <2>9, FinalsStay DEF Opened, Written, Unfiled, Undecided, BeforeAnnounce, BeforeReport
  <2>10. CASE FilingFailed \/ Removed
    BY <2>1, <2>10, FinalsStay DEF FilingFailed, Removed, Unfiled, Undecided
  <2>11. QED
    BY <1>3, <2>1, <2>2, <2>3, <2>4, <2>5, <2>6, <2>7, <2>8, <2>9, <2>10 DEF Kinds
<1>4. QED
  BY <1>2, <1>3

-----------------------------------------------------------------------------
(* Whose reports there are, and which has more entries, in every instance. *)
THEOREM LineageHolds == Spec => []Lineage
<1>1. IInv /\ Lineage /\ IInv' /\ [Next]_vars => Lineage'
  BY StepKinds, LineageStep
<1>2. QED
  BY <1>1, LineageInit, Invariance, PTL DEF Spec

(* A test restored from its temp report goes on under its old RunID and    *)
(* never with fewer entries than it had, whatever the signal handler does  *)
(* beside it.                                                              *)
THEOREM RestoredStaysKept == Spec => []RestoredIsKept
<1>1. Init => RestoredIsKept
  BY DEF Init, RestoredIsKept, IsReport
<1>2. IInv /\ RestoredIsKept /\ [Next]_vars => RestoredIsKept'
  BY StepKinds, RestoredStep
<1>3. QED
  BY <1>1, <1>2, Invariance, PTL DEF Spec

(* A successful test that is about to stop has removed its temp report,    *)
(* unless a signal arrived or the disk failed.                             *)
THEOREM EndedLeavesNothing == Spec => []EndedLeavesNoTemp
<1>1. Init => EndedLeavesNoTemp
  BY DEF Init, EndedLeavesNoTemp, Goroutine
<1>2. IInv /\ EndedLeavesNoTemp /\ [Next]_vars => EndedLeavesNoTemp'
  BY StepKinds, EndedStep
<1>3. QED
  BY <1>1, <1>2, Invariance, PTL DEF Spec

(* RemoveTempReport never destroys the only record of a run's entries: a   *)
(* step that removes a temp report of the run in memory finds the final    *)
(* report of that run whole, with at least as many entries.                *)
THEOREM RemovalLosesNothingHolds == Spec => RemovalLosesNothing
<1>1. IInv /\ Lineage /\ [Next]_vars =>
          [IsReport(temp) /\ temp' = NoFile /\ temp.run = report.run /\ ~diskFailed =>
              /\ finals[temp.run].main \notin {NoFile, Torn}
              /\ finals[temp.run].progress >= temp.entries]_vars
  BY StepKinds, RemovalStep
<1>2. QED
  BY <1>1, Invariance, LineageHolds, PTL DEF Spec, RemovalLosesNothing

(* A process that dies at the top of an iteration of WaitForSync loses     *)
(* less than SaveEvery entries, for every SaveEvery.                       *)
THEOREM LossBounded == Spec => []BoundedLoss
<1>1. IInv /\ Lineage /\ Saving /\ [Next]_vars => Saving'
  BY StepKinds, SavingStep
<1>2. Spec => []Saving
  BY <1>1, SavingInit, Invariance, LineageHolds, PTL DEF Spec
<1>3. QED
  BY <1>2, LossIsBounded, Invariance, PTL

(* As long as no process resumes a run that already has a final report,    *)
(* the main file of a final report has the entries of its progress file,   *)
(* wherever a process died between the writes.                             *)
THEOREM FinalFilesAgree == Spec /\ []ResumesUnfinished => []FinalFilesMatch
<1>1. IInv /\ IInv' /\ Lineage /\ ResumesUnfinished /\ NotFiledYet /\ FinalFilesMatch /\ [Next]_vars
      => NotFiledYet' /\ FinalFilesMatch'
  BY StepKinds, FinalsStep
<1>2. QED
  BY <1>1, FinalsInit, Invariance, LineageHolds, PTL DEF Spec

(* While the first process starts, no final report is on disk, so what it   *)
(* resumes has none.                                                       *)
FirstStarts ==
    /\ run = 0 => pc["main"] = "off"
    /\ run = 0 \/ (run = 1 /\ pc["main"] \in BeforeAnnounce) =>
          \A r \in RunID : finals[r].main = NoFile

LEMMA FirstStartsStep ==
    ASSUME IInv, FirstStarts, Kinds
    PROVE  FirstStarts'
<1> USE DEF MainGoes
<1>1. run \in Nat
  BY LineageTypes
<1>2. CASE Launched
  BY <1>1, <1>2 DEF Launched, FirstStarts
<1>3. CASE Ended \/ Beside
  BY <1>3 DEF Ended, Beside, FirstStarts, BeforeAnnounce, BeforeReport
<1>4. CASE Passed
  BY <1>4 DEF Passed, FirstStarts, BeforeAnnounce, BeforeReport
<1>5. CASE LookedUp \/ Begun \/ Restored
  BY <1>5 DEF LookedUp, Begun, Restored, FirstStarts, BeforeAnnounce, BeforeReport
<1>6. CASE Polled \/ Opened \/ Written \/ Concluded \/ Filed \/ FilingFailed \/ Removed
  <2>1. /\ pc["main"] # "off" /\ pc'["main"] \notin BeforeAnnounce /\ run' = run
    BY <1>6 DEF Polled, Opened, Written, Concluded, Filed, FilingFailed, Removed,
                BeforeAnnounce, BeforeReport
  <2>2. QED
    BY <2>1 DEF FirstStarts
<1>7. QED
  BY <1>2, <1>3, <1>4, <1>5, <1>6 DEF Kinds

LEMMA FirstResumesUnfinished == MaxRuns = 1 /\ IInv /\ FirstStarts => ResumesUnfinished
<1> SUFFICES ASSUME MaxRuns = 1, IInv, FirstStarts, pc["main"] = "restore", IsReport(recovered)
             PROVE  finals[recovered.run].main \in {NoFile, Torn}
  BY DEF ResumesUnfinished
<1>1. run \in RunID /\ recovered \in Result
  BY LineageTypes DEF IInv, RestOK, IsReport
<1>2. run = 1
  BY <1>1 DEF RunID, FirstStarts
<1>3. recovered.run \in RunID
  BY <1>1 DEF Result
<1>4. QED
  BY <1>2, <1>3 DEF FirstStarts, BeforeAnnounce, BeforeReport

(* Of one process, the main file of its final report has the entries of    *)
(* the progress file, wherever it dies and whatever the handler writes.    *)
THEOREM FirstFinalFilesAgree == MaxRuns = 1 => (Spec => []FinalFilesMatch)
<1> SUFFICES ASSUME MaxRuns = 1 PROVE Spec => []FinalFilesMatch
  OBVIOUS
<1>1. Init => FirstStarts
  BY DEF Init, FirstStarts, Goroutine, NoFinal
<1>2. IInv /\ FirstStarts /\ [Next]_vars => FirstStarts'
  BY StepKinds, FirstStartsStep
<1>3. IInv /\ FirstStarts => ResumesUnfinished
  BY FirstResumesUnfinished
<1>4. QED
  BY <1>1, <1>2, <1>3, Invariance, FinalFilesAgree, PTL DEF Spec

=============================================================================
