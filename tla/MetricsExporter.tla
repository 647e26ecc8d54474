-------------------------- MODULE MetricsExporter --------------------------
(***************************************************************************)
(* The container of the metrics exporter, from the point in Start where it *)
(* is created to the end of the process (pkg/metrics-exporter/manager.go,  *)
(* pkg/docker/manager.go, and their use in pkg/synctest/service.go and     *)
(* cmd/syncoor/sync.go).                                                   *)
(*                                                                         *)
(* Every syncoor process of a host gives its container the same name, and  *)
(* Docker refuses a second container of that name, running or not: what    *)
(* one process leaves behind the next one meets.                           *)
(*                                                                         *)
(* main starts the exporter and stops it once: by its deferred Stop when   *)
(* the test succeeded, by finalizeSyncTest's when it timed out or crashed. *)
(* The signal handler calls the same Stop at any moment.  The two share    *)
(* the Manager's containerID and configDir without a lock, and every call  *)
(* to Docker is a step of its own.  StopContainer and WaitForHealthy slice *)
(* the ID they are given (containerID[:12]), so an empty one panics.       *)
(*                                                                         *)
(* What else Stop does, the reporting client and its panic, is in SyncRun. *)
(*                                                                         *)
(* A process creates at most one container and one temporary directory, so *)
(* the number of the process stands for the ID and the path; 0 is "".      *)
(***************************************************************************)
EXTENDS Naturals

CONSTANTS
    MaxRuns,     \* bound: processes started on this host, one after the other
    NoContainer  \* no container has the name syncoor-metrics-exporter

ASSUME MaxRunsAssumption == MaxRuns \in Nat

VARIABLES
    pc,          \* where the goroutines "main" and "sig" are
    run,         \* how many processes were started
    containerID, \* Manager.containerID
    configDir,   \* Manager.configDir
    arg,         \* the ID each goroutine passed to StopContainer
    cancelled,   \* the contexts of Start and WaitForSync are cancelled
    testFailed,  \* WaitForSync found that the test timed out or crashed
    exit,        \* how the last process ended, "none" while it runs
    container,   \* Docker: the container of that name
    dirs,        \* the temporary directory of each process
    dockerFailed,\* observation: the daemon failed a call of this process
    signalled    \* observation: this process received a signal

manager == <<containerID, configDir>>
testing == <<cancelled, testFailed>>
host    == <<container, dirs>>
observed == <<dockerFailed, signalled>>
vars == <<pc, run, manager, arg, testing, exit, host, observed>>

-----------------------------------------------------------------------------
Goroutine == {"main", "sig"}
Run       == 1 .. MaxRuns
ID        == 0 .. MaxRuns

(* A created container is not started yet, an exited one stopped or was    *)
(* stopped; both hold the name.                                            *)
Container == [owner : Run, state : {"created", "running", "exited"}]
ASSUME NoContainerAssumption == NoContainer \notin Container

StartLabel == {"pull", "mkdir", "config", "create", "start", "inspect",
               "health", "wait", "healthy", "unhealthy"}
StopLabel  == {"stopping", "call", "stop", "remove", "clear", "dir"}
MainLabel  == {"off", "sync", "return"} \cup StartLabel \cup StopLabel
                \cup {"cleanupStop", "cleanupRemove"}
SigLabel   == {"off", "waiting", "cancel", "done"} \cup StopLabel

Goto(g, label) == pc' = [pc EXCEPT ![g] = label] /\ UNCHANGED exit

(* Fatalf, os.Exit, a return from main, a panic: nothing runs after it.    *)
End(how) == pc' = [g \in Goroutine |-> "off"] /\ exit' = how

DockerFails == dockerFailed' = TRUE /\ UNCHANGED signalled
DockerWorks == UNCHANGED observed

(* A call to Docker under a context, done or not.  One that fails for its  *)
(* caller may have been carried out.                                       *)
Works(done) == ~done /\ DockerWorks
Fails(done) == DockerFails \/ (done /\ DockerWorks)

(* Stop has a context of its own in service.Stop; in finalizeSyncTest it   *)
(* derives from main's.  The timeout of either is a failure of Docker.     *)
StopDone(g) == g = "main" /\ testFailed /\ cancelled

Exists(id) == container # NoContainer /\ container.owner = id

-----------------------------------------------------------------------------
(* Processes.                                                              *)

BadLaunchSharesManager ==
    /\ pc["main"] = "off"
    /\ run < MaxRuns
    /\ run' = run + 1
    /\ pc' = [main |-> "pull", sig |-> "waiting"]
    /\ exit' = "none"
    /\ cancelled' = FALSE
    /\ testFailed' = FALSE
    /\ dockerFailed' = FALSE
    /\ signalled' = FALSE
    /\ UNCHANGED <<manager, arg, host>>

Launch ==
    /\ pc["main"] = "off"
    /\ run < MaxRuns
    /\ run' = run + 1
    /\ pc' = [main |-> "pull", sig |-> "waiting"]
    /\ exit' = "none"
    /\ containerID' = 0
    /\ configDir' = 0
    /\ arg' = [g \in Goroutine |-> 0]
    /\ cancelled' = FALSE
    /\ testFailed' = FALSE
    /\ dockerFailed' = FALSE
    /\ signalled' = FALSE
    /\ UNCHANGED host

(* SIGKILL, out of memory, the machine.                                    *)
Kill ==
    /\ pc["main"] # "off"
    /\ End("killed")
    /\ UNCHANGED <<run, manager, arg, testing, host, observed>>

Signal ==
    /\ pc["sig"] = "waiting"
    /\ Goto("sig", "stopping")
    /\ signalled' = TRUE
    /\ UNCHANGED <<run, manager, arg, testing, host, dockerFailed>>

(* At the end of service.Stop s.cancel(), then cancel().                   *)
SignalCancel ==
    /\ pc["sig"] = "cancel"
    /\ Goto("sig", "done")
    /\ cancelled' = TRUE
    /\ UNCHANGED <<run, manager, arg, testFailed, host, observed>>

-----------------------------------------------------------------------------
(* Manager.Start, called last in Start; any error in it is fatal.          *)

(* EnsureImageLatest, which always pulls, and prepareConfiguration, which  *)
(* finds and probes the clients' endpoints.                                *)
PrepareConfiguration ==
    /\ pc["main"] = "pull"
    /\ \/ Goto("main", "mkdir") /\ Works(cancelled)
       \/ End("startFailed") /\ UNCHANGED observed
    /\ UNCHANGED <<run, manager, arg, testing, host>>

MkdirTemp ==
    /\ pc["main"] = "mkdir"
    /\ \/ /\ Goto("main", "config")
          /\ dirs' = [dirs EXCEPT ![run] = "empty"]
          /\ configDir' = run
       \/ End("startFailed") /\ UNCHANGED <<configDir, dirs>>
    /\ UNCHANGED <<run, containerID, arg, testing, container, observed>>

(* Creates the directory again if Stop has removed it meanwhile.           *)
WriteConfigFile ==
    /\ pc["main"] = "config"
    /\ \/ Goto("main", "create") /\ dirs' = [dirs EXCEPT ![run] = "config"]
       \/ End("startFailed") /\ UNCHANGED dirs
    /\ UNCHANGED <<run, manager, arg, testing, container, observed>>

BadCreateAdoptsLeftover ==
    /\ pc["main"] = "create"
    /\ \/ /\ container = NoContainer
          /\ container' = [owner |-> run, state |-> "created"]
          /\ Goto("main", "start") /\ Works(cancelled)
       \/ /\ container # NoContainer
          /\ Goto("main", "sync") /\ Works(cancelled)
          /\ UNCHANGED container
    /\ UNCHANGED <<run, manager, arg, testing, dirs>>

ContainerCreate ==
    /\ pc["main"] = "create"
    /\ \/ /\ container = NoContainer
          /\ container' = [owner |-> run, state |-> "created"]
          /\ \/ Goto("main", "start") /\ Works(cancelled)
             \/ Fails(cancelled) /\ End("startFailed")
       \/ Fails(cancelled) /\ End("startFailed") /\ UNCHANGED container
       \/ /\ container # NoContainer
          /\ End("startFailed")
          /\ DockerWorks
          /\ UNCHANGED container
    /\ UNCHANGED <<run, manager, arg, testing, dirs>>

(* Docker creates a directory to mount that does not exist; without a      *)
(* configuration file the exporter exits.                                  *)
ContainerStart ==
    /\ pc["main"] = "start"
    /\ Exists(run)
    /\ \/ /\ container' = [container EXCEPT
                !.state = IF dirs[run] = "config" THEN "running" ELSE "exited"]
          /\ dirs' = [dirs EXCEPT ![run] = IF @ = "none" THEN "empty" ELSE @]
          /\ \/ Goto("main", "inspect") /\ Works(cancelled)
             \/ Fails(cancelled) /\ End("startFailed")
       \/ Fails(cancelled) /\ End("startFailed") /\ UNCHANGED host
    /\ UNCHANGED <<run, manager, arg, testing>>

BadInspectLosesID ==
    /\ pc["main"] = "inspect"
    /\ \/ Goto("main", "health") /\ UNCHANGED containerID /\ Works(cancelled)
       \/ Fails(cancelled) /\ End("startFailed") /\ UNCHANGED containerID
    /\ UNCHANGED <<run, configDir, arg, testing, host>>

(* The rest of StartContainer; its error leaves the container behind.      *)
ContainerInspect ==
    /\ pc["main"] = "inspect"
    /\ \/ Goto("main", "health") /\ containerID' = run /\ Works(cancelled)
       \/ Fails(cancelled) /\ End("startFailed") /\ UNCHANGED containerID
    /\ UNCHANGED <<run, configDir, arg, testing, host>>

(* main slices Manager.containerID, which Stop may have cleared.           *)
UsesID(label, next) ==
    /\ pc["main"] = label
    /\ \/ /\ containerID # 0
          /\ arg' = [arg EXCEPT !["main"] = containerID]
          /\ Goto("main", next)
       \/ containerID = 0 /\ End("panic") /\ UNCHANGED arg
    /\ UNCHANGED <<run, manager, testing, host, observed>>

(* WaitForHealthy, by its own copy of the ID: for as long as a minute.     *)
WaitForHealthy ==
    /\ pc["main"] = "wait"
    /\ \/ Exists(arg["main"]) /\ container.state = "running"
            /\ Goto("main", "healthy") /\ Works(cancelled)
       \/ Goto("main", "unhealthy") /\ DockerWorks
       \/ Goto("main", "unhealthy") /\ DockerFails
    /\ UNCHANGED <<run, manager, arg, testing, host>>

waitForContainerHealth ==
    \/ UsesID("health", "wait")
    \/ WaitForHealthy
    \/ UsesID("healthy", "sync")
    \/ UsesID("unhealthy", "cleanupStop")

-----------------------------------------------------------------------------
(* StopContainer: ContainerStop, then a forced ContainerRemove.            *)

ContainerStop(g, label, done, next, failed) ==
    /\ pc[g] = label
    /\ \/ /\ Exists(arg[g])
          /\ container' = [container EXCEPT !.state = "exited"]
          /\ (next /\ Works(done)) \/ (failed /\ Fails(done))
       \/ /\ (~Exists(arg[g]) /\ DockerWorks) \/ Fails(done)
          /\ failed
          /\ UNCHANGED container
    /\ UNCHANGED <<run, manager, arg, testing, dirs>>

BadContainerRemoveForgets(g, label, done, removed, failed) ==
    /\ pc[g] = label
    /\ removed
    /\ UNCHANGED <<run, manager, arg, testing, host, observed>>

ContainerRemove(g, label, done, removed, failed) ==
    /\ pc[g] = label
    /\ \/ /\ Exists(arg[g])
          /\ container' = NoContainer
          /\ (removed /\ Works(done)) \/ (failed /\ Fails(done))
       \/ /\ (~Exists(arg[g]) /\ DockerWorks) \/ Fails(done)
          /\ failed
          /\ UNCHANGED container
    /\ UNCHANGED <<run, manager, arg, testing, dirs>>

BadCleanUpFailedOnlyStops ==
    ContainerStop("main", "cleanupStop", cancelled, End("startFailed"), End("startFailed"))

(* The container did not become healthy: it is removed, with the context   *)
(* of Start, and Start fails.                                              *)
CleanUpFailed ==
    \/ ContainerStop("main", "cleanupStop", cancelled,
                     Goto("main", "cleanupRemove"), End("startFailed"))
    \/ ContainerRemove("main", "cleanupRemove", cancelled,
                       End("startFailed"), End("startFailed"))

(* Manager.Stop.  The handler goes on to cancel, main returns or exits.    *)
AfterStop(g) == IF g = "main" THEN "return" ELSE "cancel"

StopBegins(g) ==
    /\ pc[g] = "stopping"
    /\ Goto(g, IF containerID # 0 THEN "call" ELSE "dir")
    /\ UNCHANGED <<run, manager, arg, testing, host, observed>>

(* containerID is read again to be passed on.                              *)
StopCalls(g) ==
    /\ pc[g] = "call"
    /\ \/ /\ containerID # 0
          /\ arg' = [arg EXCEPT ![g] = containerID]
          /\ Goto(g, "stop")
       \/ containerID = 0 /\ End("panic") /\ UNCHANGED arg
    /\ UNCHANGED <<run, manager, testing, host, observed>>

StopClears(g) ==
    /\ pc[g] = "clear"
    /\ Goto(g, "dir")
    /\ containerID' = 0
    /\ UNCHANGED <<run, configDir, arg, testing, host, observed>>

RemoveConfigDir(g) ==
    /\ pc[g] = "dir"
    /\ Goto(g, AfterStop(g))
    /\ dirs' = [r \in Run |-> IF r = configDir THEN "none" ELSE dirs[r]]
    /\ configDir' = 0
    /\ UNCHANGED <<run, containerID, arg, testing, container, observed>>

Stop(g) ==
    \/ StopBegins(g)
    \/ StopCalls(g)
    \/ ContainerStop(g, "stop", StopDone(g), Goto(g, "remove"), Goto(g, AfterStop(g)))
    \/ ContainerRemove(g, "remove", StopDone(g), Goto(g, "clear"), Goto(g, AfterStop(g)))
    \/ StopClears(g)
    \/ RemoveConfigDir(g)

-----------------------------------------------------------------------------
(* WaitForSync ends.  A success is stopped by the deferred Stop, a test    *)
(* that timed out or crashed by finalizeSyncTest before os.Exit; os.Exit   *)
(* without a Stop ends a cancelled test and one that succeeded but could   *)
(* not save its report.                                                    *)
WaitForSync ==
    /\ pc["main"] = "sync"
    /\ \/ Goto("main", "stopping") /\ testFailed' \in BOOLEAN
       \/ End("aborted") /\ UNCHANGED testFailed
    /\ UNCHANGED <<run, manager, arg, cancelled, host, observed>>

Return ==
    /\ pc["main"] = "return"
    /\ End(IF testFailed THEN "testFailed" ELSE "success")
    /\ UNCHANGED <<run, manager, arg, testing, host, observed>>

(* The exporter ends by itself; it is not restarted (RestartPolicy "no").  *)
ContainerExits ==
    /\ container # NoContainer
    /\ container.state = "running"
    /\ container' = [container EXCEPT !.state = "exited"]
    /\ UNCHANGED <<pc, run, manager, arg, testing, exit, dirs, observed>>

(* A step of the GitHub action removes containers by name between runs;    *)
(* on another host nobody may.                                             *)
CleanupExisting ==
    /\ pc["main"] = "off"
    /\ container # NoContainer
    /\ container' = NoContainer
    /\ UNCHANGED <<pc, run, manager, arg, testing, exit, dirs, observed>>

-----------------------------------------------------------------------------
Init ==
    /\ pc = [g \in Goroutine |-> "off"]
    /\ run = 0
    /\ containerID = 0
    /\ configDir = 0
    /\ arg = [g \in Goroutine |-> 0]
    /\ cancelled = FALSE
    /\ testFailed = FALSE
    /\ exit = "none"
    /\ container = NoContainer
    /\ dirs = [r \in Run |-> "none"]
    /\ dockerFailed = FALSE
    /\ signalled = FALSE

Start ==
    \/ PrepareConfiguration \/ MkdirTemp \/ WriteConfigFile
    \/ ContainerCreate \/ ContainerStart \/ ContainerInspect
    \/ waitForContainerHealth \/ CleanUpFailed

Next ==
    \/ Launch \/ Kill \/ Signal \/ SignalCancel
    \/ Start \/ WaitForSync \/ Return
    \/ \E g \in Goroutine : Stop(g)
    \/ ContainerExits \/ CleanupExisting

Spec == Init /\ [][Next]_vars

-----------------------------------------------------------------------------
(* Properties.                                                             *)

(* Every variable has its type; a process only ever holds the ID and the   *)
(* directory it created.                                                   *)
TypeOK ==
    /\ pc \in [Goroutine -> MainLabel \cup SigLabel]
    /\ pc["main"] \in MainLabel /\ pc["sig"] \in SigLabel
    /\ run \in 0 .. MaxRuns
    /\ containerID \in {0, run} /\ configDir \in {0, run}
    /\ arg \in [Goroutine -> {0, run}]
    /\ cancelled \in BOOLEAN
    /\ testFailed \in BOOLEAN
    /\ exit \in {"none", "success", "startFailed", "testFailed", "aborted", "panic", "killed"}
    /\ container \in Container \cup {NoContainer}
    /\ dirs \in [Run -> {"none", "empty", "config"}]
    /\ dockerFailed \in BOOLEAN
    /\ signalled \in BOOLEAN

(* A test reads the metrics of its own clients: while it syncs, the        *)
(* container of that name is the one it created, with its configuration,   *)
(* never one that a process before it left behind.                         *)
SyncsWithOwnExporter ==
    pc["main"] = "sync" /\ ~signalled =>
        Exists(run) /\ containerID = run /\ dirs[run] = "config"

(* A test that ends in a verdict, a success or a failure, leaves neither a *)
(* container nor a directory behind.  A success leaves no container even   *)
(* when it is signalled as it ends; a failure may, because its Stop has    *)
(* the context that the handler cancels.                                   *)
VerdictLeavesNothing ==
    exit \in {"success", "testFailed"} /\ ~dockerFailed =>
        /\ ~Exists(run) \/ (exit = "testFailed" /\ signalled)
        /\ dirs[run] = "none" \/ signalled

(* A start that fails leaves no container that blocks the next one.        *)
FailedStartLeavesNoContainer ==
    exit = "startFailed" /\ ~dockerFailed /\ ~signalled => ~Exists(run)

(* An empty container ID is used only when a signal made two goroutines    *)
(* work on the manager.                                                    *)
PanicsOnlyWhenSignalled == exit = "panic" => signalled

=============================================================================
