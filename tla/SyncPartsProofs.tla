-------------------------- MODULE SyncPartsProofs --------------------------
(***************************************************************************)
(* The container of the metrics exporter, for any number of processes on a *)
(* host; the log streams of a test, for any number of clients and          *)
(* attempts; the requests of an iteration, for any length of the chain;    *)
(* and that every behaviour of SyncParts is one of the exporter's own      *)
(* specification, so that what is proved of the exporter holds of it.      *)
(*                                                                         *)
(* The properties of the exporter speak of the moments at which main syncs *)
(* or the process has ended.  To be inductive they need, for every step in *)
(* between, which container exists and what the Manager knows of it:       *)
(* nothing is created before "create" (Early), an ID is cleared only when  *)
(* its container is gone (Gone), and without a signal nobody but main      *)
(* touches either (Quiet).                                                 *)
(*                                                                         *)
(* StreamsAreWatched needs to know that only the last attempt reads, and   *)
(* that an error in a channel means its reader has ended (Watched).  The   *)
(* verdict of WaitForSync needs what each answer says of the moments since *)
(* the iteration began (Asked): a client may fall behind after it answered *)
(* but cannot undo that it once had a block, and then was not syncing.     *)
(***************************************************************************)
EXTENDS SyncParts, FiniteSetTheorems, TLAPS

-----------------------------------------------------------------------------
(* The metrics exporter. *)

Running == pc["main"] # "off"

\* Labels before the container is created, and before its ID is kept.
Before  == {"pull", "mkdir", "config", "create"}
Unknown == Before \cup {"start", "inspect"}

OneProcess ==
    /\ Running  => run \in Run
    /\ ~Running => pc["sig"] = "off"
    /\ exit # "none" => ~Running
    /\ Running /\ ~signalled => pc["sig"] = "waiting"
    /\ cancelled => signalled
    /\ container # NoContainer => container.owner \in 1 .. run

Early ==
    /\ pc["main"] \in Before => ~Exists(run)
    /\ pc["main"] \in Unknown =>
          containerID = 0 /\ pc["sig"] \notin {"call", "stop", "remove", "clear"}

OwnID ==
    /\ pc["main"] \in {"wait", "cleanupStop", "cleanupRemove", "stop", "remove"} =>
          arg["main"] = run
    /\ pc["sig"] \in {"stop", "remove"} => arg["sig"] = run

Gone ==
    /\ Running /\ pc["main"] \notin Unknown /\ containerID = 0 => ~Exists(run)
    /\ pc["main"] \in {"clear", "dir"} => ~Exists(run)
    /\ pc["sig"] = "clear" => ~Exists(run)
    /\ pc["main"] = "return" /\ ~dockerFailed /\ ~(testFailed /\ signalled) => ~Exists(run)

Quiet ==
    Running /\ ~signalled =>
        /\ pc["main"] \notin Before \cup {"clear", "dir", "return"} => Exists(run)
        /\ pc["main"] \notin Unknown \cup {"cleanupStop", "cleanupRemove", "dir", "return"}
              => containerID = run
        /\ pc["main"] \notin {"pull", "mkdir", "return"} => configDir = run
        /\ pc["main"] \notin {"pull", "mkdir", "config", "return"} => dirs[run] = "config"
        /\ pc["main"] = "return" /\ ~dockerFailed => dirs[run] = "none"

Ended == VerdictLeavesNothing /\ FailedStartLeavesNoContainer /\ PanicsOnlyWhenSignalled

Inv == TypeOK /\ OneProcess /\ Early /\ OwnID /\ Gone /\ Quiet /\ Ended

-----------------------------------------------------------------------------

USE DEF Running, Exists

(* Where the goroutines go. *)

LEMMA LabelsType ==
    /\ {"off", "sync", "return", "pull", "mkdir", "config", "create", "start", "inspect",
        "health", "wait", "healthy", "unhealthy", "stopping", "call", "stop", "remove",
        "clear", "dir", "cleanupStop", "cleanupRemove"} \subseteq MainLabel
    /\ {"off", "waiting", "cancel", "done", "stopping", "call", "stop", "remove",
        "clear", "dir"} \subseteq SigLabel
BY DEF MainLabel, SigLabel, StartLabel, StopLabel

PcOK ==
    /\ pc \in [Goroutine -> MainLabel \cup SigLabel]
    /\ pc["main"] \in MainLabel /\ pc["sig"] \in SigLabel

LEMMA GotoMain ==
    ASSUME PcOK, NEW l \in MainLabel, Goto("main", l)
    PROVE  PcOK' /\ pc'["main"] = l /\ pc'["sig"] = pc["sig"] /\ exit' = exit
BY DEF PcOK, Goto, Goroutine

LEMMA GotoSig ==
    ASSUME PcOK, NEW l \in SigLabel, Goto("sig", l)
    PROVE  PcOK' /\ pc'["sig"] = l /\ pc'["main"] = pc["main"] /\ exit' = exit
BY DEF PcOK, Goto, Goroutine

LEMMA EndPc ==
    ASSUME NEW how, End(how)
    PROVE  PcOK' /\ pc'["main"] = "off" /\ pc'["sig"] = "off" /\ exit' = how
<1>1. pc'["main"] = "off" /\ pc'["sig"] = "off" /\ exit' = how
      /\ pc' \in [Goroutine -> {"off"}]
  BY DEF End, Goroutine
<1>2. QED
  BY <1>1, LabelsType DEF PcOK

DataOK ==
    /\ run \in 0 .. MaxRuns
    /\ containerID \in {0, run} /\ configDir \in {0, run}
    /\ arg \in [Goroutine -> {0, run}]
    /\ cancelled \in BOOLEAN
    /\ testFailed \in BOOLEAN
    /\ exit \in {"none", "success", "startFailed", "testFailed", "aborted", "panic", "killed"}
    /\ container \in Container \cup {NoContainer}
    /\ dirs \in [Run -> {"none", "empty", "config"}]
    /\ dockerFailed \in BOOLEAN
    /\ signalled \in BOOLEAN

LEMMA TypeParts == (TypeOK <=> PcOK /\ DataOK) /\ (TypeOK' <=> PcOK' /\ DataOK')
BY DEF TypeOK, PcOK, DataOK

USE DEF VerdictLeavesNothing, FailedStartLeavesNoContainer, PanicsOnlyWhenSignalled

Frame ==
    /\ run' = run
    /\ cancelled' => signalled'
    /\ container' # NoContainer => container'.owner \in 1 .. run

(* The process ends: what remains to show is what its exit promises.       *)
LEMMA EndKeeps ==
    ASSUME Inv, NEW how, End(how), DataOK', Frame, Ended'
    PROVE  Inv'
<1>1. PcOK' /\ pc'["main"] = "off" /\ pc'["sig"] = "off"
  BY EndPc
<1>2. OneProcess' /\ Early' /\ OwnID' /\ Gone' /\ Quiet'
  BY <1>1 DEF OneProcess, Early, OwnID, Gone, Quiet, Before, Unknown, Frame
<1>3. QED
  BY <1>1, <1>2, TypeParts DEF Inv

(* The process goes on: what its exit promises is not asked.               *)
LEMMA GoKeeps ==
    ASSUME Inv, Running, Running', exit' = exit, PcOK', DataOK', Frame,
           ~signalled' => pc'["sig"] = "waiting",
           Early', OwnID', Gone', Quiet'
    PROVE  Inv'
<1>1. exit' = "none" /\ run' \in Run
  BY TypeParts DEF Inv, OneProcess, Frame, DataOK
<1>2. OneProcess' /\ Ended'
  BY <1>1 DEF OneProcess, Ended, Frame
<1>3. QED
  BY <1>2, TypeParts DEF Inv

LEMMA Known ==
    ASSUME Inv, Running
    PROVE  /\ PcOK /\ DataOK /\ run \in Run /\ run # 0 /\ run \in Nat /\ exit = "none"
           /\ ~signalled => pc["sig"] = "waiting" /\ ~cancelled
           /\ container # NoContainer => container.owner \in 1 .. run
<1>1. PcOK /\ DataOK /\ run \in Run /\ exit = "none"
  BY TypeParts DEF Inv, OneProcess, DataOK
<1>2. QED
  BY <1>1, MaxRunsAssumption DEF Inv, OneProcess, Run

LEMMA PrepareKeeps ==
    ASSUME Inv, PrepareConfiguration
    PROVE  Inv'
<1>1. pc["main"] = "pull" /\ ~Exists(run)
  BY DEF PrepareConfiguration, Inv, Early, Before
<1>2. /\ PcOK /\ DataOK /\ run \in Run /\ run # 0 /\ run \in Nat /\ exit = "none"
      /\ ~signalled => pc["sig"] = "waiting" /\ ~cancelled
      /\ container # NoContainer => container.owner \in 1 .. run
  BY <1>1, Known
<1>3. /\ UNCHANGED <<run, containerID, configDir, arg, cancelled, testFailed, signalled, container, dirs>>
      /\ dockerFailed' \in BOOLEAN
      /\ Goto("main", "mkdir") \/ End("startFailed")
  BY <1>1, <1>2 DEF PrepareConfiguration, manager, host, Works, Fails, DockerFails, DockerWorks, testing, observed, DataOK
<1>4. DataOK' /\ Frame
  <2>1. DataOK'
    BY <1>2, <1>3 DEF DataOK, Goto, End
  <2>2. Frame
    BY <1>1, <1>2, <1>3 DEF Frame
  <2>3. QED
    BY <2>1, <2>2
<1>5. CASE End("startFailed")
  <2>1. Ended'
    BY <1>1, <1>2, <1>3, <1>5, EndPc DEF Ended
  <2>2. QED
    BY <1>4, <1>5, <2>1, EndKeeps
<1>6. CASE Goto("main", "mkdir")
  <2>1. PcOK' /\ pc'["main"] = "mkdir" /\ pc'["sig"] = pc["sig"] /\ exit' = exit
    BY <1>2, <1>6, LabelsType, GotoMain
  <2>2. Early' /\ OwnID'
    BY <1>1, <1>2, <1>3, <1>6, <2>1 DEF Inv, Early, OwnID, Before, Unknown
  <2>3. Gone'
    BY <1>1, <1>2, <1>3, <1>6, <2>1 DEF Inv, Early, Gone, Before, Unknown
  <2>4. Quiet'
    BY <1>1, <1>2, <1>3, <1>6, <2>1 DEF Inv, Quiet, Before, Unknown
  <2>5. QED
    BY <1>1, <1>2, <1>3, <1>4, <1>6, <2>1, <2>2, <2>3, <2>4, GoKeeps
<1>7. QED
  BY <1>3, <1>5, <1>6

LEMMA MkdirKeeps ==
    ASSUME Inv, MkdirTemp
    PROVE  Inv'
<1>1. pc["main"] = "mkdir" /\ ~Exists(run)
  BY DEF MkdirTemp, Inv, Early, Before
<1>2. /\ PcOK /\ DataOK /\ run \in Run /\ run # 0 /\ run \in Nat /\ exit = "none"
      /\ ~signalled => pc["sig"] = "waiting" /\ ~cancelled
      /\ container # NoContainer => container.owner \in 1 .. run
  BY <1>1, Known
<1>3. /\ UNCHANGED <<run, containerID, arg, cancelled, testFailed, signalled, container, dockerFailed>>
      /\ configDir' \in {configDir, run}
      /\ dirs' = dirs \/ dirs' = [dirs EXCEPT ![run] = "empty"]
      /\ \/ Goto("main", "config") /\ configDir' = run
         \/ End("startFailed")
  BY <1>1, <1>2 DEF MkdirTemp, manager, host, Works, Fails, DockerFails, DockerWorks, testing, observed, DataOK
<1>4. DataOK' /\ Frame
  <2>1. DataOK'
    BY <1>2, <1>3 DEF DataOK, Goto, End
  <2>2. Frame
    BY <1>1, <1>2, <1>3 DEF Frame
  <2>3. QED
    BY <2>1, <2>2
<1>5. CASE End("startFailed")
  <2>1. Ended'
    BY <1>1, <1>2, <1>3, <1>5, EndPc DEF Ended
  <2>2. QED
    BY <1>4, <1>5, <2>1, EndKeeps
<1>6. CASE Goto("main", "config") /\ configDir' = run
  <2>1. PcOK' /\ pc'["main"] = "config" /\ pc'["sig"] = pc["sig"] /\ exit' = exit
    BY <1>2, <1>6, LabelsType, GotoMain
  <2>2. Early' /\ OwnID'
    BY <1>1, <1>2, <1>3, <1>6, <2>1 DEF Inv, Early, OwnID, Before, Unknown
  <2>3. Gone'
    BY <1>1, <1>2, <1>3, <1>6, <2>1 DEF Inv, Early, Gone, Before, Unknown
  <2>4. Quiet'
    BY <1>1, <1>2, <1>3, <1>6, <2>1 DEF Inv, Quiet, Before, Unknown
  <2>5. QED
    BY <1>1, <1>2, <1>3, <1>4, <1>6, <2>1, <2>2, <2>3, <2>4, GoKeeps
<1>7. QED
  BY <1>3, <1>5, <1>6

LEMMA WriteConfigKeeps ==
    ASSUME Inv, WriteConfigFile
    PROVE  Inv'
<1>1. pc["main"] = "config" /\ ~Exists(run)
  BY DEF WriteConfigFile, Inv, Early, Before
<1>2. /\ PcOK /\ DataOK /\ run \in Run /\ run # 0 /\ run \in Nat /\ exit = "none"
      /\ ~signalled => pc["sig"] = "waiting" /\ ~cancelled
      /\ container # NoContainer => container.owner \in 1 .. run
  BY <1>1, Known
<1>3. /\ UNCHANGED <<run, containerID, configDir, arg, cancelled, testFailed, signalled, container, dockerFailed>>
      /\ dirs' = dirs \/ dirs' = [dirs EXCEPT ![run] = "config"]
      /\ \/ Goto("main", "create") /\ dirs'[run] = "config"
         \/ End("startFailed")
  BY <1>1, <1>2 DEF WriteConfigFile, manager, host, Works, Fails, DockerFails, DockerWorks, testing, observed, DataOK
<1>4. DataOK' /\ Frame
  <2>1. DataOK'
    BY <1>2, <1>3 DEF DataOK, Goto, End
  <2>2. Frame
    BY <1>1, <1>2, <1>3 DEF Frame
  <2>3. QED
    BY <2>1, <2>2
<1>5. CASE End("startFailed")
  <2>1. Ended'
    BY <1>1, <1>2, <1>3, <1>5, EndPc DEF Ended
  <2>2. QED
    BY <1>4, <1>5, <2>1, EndKeeps
<1>6. CASE Goto("main", "create") /\ dirs'[run] = "config"
  <2>1. PcOK' /\ pc'["main"] = "create" /\ pc'["sig"] = pc["sig"] /\ exit' = exit
    BY <1>2, <1>6, LabelsType, GotoMain
  <2>2. Early' /\ OwnID'
    BY <1>1, <1>2, <1>3, <1>6, <2>1 DEF Inv, Early, OwnID, Before, Unknown
  <2>3. Gone'
    BY <1>1, <1>2, <1>3, <1>6, <2>1 DEF Inv, Early, Gone, Before, Unknown
  <2>4. Quiet'
    BY <1>1, <1>2, <1>3, <1>6, <2>1 DEF Inv, Quiet, Before, Unknown
  <2>5. QED
    BY <1>1, <1>2, <1>3, <1>4, <1>6, <2>1, <2>2, <2>3, <2>4, GoKeeps
<1>7. QED
  BY <1>3, <1>5, <1>6

LEMMA CreateKeeps ==
    ASSUME Inv, ContainerCreate
    PROVE  Inv'
<1> DEFINE new == [owner |-> run, state |-> "created"]
<1>1. /\ pc["main"] = "create" /\ containerID = 0 /\ ~Exists(run)
      /\ pc["sig"] \notin {"call", "stop", "remove", "clear"}
  BY DEF ContainerCreate, Inv, Early, Before, Unknown
<1>2. /\ PcOK /\ DataOK /\ run \in Run /\ run # 0 /\ run \in Nat /\ exit = "none"
      /\ ~signalled => pc["sig"] = "waiting" /\ ~cancelled
      /\ container # NoContainer => container.owner \in 1 .. run
  BY <1>1, Known
<1>3. /\ UNCHANGED <<run, containerID, configDir, arg, cancelled, testFailed, signalled, dirs>>
      /\ dockerFailed' \in BOOLEAN /\ container' \in {container, new}
      /\ \/ Goto("main", "start") /\ container' = new
         \/ /\ End("startFailed")
            /\ container' = container \/ dockerFailed' \/ signalled'
  BY <1>1, <1>2 DEF ContainerCreate, manager, host, Works, Fails, DockerFails, DockerWorks, testing, observed, DataOK
<1>9. new \in Container /\ new # NoContainer /\ new.owner = run
  BY <1>2, NoContainerAssumption DEF Container
<1> HIDE DEF new
<1>4. DataOK' /\ Frame
  <2>1. DataOK'
    BY <1>2, <1>3, <1>9 DEF DataOK, Goto, End
  <2>2. Frame
    BY <1>1, <1>2, <1>3, <1>9 DEF Frame
  <2>3. QED
    BY <2>1, <2>2
<1>5. CASE End("startFailed") /\ (container' = container \/ dockerFailed' \/ signalled')
  <2>1. Ended'
    BY <1>1, <1>2, <1>3, <1>5, EndPc DEF Ended
  <2>2. QED
    BY <1>4, <1>5, <2>1, EndKeeps
<1>6. CASE Goto("main", "start") /\ container' = new
  <2>1. PcOK' /\ pc'["main"] = "start" /\ pc'["sig"] = pc["sig"] /\ exit' = exit
    BY <1>2, <1>6, LabelsType, GotoMain
  <2>2. Early' /\ OwnID'
    BY <1>1, <1>2, <1>3, <1>6, <1>9, <2>1 DEF Inv, Early, OwnID, Before, Unknown
  <2>3. Gone'
    BY <1>1, <1>2, <1>3, <1>6, <1>9, <2>1 DEF Inv, Early, Gone, Before, Unknown
  <2>4. Quiet'
    BY <1>1, <1>2, <1>3, <1>6, <1>9, <2>1 DEF Inv, Quiet, Before, Unknown
  <2>5. QED
    BY <1>1, <1>2, <1>3, <1>4, <1>6, <2>1, <2>2, <2>3, <2>4, GoKeeps
<1>7. QED
  BY <1>3, <1>5, <1>6

LEMMA StartKeeps ==
    ASSUME Inv, ContainerStart
    PROVE  Inv'
<1>1. /\ pc["main"] = "start" /\ containerID = 0 /\ Exists(run)
      /\ pc["sig"] \notin {"call", "stop", "remove", "clear"}
  BY DEF ContainerStart, Inv, Early, Unknown
<1>2. /\ PcOK /\ DataOK /\ run \in Run /\ run # 0 /\ run \in Nat /\ exit = "none"
      /\ ~signalled => pc["sig"] = "waiting" /\ ~cancelled
      /\ container # NoContainer => container.owner \in 1 .. run
  BY <1>1, Known
<1>3. /\ UNCHANGED <<run, containerID, configDir, arg, cancelled, testFailed, signalled>>
      /\ dockerFailed' \in BOOLEAN /\ (dockerFailed => dockerFailed')
      /\ container' \in Container /\ container' # NoContainer /\ container'.owner = run
      /\ dirs' \in [Run -> {"none", "empty", "config"}]
      /\ dirs[run] = "config" => dirs'[run] = "config"
      /\ Goto("main", "inspect") \/ (End("startFailed") /\ (dockerFailed' \/ signalled'))
  <2>1. \/ UNCHANGED host
        \/ /\ container' = [container EXCEPT
                             !.state = IF dirs[run] = "config" THEN "running" ELSE "exited"]
           /\ dirs' = [dirs EXCEPT ![run] = IF @ = "none" THEN "empty" ELSE @]
    BY <1>1 DEF ContainerStart
  <2>2. container' \in Container /\ container'.owner = run
    BY <1>1, <1>2, <2>1 DEF host, DataOK, Container
  <2>3. /\ dirs' \in [Run -> {"none", "empty", "config"}]
        /\ dirs[run] = "config" => dirs'[run] = "config"
    BY <1>2, <2>1 DEF host, DataOK
  <2>4. QED
    BY <1>1, <1>2, <2>2, <2>3, NoContainerAssumption
       DEF ContainerStart, manager, testing, Works, Fails, DockerFails, DockerWorks, observed, DataOK
<1>4. DataOK' /\ Frame
  <2>1. DataOK'
    BY <1>2, <1>3 DEF DataOK, Goto, End
  <2>2. Frame
    BY <1>1, <1>2, <1>3 DEF Frame
  <2>3. QED
    BY <2>1, <2>2
<1>5. CASE End("startFailed") /\ (dockerFailed' \/ signalled')
  <2>1. Ended'
    BY <1>1, <1>2, <1>3, <1>5, EndPc DEF Ended
  <2>2. QED
    BY <1>4, <1>5, <2>1, EndKeeps
<1>6. CASE Goto("main", "inspect")
  <2>1. PcOK' /\ pc'["main"] = "inspect" /\ pc'["sig"] = pc["sig"] /\ exit' = exit
    BY <1>2, <1>6, LabelsType, GotoMain
  <2>2. Early' /\ OwnID'
    BY <1>1, <1>2, <1>3, <1>6, <2>1 DEF Inv, Early, OwnID, Before, Unknown
  <2>3. Gone'
    BY <1>1, <1>2, <1>3, <1>6, <2>1 DEF Inv, Early, Gone, Before, Unknown
  <2>4. Quiet'
    BY <1>1, <1>2, <1>3, <1>6, <2>1 DEF Inv, Quiet, Before, Unknown
  <2>5. QED
    BY <1>1, <1>2, <1>3, <1>4, <1>6, <2>1, <2>2, <2>3, <2>4, GoKeeps
<1>7. QED
  BY <1>3, <1>5, <1>6

LEMMA InspectKeeps ==
    ASSUME Inv, ContainerInspect
    PROVE  Inv'
<1>1. pc["main"] = "inspect" /\ containerID = 0 /\ pc["sig"] \notin {"call", "stop", "remove", "clear"}
  BY DEF ContainerInspect, Inv, Early, Unknown
<1>2. /\ PcOK /\ DataOK /\ run \in Run /\ run # 0 /\ run \in Nat /\ exit = "none"
      /\ ~signalled => pc["sig"] = "waiting" /\ ~cancelled
      /\ container # NoContainer => container.owner \in 1 .. run
  BY <1>1, Known
<1>3. /\ UNCHANGED <<run, configDir, arg, cancelled, testFailed, signalled, container, dirs>>
      /\ dockerFailed' \in BOOLEAN /\ (dockerFailed => dockerFailed')
      /\ \/ Goto("main", "health") /\ containerID' = run
         \/ End("startFailed") /\ containerID' = containerID /\ (dockerFailed' \/ signalled')
  BY <1>1, <1>2 DEF ContainerInspect, manager, host, Works, Fails, DockerFails, DockerWorks, testing, observed, DataOK
<1>4. DataOK' /\ Frame
  <2>1. DataOK'
    BY <1>2, <1>3 DEF DataOK, Goto, End
  <2>2. Frame
    BY <1>1, <1>2, <1>3 DEF Frame
  <2>3. QED
    BY <2>1, <2>2
<1>5. CASE End("startFailed") /\ containerID' = containerID /\ (dockerFailed' \/ signalled')
  <2>1. Ended'
    BY <1>1, <1>2, <1>3, <1>5, EndPc DEF Ended
  <2>2. QED
    BY <1>4, <1>5, <2>1, EndKeeps
<1>6. CASE Goto("main", "health") /\ containerID' = run
  <2>1. PcOK' /\ pc'["main"] = "health" /\ pc'["sig"] = pc["sig"] /\ exit' = exit
    BY <1>2, <1>6, LabelsType, GotoMain
  <2>2. Early' /\ OwnID'
    BY <1>1, <1>2, <1>3, <1>6, <2>1 DEF Inv, Early, OwnID, Before, Unknown
  <2>3. Gone'
    BY <1>1, <1>2, <1>3, <1>6, <2>1 DEF Inv, Early, Gone, Before, Unknown
  <2>4. Quiet'
    BY <1>1, <1>2, <1>3, <1>6, <2>1 DEF Inv, Quiet, Before, Unknown
  <2>5. QED
    BY <1>1, <1>2, <1>3, <1>4, <1>6, <2>1, <2>2, <2>3, <2>4, GoKeeps
<1>7. QED
  BY <1>3, <1>5, <1>6

(* main takes the ID from the Manager, or panics when Stop has cleared it.*)
LEMMA UsesIDKeeps ==
    ASSUME Inv, NEW label \in {"health", "healthy", "unhealthy"},
           NEW next \in {"wait", "sync", "cleanupStop"}, UsesID(label, next)
    PROVE  Inv'
<1>1. /\ pc["main"] = label /\ Running
      /\ ~signalled => containerID = run
  BY DEF UsesID, Inv, Quiet, Unknown, Before
<1>2. /\ PcOK /\ DataOK /\ run \in Run /\ run # 0 /\ run \in Nat /\ exit = "none"
      /\ ~signalled => pc["sig"] = "waiting" /\ ~cancelled
      /\ container # NoContainer => container.owner \in 1 .. run
  BY <1>1, Known
<1>3. /\ UNCHANGED <<run, containerID, configDir, cancelled, testFailed, signalled, container, dirs, dockerFailed>>
      /\ arg' \in [Goroutine -> {0, run}] /\ arg'["sig"] = arg["sig"]
      /\ \/ containerID = run /\ arg'["main"] = run /\ Goto("main", next)
         \/ containerID = 0 /\ arg' = arg /\ End("panic")
  BY <1>1, <1>2 DEF UsesID, Goroutine, manager, host, Works, Fails, DockerFails, DockerWorks, testing, observed, DataOK
<1>4. DataOK' /\ Frame
  <2>1. DataOK'
    BY <1>2, <1>3 DEF DataOK, Goto, End
  <2>2. Frame
    BY <1>1, <1>2, <1>3 DEF Frame
  <2>3. QED
    BY <2>1, <2>2
<1>5. CASE containerID = 0 /\ arg' = arg /\ End("panic")
  <2>1. Ended'
    BY <1>1, <1>2, <1>3, <1>5, EndPc DEF Ended
  <2>2. QED
    BY <1>4, <1>5, <2>1, EndKeeps
<1>6. CASE containerID = run /\ arg'["main"] = run /\ Goto("main", next)
  <2>1. PcOK' /\ pc'["main"] = next /\ pc'["sig"] = pc["sig"] /\ exit' = exit
    BY <1>2, <1>6, LabelsType, GotoMain
  <2>2. Early' /\ OwnID'
    BY <1>1, <1>2, <1>3, <1>6, <2>1 DEF Inv, Early, OwnID, Before, Unknown
  <2>3. Gone'
    BY <1>1, <1>2, <1>3, <1>6, <2>1 DEF Inv, Early, Gone, Before, Unknown
  <2>4. Quiet'
    BY <1>1, <1>2, <1>3, <1>6, <2>1 DEF Inv, Quiet, Before, Unknown
  <2>5. QED
    BY <1>1, <1>2, <1>3, <1>4, <1>6, <2>1, <2>2, <2>3, <2>4, GoKeeps
<1>7. QED
  BY <1>3, <1>5, <1>6

LEMMA WaitKeeps ==
    ASSUME Inv, WaitForHealthy
    PROVE  Inv'
<1>1. pc["main"] = "wait" /\ arg["main"] = run
  BY DEF WaitForHealthy, Inv, OwnID
<1>2. /\ PcOK /\ DataOK /\ run \in Run /\ run # 0 /\ run \in Nat /\ exit = "none"
      /\ ~signalled => pc["sig"] = "waiting" /\ ~cancelled
      /\ container # NoContainer => container.owner \in 1 .. run
  BY <1>1, Known
<1>3. /\ UNCHANGED <<run, containerID, configDir, arg, cancelled, testFailed, signalled, container, dirs>>
      /\ dockerFailed' \in BOOLEAN /\ (dockerFailed => dockerFailed')
      /\ Goto("main", "healthy") \/ Goto("main", "unhealthy")
  BY <1>1, <1>2 DEF WaitForHealthy, manager, host, Works, Fails, DockerFails, DockerWorks, testing, observed, DataOK
<1>4. DataOK' /\ Frame
  <2>1. DataOK'
    BY <1>2, <1>3 DEF DataOK, Goto, End
  <2>2. Frame
    BY <1>1, <1>2, <1>3 DEF Frame
  <2>3. QED
    BY <2>1, <2>2
<1>5. CASE Goto("main", "healthy")
  <2>1. PcOK' /\ pc'["main"] = "healthy" /\ pc'["sig"] = pc["sig"] /\ exit' = exit
    BY <1>2, <1>5, LabelsType, GotoMain
  <2>2. Early' /\ OwnID'
    BY <1>1, <1>2, <1>3, <1>5, <2>1 DEF Inv, Early, OwnID, Before, Unknown
  <2>3. Gone'
    BY <1>1, <1>2, <1>3, <1>5, <2>1 DEF Inv, Early, Gone, Before, Unknown
  <2>4. Quiet'
    BY <1>1, <1>2, <1>3, <1>5, <2>1 DEF Inv, Quiet, Before, Unknown
  <2>5. QED
    BY <1>1, <1>2, <1>3, <1>4, <1>5, <2>1, <2>2, <2>3, <2>4, GoKeeps
<1>6. CASE Goto("main", "unhealthy")
  <2>1. PcOK' /\ pc'["main"] = "unhealthy" /\ pc'["sig"] = pc["sig"] /\ exit' = exit
    BY <1>2, <1>6, LabelsType, GotoMain
  <2>2. Early' /\ OwnID'
    BY <1>1, <1>2, <1>3, <1>6, <2>1 DEF Inv, Early, OwnID, Before, Unknown
  <2>3. Gone'
    BY <1>1, <1>2, <1>3, <1>6, <2>1 DEF Inv, Early, Gone, Before, Unknown
  <2>4. Quiet'
    BY <1>1, <1>2, <1>3, <1>6, <2>1 DEF Inv, Quiet, Before, Unknown
  <2>5. QED
    BY <1>1, <1>2, <1>3, <1>4, <1>6, <2>1, <2>2, <2>3, <2>4, GoKeeps
<1>7. QED
  BY <1>3, <1>5, <1>6

LEMMA SyncKeeps ==
    ASSUME Inv, WaitForSync
    PROVE  Inv'
<1>1. pc["main"] = "sync"
  BY DEF WaitForSync
<1>2. /\ PcOK /\ DataOK /\ run \in Run /\ run # 0 /\ run \in Nat /\ exit = "none"
      /\ ~signalled => pc["sig"] = "waiting" /\ ~cancelled
      /\ container # NoContainer => container.owner \in 1 .. run
  BY <1>1, Known
<1>3. /\ UNCHANGED <<run, containerID, configDir, arg, cancelled, signalled, container, dirs, dockerFailed>>
      /\ testFailed' \in BOOLEAN
      /\ Goto("main", "stopping") \/ End("aborted")
  BY <1>1, <1>2 DEF WaitForSync, manager, host, Works, Fails, DockerFails, DockerWorks, testing, observed, DataOK
<1>4. DataOK' /\ Frame
  <2>1. DataOK'
    BY <1>2, <1>3 DEF DataOK, Goto, End
  <2>2. Frame
    BY <1>1, <1>2, <1>3 DEF Frame
  <2>3. QED
    BY <2>1, <2>2
<1>5. CASE End("aborted")
  <2>1. Ended'
    BY <1>1, <1>2, <1>3, <1>5, EndPc DEF Ended
  <2>2. QED
    BY <1>4, <1>5, <2>1, EndKeeps
<1>6. CASE Goto("main", "stopping")
  <2>1. PcOK' /\ pc'["main"] = "stopping" /\ pc'["sig"] = pc["sig"] /\ exit' = exit
    BY <1>2, <1>6, LabelsType, GotoMain
  <2>2. Early' /\ OwnID'
    BY <1>1, <1>2, <1>3, <1>6, <2>1 DEF Inv, Early, OwnID, Before, Unknown
  <2>3. Gone'
    BY <1>1, <1>2, <1>3, <1>6, <2>1 DEF Inv, Early, Gone, Before, Unknown
  <2>4. Quiet'
    BY <1>1, <1>2, <1>3, <1>6, <2>1 DEF Inv, Quiet, Before, Unknown
  <2>5. QED
    BY <1>1, <1>2, <1>3, <1>4, <1>6, <2>1, <2>2, <2>3, <2>4, GoKeeps
<1>7. QED
  BY <1>3, <1>5, <1>6

LEMMA ReturnKeeps ==
    ASSUME Inv, Return
    PROVE  Inv'
<1>1. /\ pc["main"] = "return"
      /\ ~dockerFailed /\ ~(testFailed /\ signalled) => ~Exists(run)
      /\ ~dockerFailed /\ ~signalled => dirs[run] = "none"
  BY DEF Return, Inv, Gone, Quiet
<1>2. /\ PcOK /\ DataOK /\ run \in Run /\ run # 0 /\ run \in Nat /\ exit = "none"
      /\ ~signalled => pc["sig"] = "waiting" /\ ~cancelled
      /\ container # NoContainer => container.owner \in 1 .. run
  BY <1>1, Known
<1>3. /\ UNCHANGED <<run, containerID, configDir, arg, cancelled, testFailed, signalled, container, dirs, dockerFailed>>
      /\ End(IF testFailed THEN "testFailed" ELSE "success")
  BY <1>1, <1>2 DEF Return, manager, host, Works, Fails, DockerFails, DockerWorks, testing, observed, DataOK
<1>4. DataOK' /\ Frame
  <2>1. DataOK'
    BY <1>2, <1>3 DEF DataOK, Goto, End
  <2>2. Frame
    BY <1>1, <1>2, <1>3 DEF Frame
  <2>3. QED
    BY <2>1, <2>2
<1>5. CASE End(IF testFailed THEN "testFailed" ELSE "success")
  <2>1. Ended'
    BY <1>1, <1>2, <1>3, <1>5, EndPc DEF Ended
  <2>2. QED
    BY <1>4, <1>5, <2>1, EndKeeps
<1>6. QED
  BY <1>3, <1>5

LEMMA KillKeeps ==
    ASSUME Inv, Kill
    PROVE  Inv'
<1>1. Running
  BY DEF Kill
<1>2. /\ PcOK /\ DataOK /\ run \in Run /\ run # 0 /\ run \in Nat /\ exit = "none"
      /\ ~signalled => pc["sig"] = "waiting" /\ ~cancelled
      /\ container # NoContainer => container.owner \in 1 .. run
  BY <1>1, Known
<1>3. /\ UNCHANGED <<run, containerID, configDir, arg, cancelled, testFailed, signalled, container, dirs, dockerFailed>>
      /\ End("killed")
  BY <1>1, <1>2 DEF Kill, manager, host, Works, Fails, DockerFails, DockerWorks, testing, observed, DataOK
<1>4. DataOK' /\ Frame
  <2>1. DataOK'
    BY <1>2, <1>3 DEF DataOK, Goto, End
  <2>2. Frame
    BY <1>1, <1>2, <1>3 DEF Frame
  <2>3. QED
    BY <2>1, <2>2
<1>5. CASE End("killed")
  <2>1. Ended'
    BY <1>1, <1>2, <1>3, <1>5, EndPc DEF Ended
  <2>2. QED
    BY <1>4, <1>5, <2>1, EndKeeps
<1>6. QED
  BY <1>3, <1>5

LEMMA SignalKeeps ==
    ASSUME Inv, Signal
    PROVE  Inv'
<1>1. pc["sig"] = "waiting" /\ Running
  BY DEF Signal, Inv, OneProcess
<1>2. /\ PcOK /\ DataOK /\ run \in Run /\ run # 0 /\ run \in Nat /\ exit = "none"
      /\ ~signalled => pc["sig"] = "waiting" /\ ~cancelled
      /\ container # NoContainer => container.owner \in 1 .. run
  BY <1>1, Known
<1>3. /\ UNCHANGED <<run, containerID, configDir, arg, cancelled, testFailed, container, dirs, dockerFailed>>
      /\ signalled' = TRUE
      /\ Goto("sig", "stopping")
  BY <1>1, <1>2 DEF Signal, manager, host, Works, Fails, DockerFails, DockerWorks, testing, observed, DataOK
<1>4. DataOK' /\ Frame
  <2>1. DataOK'
    BY <1>2, <1>3 DEF DataOK, Goto, End
  <2>2. Frame
    BY <1>1, <1>2, <1>3 DEF Frame
  <2>3. QED
    BY <2>1, <2>2
<1>5. CASE Goto("sig", "stopping")
  <2>1. PcOK' /\ pc'["sig"] = "stopping" /\ pc'["main"] = pc["main"] /\ exit' = exit
    BY <1>2, <1>5, LabelsType, GotoSig
  <2>2. Early' /\ OwnID'
    BY <1>1, <1>2, <1>3, <1>5, <2>1 DEF Inv, Early, OwnID, Before, Unknown
  <2>3. Gone'
    BY <1>1, <1>2, <1>3, <1>5, <2>1 DEF Inv, Early, Gone, Before, Unknown
  <2>4. Quiet'
    BY <1>1, <1>2, <1>3, <1>5, <2>1 DEF Inv, Quiet, Before, Unknown
  <2>5. QED
    BY <1>1, <1>2, <1>3, <1>4, <1>5, <2>1, <2>2, <2>3, <2>4, GoKeeps
<1>6. QED
  BY <1>3, <1>5

LEMMA SignalCancelKeeps ==
    ASSUME Inv, SignalCancel
    PROVE  Inv'
<1>1. pc["sig"] = "cancel" /\ Running /\ signalled
  BY DEF SignalCancel, Inv, OneProcess
<1>2. /\ PcOK /\ DataOK /\ run \in Run /\ run # 0 /\ run \in Nat /\ exit = "none"
      /\ ~signalled => pc["sig"] = "waiting" /\ ~cancelled
      /\ container # NoContainer => container.owner \in 1 .. run
  BY <1>1, Known
<1>3. /\ UNCHANGED <<run, containerID, configDir, arg, testFailed, signalled, container, dirs, dockerFailed>>
      /\ cancelled' = TRUE
      /\ Goto("sig", "done")
  BY <1>1, <1>2 DEF SignalCancel, manager, host, Works, Fails, DockerFails, DockerWorks, testing, observed, DataOK
<1>4. DataOK' /\ Frame
  <2>1. DataOK'
    BY <1>2, <1>3 DEF DataOK, Goto, End
  <2>2. Frame
    BY <1>1, <1>2, <1>3 DEF Frame
  <2>3. QED
    BY <2>1, <2>2
<1>5. CASE Goto("sig", "done")
  <2>1. PcOK' /\ pc'["sig"] = "done" /\ pc'["main"] = pc["main"] /\ exit' = exit
    BY <1>2, <1>5, LabelsType, GotoSig
  <2>2. Early' /\ OwnID'
    BY <1>1, <1>2, <1>3, <1>5, <2>1 DEF Inv, Early, OwnID, Before, Unknown
  <2>3. Gone'
    BY <1>1, <1>2, <1>3, <1>5, <2>1 DEF Inv, Early, Gone, Before, Unknown
  <2>4. Quiet'
    BY <1>1, <1>2, <1>3, <1>5, <2>1 DEF Inv, Quiet, Before, Unknown
  <2>5. QED
    BY <1>1, <1>2, <1>3, <1>4, <1>5, <2>1, <2>2, <2>3, <2>4, GoKeeps
<1>6. QED
  BY <1>3, <1>5

-----------------------------------------------------------------------------
(* The two calls of StopContainer, wherever they are made from.            *)

LEMMA StoppedContainer ==
    ASSUME DataOK, NEW id, Exists(id), container' = [container EXCEPT !.state = "exited"]
    PROVE  /\ container' \in Container /\ container' # NoContainer
           /\ container'.owner = container.owner
<1>1. container \in Container
  BY DEF DataOK
<1>2. container' \in Container /\ container'.owner = container.owner
  BY <1>1 DEF Container
<1>3. QED
  BY <1>2, NoContainerAssumption

LEMMA ContainerStopEffect ==
    ASSUME DataOK, NEW g, NEW label, NEW done \in BOOLEAN, NEW ACTION next, NEW ACTION failed,
           ContainerStop(g, label, done, next, failed), arg[g] = run
    PROVE  /\ UNCHANGED <<run, containerID, configDir, arg, cancelled, testFailed, signalled, dirs>>
           /\ dockerFailed' \in BOOLEAN /\ (dockerFailed => dockerFailed')
           /\ container' \in Container \cup {NoContainer}
           /\ container' # NoContainer =>
                 container # NoContainer /\ container'.owner = container.owner
           /\ container' = NoContainer => container = NoContainer
           /\ next \/ (failed /\ (~Exists(run) \/ dockerFailed' \/ done))
<1>1. /\ UNCHANGED <<run, containerID, configDir, arg, cancelled, testFailed, signalled, dirs>>
      /\ dockerFailed' \in BOOLEAN /\ (dockerFailed => dockerFailed')
      /\ container' = container \/ (Exists(run) /\ container' = [container EXCEPT !.state = "exited"])
      /\ next \/ (failed /\ (~Exists(run) \/ dockerFailed' \/ done))
  BY DEF ContainerStop, manager, testing, Works, Fails, DockerFails, DockerWorks, observed, DataOK
<1>2. CASE container' = container
  BY <1>1, <1>2 DEF DataOK
<1>3. CASE Exists(run) /\ container' = [container EXCEPT !.state = "exited"]
  BY <1>1, <1>3, StoppedContainer
<1>4. QED
  BY <1>1, <1>2, <1>3

LEMMA ContainerRemoveEffect ==
    ASSUME DataOK, NEW g, NEW label, NEW done \in BOOLEAN, NEW ACTION removed, NEW ACTION failed,
           ContainerRemove(g, label, done, removed, failed), arg[g] = run
    PROVE  /\ UNCHANGED <<run, containerID, configDir, arg, cancelled, testFailed, signalled, dirs>>
           /\ dockerFailed' \in BOOLEAN /\ (dockerFailed => dockerFailed')
           /\ container' \in {container, NoContainer}
           /\ \/ removed /\ container' = NoContainer
              \/ failed /\ (~Exists(run) \/ dockerFailed' \/ done)
BY DEF ContainerRemove, manager, testing, Works, Fails, DockerFails, DockerWorks, observed, DataOK

LEMMA CleanUpStopKeeps ==
    ASSUME Inv, ContainerStop("main", "cleanupStop", cancelled,
                              Goto("main", "cleanupRemove"), End("startFailed"))
    PROVE  Inv'
<1>1. /\ pc["main"] = "cleanupStop" /\ arg["main"] = run
      /\ cancelled \in BOOLEAN /\ (cancelled => signalled)
  BY TypeParts DEF ContainerStop, Inv, OwnID, OneProcess, DataOK
<1>2. /\ PcOK /\ DataOK /\ run \in Run /\ run # 0 /\ run \in Nat /\ exit = "none"
      /\ ~signalled => pc["sig"] = "waiting" /\ ~cancelled
      /\ container # NoContainer => container.owner \in 1 .. run
  BY <1>1, Known
<1>3. /\ UNCHANGED <<run, containerID, configDir, arg, cancelled, testFailed, signalled, dirs>>
      /\ dockerFailed' \in BOOLEAN /\ (dockerFailed => dockerFailed')
      /\ container' \in Container \cup {NoContainer}
      /\ container' # NoContainer =>
            container # NoContainer /\ container'.owner = container.owner
      /\ container' = NoContainer => container = NoContainer
      /\ Goto("main", "cleanupRemove") \/ (End("startFailed") /\ (~Exists(run) \/ dockerFailed' \/ cancelled))
  BY <1>1, <1>2, ContainerStopEffect
<1>4. DataOK' /\ Frame
  <2>1. DataOK'
    BY <1>2, <1>3 DEF DataOK, Goto, End
  <2>2. Frame
    BY <1>1, <1>2, <1>3 DEF Frame
  <2>3. QED
    BY <2>1, <2>2
<1>5. CASE (End("startFailed") /\ (~Exists(run) \/ dockerFailed' \/ cancelled))
  <2>1. Ended'
    BY <1>1, <1>2, <1>3, <1>5, EndPc DEF Ended
  <2>2. QED
    BY <1>4, <1>5, <2>1, EndKeeps
<1>6. CASE Goto("main", "cleanupRemove")
  <2>1. PcOK' /\ pc'["main"] = "cleanupRemove" /\ pc'["sig"] = pc["sig"] /\ exit' = exit
    BY <1>2, <1>6, LabelsType, GotoMain
  <2>2. Early' /\ OwnID'
    BY <1>1, <1>2, <1>3, <1>6, <2>1 DEF Inv, Early, OwnID, Before, Unknown
  <2>3. Gone'
    BY <1>1, <1>2, <1>3, <1>6, <2>1 DEF Inv, Early, Gone, Before, Unknown
  <2>4. Quiet'
    BY <1>1, <1>2, <1>3, <1>6, <2>1 DEF Inv, Quiet, Before, Unknown
  <2>5. QED
    BY <1>1, <1>2, <1>3, <1>4, <1>6, <2>1, <2>2, <2>3, <2>4, GoKeeps
<1>7. QED
  BY <1>3, <1>5, <1>6

LEMMA CleanUpRemoveKeeps ==
    ASSUME Inv, ContainerRemove("main", "cleanupRemove", cancelled,
                                End("startFailed"), End("startFailed"))
    PROVE  Inv'
<1>1. /\ pc["main"] = "cleanupRemove" /\ arg["main"] = run
      /\ cancelled \in BOOLEAN /\ (cancelled => signalled)
  BY TypeParts DEF ContainerRemove, Inv, OwnID, OneProcess, DataOK
<1>2. /\ PcOK /\ DataOK /\ run \in Run /\ run # 0 /\ run \in Nat /\ exit = "none"
      /\ ~signalled => pc["sig"] = "waiting" /\ ~cancelled
      /\ container # NoContainer => container.owner \in 1 .. run
  BY <1>1, Known
<1>3. /\ UNCHANGED <<run, containerID, configDir, arg, cancelled, testFailed, signalled, dirs>>
      /\ dockerFailed' \in BOOLEAN /\ (dockerFailed => dockerFailed')
      /\ container' \in {container, NoContainer}
      /\ \/ (End("startFailed") /\ container' = NoContainer)
         \/ (End("startFailed") /\ (~Exists(run) \/ dockerFailed' \/ cancelled))
  BY <1>1, <1>2, ContainerRemoveEffect
<1>4. DataOK' /\ Frame
  <2>1. DataOK'
    BY <1>2, <1>3 DEF DataOK, Goto, End
  <2>2. Frame
    BY <1>1, <1>2, <1>3 DEF Frame
  <2>3. QED
    BY <2>1, <2>2
<1>5. CASE (End("startFailed") /\ container' = NoContainer)
  <2>1. Ended'
    BY <1>1, <1>2, <1>3, <1>5, EndPc DEF Ended
  <2>2. QED
    BY <1>4, <1>5, <2>1, EndKeeps
<1>6. CASE (End("startFailed") /\ (~Exists(run) \/ dockerFailed' \/ cancelled))
  <2>1. Ended'
    BY <1>1, <1>2, <1>3, <1>6, EndPc DEF Ended
  <2>2. QED
    BY <1>4, <1>6, <2>1, EndKeeps
<1>7. QED
  BY <1>3, <1>5, <1>6

-----------------------------------------------------------------------------
(* Stop, called by main and by the handler of signals.                     *)

LEMMA StopBeginsMainKeeps ==
    ASSUME Inv, StopBegins("main")
    PROVE  Inv'
<1>1. pc["main"] = "stopping"
  BY DEF StopBegins, Inv
<1>2. /\ PcOK /\ DataOK /\ run \in Run /\ run # 0 /\ run \in Nat /\ exit = "none"
      /\ ~signalled => pc["sig"] = "waiting" /\ ~cancelled
      /\ container # NoContainer => container.owner \in 1 .. run
  BY <1>1, Known
<1>3. /\ UNCHANGED <<run, containerID, configDir, arg, cancelled, testFailed, signalled, container, dirs, dockerFailed>>
      /\ \/ containerID # 0 /\ Goto("main", "call")
         \/ containerID = 0 /\ Goto("main", "dir")
  BY <1>1, <1>2 DEF StopBegins, manager, host, Works, Fails, DockerFails, DockerWorks, testing, observed, DataOK
<1>4. DataOK' /\ Frame
  <2>1. DataOK'
    BY <1>2, <1>3 DEF DataOK, Goto, End
  <2>2. Frame
    BY <1>1, <1>2, <1>3 DEF Frame
  <2>3. QED
    BY <2>1, <2>2
<1>5. CASE containerID # 0 /\ Goto("main", "call")
  <2>1. PcOK' /\ pc'["main"] = "call" /\ pc'["sig"] = pc["sig"] /\ exit' = exit
    BY <1>2, <1>5, LabelsType, GotoMain
  <2>2. Early' /\ OwnID'
    BY <1>1, <1>2, <1>3, <1>5, <2>1 DEF Inv, Early, OwnID, Before, Unknown
  <2>3. Gone'
    BY <1>1, <1>2, <1>3, <1>5, <2>1 DEF Inv, Early, Gone, Before, Unknown
  <2>4. Quiet'
    BY <1>1, <1>2, <1>3, <1>5, <2>1 DEF Inv, Quiet, Before, Unknown
  <2>5. QED
    BY <1>1, <1>2, <1>3, <1>4, <1>5, <2>1, <2>2, <2>3, <2>4, GoKeeps
<1>6. CASE containerID = 0 /\ Goto("main", "dir")
  <2>1. PcOK' /\ pc'["main"] = "dir" /\ pc'["sig"] = pc["sig"] /\ exit' = exit
    BY <1>2, <1>6, LabelsType, GotoMain
  <2>2. Early' /\ OwnID'
    BY <1>1, <1>2, <1>3, <1>6, <2>1 DEF Inv, Early, OwnID, Before, Unknown
  <2>3. Gone'
    BY <1>1, <1>2, <1>3, <1>6, <2>1 DEF Inv, Early, Gone, Before, Unknown
  <2>4. Quiet'
    BY <1>1, <1>2, <1>3, <1>6, <2>1 DEF Inv, Quiet, Before, Unknown
  <2>5. QED
    BY <1>1, <1>2, <1>3, <1>4, <1>6, <2>1, <2>2, <2>3, <2>4, GoKeeps
<1>7. QED
  BY <1>3, <1>5, <1>6

LEMMA StopCallsMainKeeps ==
    ASSUME Inv, StopCalls("main")
    PROVE  Inv'
<1>1. /\ pc["main"] = "call"
      /\ ~signalled => containerID = run
  BY DEF StopCalls, Inv, Running, Quiet, Unknown, Before
<1>2. /\ PcOK /\ DataOK /\ run \in Run /\ run # 0 /\ run \in Nat /\ exit = "none"
      /\ ~signalled => pc["sig"] = "waiting" /\ ~cancelled
      /\ container # NoContainer => container.owner \in 1 .. run
  BY <1>1, Known
<1>3. /\ UNCHANGED <<run, containerID, configDir, cancelled, testFailed, signalled, container, dirs, dockerFailed>>
      /\ arg' \in [Goroutine -> {0, run}] /\ arg'["sig"] = arg["sig"]
      /\ \/ containerID = run /\ arg'["main"] = run /\ Goto("main", "stop")
         \/ containerID = 0 /\ arg' = arg /\ End("panic")
  BY <1>1, <1>2 DEF StopCalls, Goroutine, manager, host, Works, Fails, DockerFails, DockerWorks, testing, observed, DataOK
<1>4. DataOK' /\ Frame
  <2>1. DataOK'
    BY <1>2, <1>3 DEF DataOK, Goto, End
  <2>2. Frame
    BY <1>1, <1>2, <1>3 DEF Frame
  <2>3. QED
    BY <2>1, <2>2
<1>5. CASE containerID = 0 /\ arg' = arg /\ End("panic")
  <2>1. Ended'
    BY <1>1, <1>2, <1>3, <1>5, EndPc DEF Ended
  <2>2. QED
    BY <1>4, <1>5, <2>1, EndKeeps
<1>6. CASE containerID = run /\ arg'["main"] = run /\ Goto("main", "stop")
  <2>1. PcOK' /\ pc'["main"] = "stop" /\ pc'["sig"] = pc["sig"] /\ exit' = exit
    BY <1>2, <1>6, LabelsType, GotoMain
  <2>2. Early' /\ OwnID'
    BY <1>1, <1>2, <1>3, <1>6, <2>1 DEF Inv, Early, OwnID, Before, Unknown
  <2>3. Gone'
    BY <1>1, <1>2, <1>3, <1>6, <2>1 DEF Inv, Early, Gone, Before, Unknown
  <2>4. Quiet'
    BY <1>1, <1>2, <1>3, <1>6, <2>1 DEF Inv, Quiet, Before, Unknown
  <2>5. QED
    BY <1>1, <1>2, <1>3, <1>4, <1>6, <2>1, <2>2, <2>3, <2>4, GoKeeps
<1>7. QED
  BY <1>3, <1>5, <1>6

LEMMA StopStopsMainKeeps ==
    ASSUME Inv, ContainerStop("main", "stop", StopDone("main"), Goto("main", "remove"),
                              Goto("main", AfterStop("main")))
    PROVE  Inv'
<1>1. /\ pc["main"] = "stop" /\ arg["main"] = run
      /\ ~signalled => Exists(run)
  BY DEF ContainerStop, Inv, OwnID, Quiet, Before, Unknown
<1>2. /\ PcOK /\ DataOK /\ run \in Run /\ run # 0 /\ run \in Nat /\ exit = "none"
      /\ ~signalled => pc["sig"] = "waiting" /\ ~cancelled
      /\ container # NoContainer => container.owner \in 1 .. run
  BY <1>1, Known
<1>3. /\ UNCHANGED <<run, containerID, configDir, arg, cancelled, testFailed, signalled, dirs>>
      /\ dockerFailed' \in BOOLEAN /\ (dockerFailed => dockerFailed')
      /\ container' \in Container \cup {NoContainer}
      /\ container' # NoContainer =>
            container # NoContainer /\ container'.owner = container.owner
      /\ container' = NoContainer => container = NoContainer
      /\ Goto("main", "remove") \/ (Goto("main", "return") /\ (~Exists(run) \/ dockerFailed' \/ (testFailed /\ signalled)))
  <2>1. /\ AfterStop("main") = "return" /\ StopDone("main") \in BOOLEAN
        /\ StopDone("main") => testFailed /\ signalled
    BY <1>2 DEF AfterStop, StopDone
  <2>2. arg["main"] = run /\ DataOK
    BY <1>1, <1>2
  <2>3. QED
    BY <2>1, <2>2, ContainerStopEffect
<1>4. DataOK' /\ Frame
  <2>1. DataOK'
    BY <1>2, <1>3 DEF DataOK, Goto, End
  <2>2. Frame
    BY <1>1, <1>2, <1>3 DEF Frame
  <2>3. QED
    BY <2>1, <2>2
<1>5. CASE Goto("main", "remove")
  <2>1. PcOK' /\ pc'["main"] = "remove" /\ pc'["sig"] = pc["sig"] /\ exit' = exit
    BY <1>2, <1>5, LabelsType, GotoMain
  <2>2. Early' /\ OwnID'
    BY <1>1, <1>2, <1>3, <1>5, <2>1 DEF Inv, Early, OwnID, Before, Unknown
  <2>3. Gone'
    BY <1>1, <1>2, <1>3, <1>5, <2>1 DEF Inv, Early, Gone, Before, Unknown
  <2>4. Quiet'
    BY <1>1, <1>2, <1>3, <1>5, <2>1 DEF Inv, Quiet, Before, Unknown
  <2>5. QED
    BY <1>1, <1>2, <1>3, <1>4, <1>5, <2>1, <2>2, <2>3, <2>4, GoKeeps
<1>6. CASE (Goto("main", "return") /\ (~Exists(run) \/ dockerFailed' \/ (testFailed /\ signalled)))
  <2>1. PcOK' /\ pc'["main"] = "return" /\ pc'["sig"] = pc["sig"] /\ exit' = exit
    BY <1>2, <1>6, LabelsType, GotoMain
  <2>2. Early' /\ OwnID'
    BY <1>1, <1>2, <1>3, <1>6, <2>1 DEF Inv, Early, OwnID, Before, Unknown
  <2>3. Gone'
    BY <1>1, <1>2, <1>3, <1>6, <2>1 DEF Inv, Early, Gone, Before, Unknown
  <2>4. Quiet'
    BY <1>1, <1>2, <1>3, <1>6, <2>1 DEF Inv, Quiet, Before, Unknown
  <2>5. QED
    BY <1>1, <1>2, <1>3, <1>4, <1>6, <2>1, <2>2, <2>3, <2>4, GoKeeps
<1>7. QED
  BY <1>3, <1>5, <1>6

LEMMA StopRemovesMainKeeps ==
    ASSUME Inv, ContainerRemove("main", "remove", StopDone("main"), Goto("main", "clear"),
                                Goto("main", AfterStop("main")))
    PROVE  Inv'
<1>1. /\ pc["main"] = "remove" /\ arg["main"] = run
      /\ ~signalled => Exists(run)
  BY DEF ContainerRemove, Inv, OwnID, Quiet, Before, Unknown
<1>2. /\ PcOK /\ DataOK /\ run \in Run /\ run # 0 /\ run \in Nat /\ exit = "none"
      /\ ~signalled => pc["sig"] = "waiting" /\ ~cancelled
      /\ container # NoContainer => container.owner \in 1 .. run
  BY <1>1, Known
<1>3. /\ UNCHANGED <<run, containerID, configDir, arg, cancelled, testFailed, signalled, dirs>>
      /\ dockerFailed' \in BOOLEAN /\ (dockerFailed => dockerFailed')
      /\ container' \in {container, NoContainer}
      /\ \/ (Goto("main", "clear") /\ container' = NoContainer)
         \/ (Goto("main", "return") /\ (~Exists(run) \/ dockerFailed' \/ (testFailed /\ signalled)))
  <2>1. /\ AfterStop("main") = "return" /\ StopDone("main") \in BOOLEAN
        /\ StopDone("main") => testFailed /\ signalled
    BY <1>2 DEF AfterStop, StopDone
  <2>2. arg["main"] = run /\ DataOK
    BY <1>1, <1>2
  <2>3. QED
    BY <2>1, <2>2, ContainerRemoveEffect
<1>4. DataOK' /\ Frame
  <2>1. DataOK'
    BY <1>2, <1>3 DEF DataOK, Goto, End
  <2>2. Frame
    BY <1>1, <1>2, <1>3 DEF Frame
  <2>3. QED
    BY <2>1, <2>2
<1>5. CASE (Goto("main", "clear") /\ container' = NoContainer)
  <2>1. PcOK' /\ pc'["main"] = "clear" /\ pc'["sig"] = pc["sig"] /\ exit' = exit
    BY <1>2, <1>5, LabelsType, GotoMain
  <2>2. Early' /\ OwnID'
    BY <1>1, <1>2, <1>3, <1>5, <2>1 DEF Inv, Early, OwnID, Before, Unknown
  <2>3. Gone'
    BY <1>1, <1>2, <1>3, <1>5, <2>1 DEF Inv, Early, Gone, Before, Unknown
  <2>4. Quiet'
    BY <1>1, <1>2, <1>3, <1>5, <2>1 DEF Inv, Quiet, Before, Unknown
  <2>5. QED
    BY <1>1, <1>2, <1>3, <1>4, <1>5, <2>1, <2>2, <2>3, <2>4, GoKeeps
<1>6. CASE (Goto("main", "return") /\ (~Exists(run) \/ dockerFailed' \/ (testFailed /\ signalled)))
  <2>1. PcOK' /\ pc'["main"] = "return" /\ pc'["sig"] = pc["sig"] /\ exit' = exit
    BY <1>2, <1>6, LabelsType, GotoMain
  <2>2. Early' /\ OwnID'
    BY <1>1, <1>2, <1>3, <1>6, <2>1 DEF Inv, Early, OwnID, Before, Unknown
  <2>3. Gone'
    BY <1>1, <1>2, <1>3, <1>6, <2>1 DEF Inv, Early, Gone, Before, Unknown
  <2>4. Quiet'
    BY <1>1, <1>2, <1>3, <1>6, <2>1 DEF Inv, Quiet, Before, Unknown
  <2>5. QED
    BY <1>1, <1>2, <1>3, <1>4, <1>6, <2>1, <2>2, <2>3, <2>4, GoKeeps
<1>7. QED
  BY <1>3, <1>5, <1>6

LEMMA StopClearsMainKeeps ==
    ASSUME Inv, StopClears("main")
    PROVE  Inv'
<1>1. pc["main"] = "clear"
  BY DEF StopClears, Inv
<1>2. /\ PcOK /\ DataOK /\ run \in Run /\ run # 0 /\ run \in Nat /\ exit = "none"
      /\ ~signalled => pc["sig"] = "waiting" /\ ~cancelled
      /\ container # NoContainer => container.owner \in 1 .. run
  BY <1>1, Known
<1>3. /\ UNCHANGED <<run, configDir, arg, cancelled, testFailed, signalled, container, dirs, dockerFailed>>
      /\ containerID' = 0
      /\ Goto("main", "dir")
  BY <1>1, <1>2 DEF StopClears, manager, host, Works, Fails, DockerFails, DockerWorks, testing, observed, DataOK
<1>4. DataOK' /\ Frame
  <2>1. DataOK'
    BY <1>2, <1>3 DEF DataOK, Goto, End
  <2>2. Frame
    BY <1>1, <1>2, <1>3 DEF Frame
  <2>3. QED
    BY <2>1, <2>2
<1>5. CASE Goto("main", "dir")
  <2>1. PcOK' /\ pc'["main"] = "dir" /\ pc'["sig"] = pc["sig"] /\ exit' = exit
    BY <1>2, <1>5, LabelsType, GotoMain
  <2>2. Early' /\ OwnID'
    BY <1>1, <1>2, <1>3, <1>5, <2>1 DEF Inv, Early, OwnID, Before, Unknown
  <2>3. Gone'
    BY <1>1, <1>2, <1>3, <1>5, <2>1 DEF Inv, Early, Gone, Before, Unknown
  <2>4. Quiet'
    BY <1>1, <1>2, <1>3, <1>5, <2>1 DEF Inv, Quiet, Before, Unknown
  <2>5. QED
    BY <1>1, <1>2, <1>3, <1>4, <1>5, <2>1, <2>2, <2>3, <2>4, GoKeeps
<1>6. QED
  BY <1>3, <1>5

LEMMA RemoveConfigDirMainKeeps ==
    ASSUME Inv, RemoveConfigDir("main")
    PROVE  Inv'
<1>1. pc["main"] = "dir"
  BY DEF RemoveConfigDir, Inv
<1>2. /\ PcOK /\ DataOK /\ run \in Run /\ run # 0 /\ run \in Nat /\ exit = "none"
      /\ ~signalled => pc["sig"] = "waiting" /\ ~cancelled
      /\ container # NoContainer => container.owner \in 1 .. run
  BY <1>1, Known
<1>3. /\ UNCHANGED <<run, containerID, arg, cancelled, testFailed, signalled, container, dockerFailed>>
      /\ configDir' = 0
      /\ dirs' \in [Run -> {"none", "empty", "config"}]
      /\ configDir = run => dirs'[run] = "none"
      /\ Goto("main", "return")
  BY <1>1, <1>2 DEF RemoveConfigDir, AfterStop, manager, host, Works, Fails, DockerFails, DockerWorks, testing, observed, DataOK
<1>4. DataOK' /\ Frame
  <2>1. DataOK'
    BY <1>2, <1>3 DEF DataOK, Goto, End
  <2>2. Frame
    BY <1>1, <1>2, <1>3 DEF Frame
  <2>3. QED
    BY <2>1, <2>2
<1>5. CASE Goto("main", "return")
  <2>1. PcOK' /\ pc'["main"] = "return" /\ pc'["sig"] = pc["sig"] /\ exit' = exit
    BY <1>2, <1>5, LabelsType, GotoMain
  <2>2. Early' /\ OwnID'
    BY <1>1, <1>2, <1>3, <1>5, <2>1 DEF Inv, Early, OwnID, Before, Unknown
  <2>3. Gone'
    BY <1>1, <1>2, <1>3, <1>5, <2>1 DEF Inv, Early, Gone, Before, Unknown
  <2>4. Quiet'
    BY <1>1, <1>2, <1>3, <1>5, <2>1 DEF Inv, Quiet, Before, Unknown
  <2>5. QED
    BY <1>1, <1>2, <1>3, <1>4, <1>5, <2>1, <2>2, <2>3, <2>4, GoKeeps
<1>6. QED
  BY <1>3, <1>5

LEMMA StopBeginsSigKeeps ==
    ASSUME Inv, StopBegins("sig")
    PROVE  Inv'
<1>1. pc["sig"] = "stopping" /\ Running /\ signalled
  BY DEF StopBegins, Inv, OneProcess
<1>2. /\ PcOK /\ DataOK /\ run \in Run /\ run # 0 /\ run \in Nat /\ exit = "none"
      /\ ~signalled => pc["sig"] = "waiting" /\ ~cancelled
      /\ container # NoContainer => container.owner \in 1 .. run
  BY <1>1, Known
<1>3. /\ UNCHANGED <<run, containerID, configDir, arg, cancelled, testFailed, signalled, container, dirs, dockerFailed>>
      /\ \/ containerID # 0 /\ Goto("sig", "call")
         \/ containerID = 0 /\ Goto("sig", "dir")
  BY <1>1, <1>2 DEF StopBegins, manager, host, Works, Fails, DockerFails, DockerWorks, testing, observed, DataOK
<1>4. DataOK' /\ Frame
  <2>1. DataOK'
    BY <1>2, <1>3 DEF DataOK, Goto, End
  <2>2. Frame
    BY <1>1, <1>2, <1>3 DEF Frame
  <2>3. QED
    BY <2>1, <2>2
<1>5. CASE containerID # 0 /\ Goto("sig", "call")
  <2>1. PcOK' /\ pc'["sig"] = "call" /\ pc'["main"] = pc["main"] /\ exit' = exit
    BY <1>2, <1>5, LabelsType, GotoSig
  <2>2. Early' /\ OwnID'
    BY <1>1, <1>2, <1>3, <1>5, <2>1 DEF Inv, Early, OwnID, Before, Unknown
  <2>3. Gone'
    BY <1>1, <1>2, <1>3, <1>5, <2>1 DEF Inv, Early, Gone, Before, Unknown
  <2>4. Quiet'
    BY <1>1, <1>2, <1>3, <1>5, <2>1 DEF Inv, Quiet, Before, Unknown
  <2>5. QED
    BY <1>1, <1>2, <1>3, <1>4, <1>5, <2>1, <2>2, <2>3, <2>4, GoKeeps
<1>6. CASE containerID = 0 /\ Goto("sig", "dir")
  <2>1. PcOK' /\ pc'["sig"] = "dir" /\ pc'["main"] = pc["main"] /\ exit' = exit
    BY <1>2, <1>6, LabelsType, GotoSig
  <2>2. Early' /\ OwnID'
    BY <1>1, <1>2, <1>3, <1>6, <2>1 DEF Inv, Early, OwnID, Before, Unknown
  <2>3. Gone'
    BY <1>1, <1>2, <1>3, <1>6, <2>1 DEF Inv, Early, Gone, Before, Unknown
  <2>4. Quiet'
    BY <1>1, <1>2, <1>3, <1>6, <2>1 DEF Inv, Quiet, Before, Unknown
  <2>5. QED
    BY <1>1, <1>2, <1>3, <1>4, <1>6, <2>1, <2>2, <2>3, <2>4, GoKeeps
<1>7. QED
  BY <1>3, <1>5, <1>6

LEMMA StopCallsSigKeeps ==
    ASSUME Inv, StopCalls("sig")
    PROVE  Inv'
<1>1. pc["sig"] = "call" /\ Running /\ signalled
  BY DEF StopCalls, Inv, OneProcess
<1>2. /\ PcOK /\ DataOK /\ run \in Run /\ run # 0 /\ run \in Nat /\ exit = "none"
      /\ ~signalled => pc["sig"] = "waiting" /\ ~cancelled
      /\ container # NoContainer => container.owner \in 1 .. run
  BY <1>1, Known
<1>3. /\ UNCHANGED <<run, containerID, configDir, cancelled, testFailed, signalled, container, dirs, dockerFailed>>
      /\ arg' \in [Goroutine -> {0, run}] /\ arg'["main"] = arg["main"]
      /\ \/ containerID = run /\ arg'["sig"] = run /\ Goto("sig", "stop")
         \/ containerID = 0 /\ arg' = arg /\ End("panic")
  BY <1>1, <1>2 DEF StopCalls, Goroutine, manager, host, Works, Fails, DockerFails, DockerWorks, testing, observed, DataOK
<1>4. DataOK' /\ Frame
  <2>1. DataOK'
    BY <1>2, <1>3 DEF DataOK, Goto, End
  <2>2. Frame
    BY <1>1, <1>2, <1>3 DEF Frame
  <2>3. QED
    BY <2>1, <2>2
<1>5. CASE containerID = 0 /\ arg' = arg /\ End("panic")
  <2>1. Ended'
    BY <1>1, <1>2, <1>3, <1>5, EndPc DEF Ended
  <2>2. QED
    BY <1>4, <1>5, <2>1, EndKeeps
<1>6. CASE containerID = run /\ arg'["sig"] = run /\ Goto("sig", "stop")
  <2>1. PcOK' /\ pc'["sig"] = "stop" /\ pc'["main"] = pc["main"] /\ exit' = exit
    BY <1>2, <1>6, LabelsType, GotoSig
  <2>2. Early' /\ OwnID'
    BY <1>1, <1>2, <1>3, <1>6, <2>1 DEF Inv, Early, OwnID, Before, Unknown
  <2>3. Gone'
    BY <1>1, <1>2, <1>3, <1>6, <2>1 DEF Inv, Early, Gone, Before, Unknown
  <2>4. Quiet'
    BY <1>1, <1>2, <1>3, <1>6, <2>1 DEF Inv, Quiet, Before, Unknown
  <2>5. QED
    BY <1>1, <1>2, <1>3, <1>4, <1>6, <2>1, <2>2, <2>3, <2>4, GoKeeps
<1>7. QED
  BY <1>3, <1>5, <1>6

LEMMA StopStopsSigKeeps ==
    ASSUME Inv, ContainerStop("sig", "stop", StopDone("sig"), Goto("sig", "remove"),
                              Goto("sig", AfterStop("sig")))
    PROVE  Inv'
<1>1. /\ pc["sig"] = "stop" /\ arg["sig"] = run /\ Running /\ signalled
  BY DEF ContainerStop, Inv, OwnID, OneProcess
<1>2. /\ PcOK /\ DataOK /\ run \in Run /\ run # 0 /\ run \in Nat /\ exit = "none"
      /\ ~signalled => pc["sig"] = "waiting" /\ ~cancelled
      /\ container # NoContainer => container.owner \in 1 .. run
  BY <1>1, Known
<1>3. /\ UNCHANGED <<run, containerID, configDir, arg, cancelled, testFailed, signalled, dirs>>
      /\ dockerFailed' \in BOOLEAN /\ (dockerFailed => dockerFailed')
      /\ container' \in Container \cup {NoContainer}
      /\ container' # NoContainer =>
            container # NoContainer /\ container'.owner = container.owner
      /\ container' = NoContainer => container = NoContainer
      /\ Goto("sig", "remove") \/ (Goto("sig", "cancel") /\ (~Exists(run) \/ dockerFailed'))
  <2>1. AfterStop("sig") = "cancel" /\ StopDone("sig") \in BOOLEAN /\ ~StopDone("sig")
    BY DEF AfterStop, StopDone
  <2>2. arg["sig"] = run /\ DataOK
    BY <1>1, <1>2
  <2>3. QED
    BY <2>1, <2>2, ContainerStopEffect
<1>4. DataOK' /\ Frame
  <2>1. DataOK'
    BY <1>2, <1>3 DEF DataOK, Goto, End
  <2>2. Frame
    BY <1>1, <1>2, <1>3 DEF Frame
  <2>3. QED
    BY <2>1, <2>2
<1>5. CASE Goto("sig", "remove")
  <2>1. PcOK' /\ pc'["sig"] = "remove" /\ pc'["main"] = pc["main"] /\ exit' = exit
    BY <1>2, <1>5, LabelsType, GotoSig
  <2>2. Early' /\ OwnID'
    BY <1>1, <1>2, <1>3, <1>5, <2>1 DEF Inv, Early, OwnID, Before, Unknown
  <2>3. Gone'
    BY <1>1, <1>2, <1>3, <1>5, <2>1 DEF Inv, Early, Gone, Before, Unknown
  <2>4. Quiet'
    BY <1>1, <1>2, <1>3, <1>5, <2>1 DEF Inv, Quiet, Before, Unknown
  <2>5. QED
    BY <1>1, <1>2, <1>3, <1>4, <1>5, <2>1, <2>2, <2>3, <2>4, GoKeeps
<1>6. CASE (Goto("sig", "cancel") /\ (~Exists(run) \/ dockerFailed'))
  <2>1. PcOK' /\ pc'["sig"] = "cancel" /\ pc'["main"] = pc["main"] /\ exit' = exit
    BY <1>2, <1>6, LabelsType, GotoSig
  <2>2. Early' /\ OwnID'
    BY <1>1, <1>2, <1>3, <1>6, <2>1 DEF Inv, Early, OwnID, Before, Unknown
  <2>3. Gone'
    BY <1>1, <1>2, <1>3, <1>6, <2>1 DEF Inv, Early, Gone, Before, Unknown
  <2>4. Quiet'
    BY <1>1, <1>2, <1>3, <1>6, <2>1 DEF Inv, Quiet, Before, Unknown
  <2>5. QED
    BY <1>1, <1>2, <1>3, <1>4, <1>6, <2>1, <2>2, <2>3, <2>4, GoKeeps
<1>7. QED
  BY <1>3, <1>5, <1>6

LEMMA StopRemovesSigKeeps ==
    ASSUME Inv, ContainerRemove("sig", "remove", StopDone("sig"), Goto("sig", "clear"),
                                Goto("sig", AfterStop("sig")))
    PROVE  Inv'
<1>1. /\ pc["sig"] = "remove" /\ arg["sig"] = run /\ Running /\ signalled
  BY DEF ContainerRemove, Inv, OwnID, OneProcess
<1>2. /\ PcOK /\ DataOK /\ run \in Run /\ run # 0 /\ run \in Nat /\ exit = "none"
      /\ ~signalled => pc["sig"] = "waiting" /\ ~cancelled
      /\ container # NoContainer => container.owner \in 1 .. run
  BY <1>1, Known
<1>3. /\ UNCHANGED <<run, containerID, configDir, arg, cancelled, testFailed, signalled, dirs>>
      /\ dockerFailed' \in BOOLEAN /\ (dockerFailed => dockerFailed')
      /\ container' \in {container, NoContainer}
      /\ \/ (Goto("sig", "clear") /\ container' = NoContainer)
         \/ (Goto("sig", "cancel") /\ (~Exists(run) \/ dockerFailed'))
  <2>1. AfterStop("sig") = "cancel" /\ StopDone("sig") \in BOOLEAN /\ ~StopDone("sig")
    BY DEF AfterStop, StopDone
  <2>2. arg["sig"] = run /\ DataOK
    BY <1>1, <1>2
  <2>3. QED
    BY <2>1, <2>2, ContainerRemoveEffect
<1>4. DataOK' /\ Frame
  <2>1. DataOK'
    BY <1>2, <1>3 DEF DataOK, Goto, End
  <2>2. Frame
    BY <1>1, <1>2, <1>3 DEF Frame
  <2>3. QED
    BY <2>1, <2>2
<1>5. CASE (Goto("sig", "clear") /\ container' = NoContainer)
  <2>1. PcOK' /\ pc'["sig"] = "clear" /\ pc'["main"] = pc["main"] /\ exit' = exit
    BY <1>2, <1>5, LabelsType, GotoSig
  <2>2. Early' /\ OwnID'
    BY <1>1, <1>2, <1>3, <1>5, <2>1 DEF Inv, Early, OwnID, Before, Unknown
  <2>3. Gone'
    BY <1>1, <1>2, <1>3, <1>5, <2>1 DEF Inv, Early, Gone, Before, Unknown
  <2>4. Quiet'
    BY <1>1, <1>2, <1>3, <1>5, <2>1 DEF Inv, Quiet, Before, Unknown
  <2>5. QED
    BY <1>1, <1>2, <1>3, <1>4, <1>5, <2>1, <2>2, <2>3, <2>4, GoKeeps
<1>6. CASE (Goto("sig", "cancel") /\ (~Exists(run) \/ dockerFailed'))
  <2>1. PcOK' /\ pc'["sig"] = "cancel" /\ pc'["main"] = pc["main"] /\ exit' = exit
    BY <1>2, <1>6, LabelsType, GotoSig
  <2>2. Early' /\ OwnID'
    BY <1>1, <1>2, <1>3, <1>6, <2>1 DEF Inv, Early, OwnID, Before, Unknown
  <2>3. Gone'
    BY <1>1, <1>2, <1>3, <1>6, <2>1 DEF Inv, Early, Gone, Before, Unknown
  <2>4. Quiet'
    BY <1>1, <1>2, <1>3, <1>6, <2>1 DEF Inv, Quiet, Before, Unknown
  <2>5. QED
    BY <1>1, <1>2, <1>3, <1>4, <1>6, <2>1, <2>2, <2>3, <2>4, GoKeeps
<1>7. QED
  BY <1>3, <1>5, <1>6

LEMMA StopClearsSigKeeps ==
    ASSUME Inv, StopClears("sig")
    PROVE  Inv'
<1>1. pc["sig"] = "clear" /\ Running /\ signalled
  BY DEF StopClears, Inv, OneProcess
<1>2. /\ PcOK /\ DataOK /\ run \in Run /\ run # 0 /\ run \in Nat /\ exit = "none"
      /\ ~signalled => pc["sig"] = "waiting" /\ ~cancelled
      /\ container # NoContainer => container.owner \in 1 .. run
  BY <1>1, Known
<1>3. /\ UNCHANGED <<run, configDir, arg, cancelled, testFailed, signalled, container, dirs, dockerFailed>>
      /\ containerID' = 0
      /\ Goto("sig", "dir")
  BY <1>1, <1>2 DEF StopClears, manager, host, Works, Fails, DockerFails, DockerWorks, testing, observed, DataOK
<1>4. DataOK' /\ Frame
  <2>1. DataOK'
    BY <1>2, <1>3 DEF DataOK, Goto, End
  <2>2. Frame
    BY <1>1, <1>2, <1>3 DEF Frame
  <2>3. QED
    BY <2>1, <2>2
<1>5. CASE Goto("sig", "dir")
  <2>1. PcOK' /\ pc'["sig"] = "dir" /\ pc'["main"] = pc["main"] /\ exit' = exit
    BY <1>2, <1>5, LabelsType, GotoSig
  <2>2. Early' /\ OwnID'
    BY <1>1, <1>2, <1>3, <1>5, <2>1 DEF Inv, Early, OwnID, Before, Unknown
  <2>3. Gone'
    BY <1>1, <1>2, <1>3, <1>5, <2>1 DEF Inv, Early, Gone, Before, Unknown
  <2>4. Quiet'
    BY <1>1, <1>2, <1>3, <1>5, <2>1 DEF Inv, Quiet, Before, Unknown
  <2>5. QED
    BY <1>1, <1>2, <1>3, <1>4, <1>5, <2>1, <2>2, <2>3, <2>4, GoKeeps
<1>6. QED
  BY <1>3, <1>5

LEMMA RemoveConfigDirSigKeeps ==
    ASSUME Inv, RemoveConfigDir("sig")
    PROVE  Inv'
<1>1. pc["sig"] = "dir" /\ Running /\ signalled
  BY DEF RemoveConfigDir, Inv, OneProcess
<1>2. /\ PcOK /\ DataOK /\ run \in Run /\ run # 0 /\ run \in Nat /\ exit = "none"
      /\ ~signalled => pc["sig"] = "waiting" /\ ~cancelled
      /\ container # NoContainer => container.owner \in 1 .. run
  BY <1>1, Known
<1>3. /\ UNCHANGED <<run, containerID, arg, cancelled, testFailed, signalled, container, dockerFailed>>
      /\ configDir' = 0
      /\ dirs' \in [Run -> {"none", "empty", "config"}]
      /\ configDir = run => dirs'[run] = "none"
      /\ Goto("sig", "cancel")
  BY <1>1, <1>2 DEF RemoveConfigDir, AfterStop, manager, host, Works, Fails, DockerFails, DockerWorks, testing, observed, DataOK
<1>4. DataOK' /\ Frame
  <2>1. DataOK'
    BY <1>2, <1>3 DEF DataOK, Goto, End
  <2>2. Frame
    BY <1>1, <1>2, <1>3 DEF Frame
  <2>3. QED
    BY <2>1, <2>2
<1>5. CASE Goto("sig", "cancel")
  <2>1. PcOK' /\ pc'["sig"] = "cancel" /\ pc'["main"] = pc["main"] /\ exit' = exit
    BY <1>2, <1>5, LabelsType, GotoSig
  <2>2. Early' /\ OwnID'
    BY <1>1, <1>2, <1>3, <1>5, <2>1 DEF Inv, Early, OwnID, Before, Unknown
  <2>3. Gone'
    BY <1>1, <1>2, <1>3, <1>5, <2>1 DEF Inv, Early, Gone, Before, Unknown
  <2>4. Quiet'
    BY <1>1, <1>2, <1>3, <1>5, <2>1 DEF Inv, Quiet, Before, Unknown
  <2>5. QED
    BY <1>1, <1>2, <1>3, <1>4, <1>5, <2>1, <2>2, <2>3, <2>4, GoKeeps
<1>6. QED
  BY <1>3, <1>5

-----------------------------------------------------------------------------
(* What happens to the container from outside. *)

LEMMA ExitsKeeps ==
    ASSUME Inv, ContainerExits
    PROVE  Inv'
<1>1. /\ PcOK /\ DataOK /\ container # NoContainer
      /\ container' = [container EXCEPT !.state = "exited"]
      /\ UNCHANGED <<pc, run, containerID, configDir, arg, cancelled, testFailed, exit, dirs,
                     dockerFailed, signalled>>
  BY TypeParts DEF Inv, ContainerExits, manager, testing, observed
<1>2. container' \in Container /\ container' # NoContainer /\ container'.owner = container.owner
  BY <1>1, StoppedContainer
<1>3. PcOK' /\ DataOK'
  BY <1>1, <1>2 DEF PcOK, DataOK
<1>4. OneProcess' /\ Early' /\ OwnID'
  BY <1>1, <1>2 DEF Inv, OneProcess, Early, OwnID
<1>5. Gone' /\ Ended'
  BY <1>1, <1>2 DEF Inv, Gone, Ended
<1>6. Quiet'
  BY <1>1, <1>2 DEF Inv, Quiet
<1>7. QED
  BY <1>3, <1>4, <1>5, <1>6, TypeParts DEF Inv

LEMMA CleanupExistingKeeps ==
    ASSUME Inv, CleanupExisting
    PROVE  Inv'
<1>1. /\ PcOK /\ DataOK /\ ~Running /\ container' = NoContainer
      /\ UNCHANGED <<pc, run, containerID, configDir, arg, cancelled, testFailed, exit, dirs,
                     dockerFailed, signalled>>
  BY TypeParts DEF Inv, CleanupExisting, manager, testing, observed
<1>2. PcOK' /\ DataOK'
  BY <1>1 DEF PcOK, DataOK
<1>3. OneProcess' /\ Early' /\ OwnID' /\ Gone' /\ Quiet'
  BY <1>1 DEF Inv, OneProcess, Early, OwnID, Gone, Quiet, Before
<1>4. Ended'
  BY <1>1 DEF Inv, Ended
<1>5. QED
  BY <1>2, <1>3, <1>4, TypeParts DEF Inv

(* A new process finds what the ones before it left.                       *)
LEMMA LaunchKeeps ==
    ASSUME Inv, Launch
    PROVE  Inv'
<1>1. /\ DataOK /\ run' = run + 1 /\ run' \in Run /\ run \in Nat
      /\ pc' = [main |-> "pull", sig |-> "waiting"]
      /\ exit' = "none" /\ containerID' = 0 /\ configDir' = 0 /\ cancelled' = FALSE /\ testFailed' = FALSE
      /\ arg' = [g \in Goroutine |-> 0]
      /\ dockerFailed' = FALSE /\ signalled' = FALSE
      /\ UNCHANGED <<container, dirs>>
  BY TypeParts, MaxRunsAssumption DEF Inv, Launch, host, DataOK, Run
<1>2. pc'["main"] = "pull" /\ pc'["sig"] = "waiting"
  BY <1>1
<1>3. PcOK'
  <2>1. pc' \in [Goroutine -> {"pull", "waiting"}]
    BY <1>1 DEF Goroutine
  <2>2. QED
    BY <1>2, <2>1, LabelsType DEF PcOK
<1>4. DataOK'
  <2>1. run' \in 0 .. MaxRuns /\ arg' \in [Goroutine -> {0, run'}]
    BY <1>1, MaxRunsAssumption DEF Run
  <2>2. QED
    BY <1>1, <2>1 DEF DataOK
<1>5. ~Exists(run)' /\ (container' # NoContainer => container'.owner \in 1 .. run')
  BY <1>1 DEF Inv, OneProcess
<1>6. OneProcess' /\ Early' /\ OwnID' /\ Gone' /\ Quiet' /\ Ended'
  BY <1>1, <1>2, <1>5 DEF OneProcess, Early, OwnID, Gone, Quiet, Ended, Before, Unknown
<1>7. QED
  BY <1>3, <1>4, <1>6, TypeParts DEF Inv

-----------------------------------------------------------------------------

LEMMA InvInit == Init => Inv
<1> SUFFICES ASSUME Init PROVE Inv
  OBVIOUS
<1>1. /\ pc["main"] = "off" /\ pc["sig"] = "off" /\ pc \in [Goroutine -> {"off"}]
      /\ container = NoContainer /\ exit = "none"
  BY DEF Init, Goroutine
<1>2. PcOK
  BY <1>1, LabelsType DEF PcOK
<1>3. DataOK
  <2>1. run \in 0 .. MaxRuns
    BY MaxRunsAssumption DEF Init
  <2>2. arg \in [Goroutine -> {0, run}] /\ containerID \in {0, run} /\ configDir \in {0, run}
    BY DEF Init
  <2>3. dirs \in [Run -> {"none", "empty", "config"}]
    BY DEF Init
  <2>4. cancelled \in BOOLEAN /\ testFailed \in BOOLEAN /\ exit = "none" /\ container = NoContainer
        /\ dockerFailed \in BOOLEAN /\ signalled \in BOOLEAN
    BY DEF Init
  <2>5. QED
    BY <2>1, <2>2, <2>3, <2>4 DEF DataOK
<1>4. OneProcess /\ Early /\ OwnID /\ Gone /\ Quiet /\ Ended
  BY <1>1 DEF Init, OneProcess, Early, OwnID, Gone, Quiet, Ended, Before, Unknown
<1>5. QED
  BY <1>2, <1>3, <1>4, TypeParts DEF Inv

LEMMA InvStep == Inv /\ [Next]_vars => Inv'
<1> SUFFICES ASSUME Inv, [Next]_vars PROVE Inv'
  OBVIOUS
<1>1. CASE Start
  <2>1. CASE waitForContainerHealth
    BY <2>1, UsesIDKeeps, WaitKeeps DEF waitForContainerHealth
  <2>2. CASE CleanUpFailed
    BY <2>2, CleanUpStopKeeps, CleanUpRemoveKeeps DEF CleanUpFailed
  <2>3. QED
    BY <1>1, <2>1, <2>2, PrepareKeeps, MkdirKeeps, WriteConfigKeeps, CreateKeeps, StartKeeps,
       InspectKeeps DEF Start
<1>2. CASE Stop("main")
  BY <1>2, StopBeginsMainKeeps, StopCallsMainKeeps, StopStopsMainKeeps, StopRemovesMainKeeps,
     StopClearsMainKeeps, RemoveConfigDirMainKeeps DEF Stop
<1>3. CASE Stop("sig")
  BY <1>3, StopBeginsSigKeeps, StopCallsSigKeeps, StopStopsSigKeeps, StopRemovesSigKeeps,
     StopClearsSigKeeps, RemoveConfigDirSigKeeps DEF Stop
<1>4. CASE UNCHANGED vars
  <2>1. UNCHANGED <<pc, run, containerID, configDir, arg, cancelled, testFailed, exit, container, dirs,
                    dockerFailed, signalled>>
    BY <1>4 DEF vars, manager, testing, host, observed
  <2>2. TypeOK' /\ OneProcess' /\ Early' /\ OwnID'
    BY <2>1 DEF Inv, TypeOK, OneProcess, Early, OwnID
  <2>3. Gone' /\ Quiet' /\ Ended'
    BY <2>1 DEF Inv, Gone, Quiet, Ended
  <2>4. QED
    BY <2>2, <2>3 DEF Inv
<1>5. QED
  BY <1>1, <1>2, <1>3, <1>4, LaunchKeeps, KillKeeps, SignalKeeps, SignalCancelKeeps,
     SyncKeeps, ReturnKeeps, ExitsKeeps, CleanupExistingKeeps DEF Next, Goroutine

-----------------------------------------------------------------------------
(* The theorems. *)

(* The invariant holds in every state of the host.                         *)
THEOREM InvHolds == Spec => []Inv
<1>1. QED
  BY InvInit, InvStep, PTL DEF Spec

(* Every variable has its type, and a process only ever holds the ID and   *)
(* the directory it created.                                               *)
THEOREM TypeOKHolds == Spec => []TypeOK
<1>1. Inv => TypeOK
  BY DEF Inv
<1>2. QED
  BY <1>1, InvHolds, PTL

(* While a test syncs unsignalled, the container with the exporter's name  *)
(* is its own, with its configuration: ContainerCreate never adopts one    *)
(* that another process left.                                              *)
THEOREM SyncsWithOwnExporterHolds == Spec => []SyncsWithOwnExporter
<1>1. Inv => SyncsWithOwnExporter
  BY DEF Inv, Quiet, SyncsWithOwnExporter, Before, Unknown
<1>2. QED
  BY <1>1, InvHolds, PTL

(* A test that succeeds while Docker works leaves no container, and no     *)
(* directory unless it was signalled.                                      *)
THEOREM VerdictLeavesNothingHolds == Spec => []VerdictLeavesNothing
<1>1. Inv => VerdictLeavesNothing
  BY DEF Inv, Ended
<1>2. QED
  BY <1>1, InvHolds, PTL

(* A start that fails while Docker works and without a signal leaves no    *)
(* container in the way of the next one.                                   *)
THEOREM FailedStartLeavesNoContainerHolds == Spec => []FailedStartLeavesNoContainer
<1>1. Inv => FailedStartLeavesNoContainer
  BY DEF Inv, Ended
<1>2. QED
  BY <1>1, InvHolds, PTL

(* StopContainer and WaitForHealthy slice an empty ID, and panic, only     *)
(* when a signal made the handler call Stop beside main.                   *)
THEOREM PanicsOnlyWhenSignalledHolds == Spec => []PanicsOnlyWhenSignalled
<1>1. Inv => PanicsOnlyWhenSignalled
  BY DEF Inv, Ended
<1>2. QED
  BY <1>1, InvHolds, PTL

HIDE DEF Running, Exists

-----------------------------------------------------------------------------
(* The log streams. *)

\* Only the attempt under way reads; who is to receive an error is there, and
\* a channel with an error has no reader any more.
Watched(c, a) ==
    /\ reader[c][a] = "runs" =>
          /\ attempt[c] = a
          /\ \/ loop[c] = "wait"
             \/ loop[c] = "streaming" /\ monitor[c][a] = "runs"
    /\ errorChan[c][a] =>
          /\ reader[c][a] # "runs"
          /\ \/ loop[c] = "wait" /\ attempt[c] = a
             \/ monitor[c][a] = "runs"

\* Nothing of an attempt exists before it.
Fresh(c, a) ==
    (a > attempt[c] \/ (a = attempt[c] /\ loop[c] \in {"top", "start"})) =>
        reader[c][a] # "runs" /\ ~errorChan[c][a]

LastIsGivenUp(c) == loop[c] = "backoff" => attempt[c] < MaxRetries

Table(S) == [Client -> [AttemptNo -> S]]
Channels == [Client -> [AttemptNo -> BOOLEAN]]

StreamTypes ==
    /\ loop \in [Client -> Loop]
    /\ reader \in Table(GoroutineState)
    /\ errorChan \in Channels
    /\ monitor \in Table(Told)
    /\ attempt \in [Client -> Nat]
    /\ ctxDone \in BOOLEAN

ClientInv(c) ==
    /\ attempt[c] \in IF loop[c] = "gaveUp" THEN {MaxRetries + 1} ELSE AttemptNo
    /\ LastIsGivenUp(c)
    /\ \A a \in AttemptNo : Fresh(c, a) /\ (ctxDone \/ Watched(c, a))

StreamInv == StreamTypes /\ \A c \in Client : ClientInv(c)

LEMMA StreamInvInit == StreamInit => StreamInv
<1> SUFFICES ASSUME StreamInit PROVE StreamInv
  OBVIOUS
<1>1. StreamTypes
  BY DEF StreamInit, StreamTypes, Loop, GoroutineState, Told, Table, Channels
<1>2. ASSUME NEW c \in Client PROVE ClientInv(c)
  BY MaxRetriesAssumption
     DEF StreamInit, ClientInv, LastIsGivenUp, Fresh, Watched, AttemptNo
<1>3. QED
  BY <1>1, <1>2 DEF StreamInv

\* The other clients do not notice a step of one.
Untouched(d) ==
    /\ loop'[d] = loop[d] /\ attempt'[d] = attempt[d] /\ reader'[d] = reader[d]
    /\ errorChan'[d] = errorChan[d] /\ monitor'[d] = monitor[d]

LEMMA UntouchedKeeps ==
    ASSUME NEW d, ClientInv(d), Untouched(d), ctxDone' = ctxDone
    PROVE  ClientInv(d)'
BY DEF ClientInv, Untouched, LastIsGivenUp, Fresh, Watched

\* One entry of a table of goroutines, or of channels, is set.
Set(f, c, a, v) == [f EXCEPT ![c][a] = v]

LEMMA SetAt ==
    ASSUME NEW S, NEW f \in Table(S),
           NEW c \in Client, NEW a \in AttemptNo, NEW v \in S
    PROVE  /\ Set(f, c, a, v) \in Table(S)
           /\ \A d \in Client, b \in AttemptNo :
                 Set(f, c, a, v)[d][b] = IF d = c /\ b = a THEN v ELSE f[d][b]
BY DEF Set, Table

\* An error is put into a channel, or taken from it.
Put(f, c, a)  == [f EXCEPT ![c][a] = TRUE]
Take(f, c, a) == [f EXCEPT ![c][a] = FALSE]

LEMMA ChanAt ==
    ASSUME NEW f \in Channels, NEW c \in Client, NEW a \in AttemptNo
    PROVE  /\ Put(f, c, a) \in Channels /\ Take(f, c, a) \in Channels
           /\ \A d \in Client, b \in AttemptNo :
                 /\ Put(f, c, a)[d][b] <=> (d = c /\ b = a) \/ f[d][b]
                 /\ Take(f, c, a)[d][b] <=> ~(d = c /\ b = a) /\ f[d][b]
BY DEF Put, Take, Channels

\* What an attempt that failed leaves to the next.
LEMMA FailsKeeps ==
    ASSUME StreamInv, NEW c \in Client, loop[c] \in {"start", "wait"}, AttemptFails(c),
           reader' = reader, monitor' = monitor, ctxDone' = ctxDone,
           \A a \in AttemptNo :
              errorChan'[c][a] => errorChan[c][a] /\ (ctxDone \/ monitor[c][a] = "runs"),
           ctxDone \/ \A a \in AttemptNo : reader[c][a] # "runs"
    PROVE  ClientInv(c)'
<1>1. attempt[c] \in AttemptNo /\ \A a \in AttemptNo : Fresh(c, a)
  BY DEF StreamInv, ClientInv
<1>2. \/ loop'[c] = "backoff" /\ attempt'[c] = attempt[c] /\ attempt[c] < MaxRetries
      \/ loop'[c] = "gaveUp" /\ attempt'[c] = MaxRetries + 1
  BY <1>1, MaxRetriesAssumption DEF AttemptFails, GotoLoop, StreamInv, StreamTypes, AttemptNo
<1>3. QED
  BY <1>1, <1>2, MaxRetriesAssumption
     DEF ClientInv, LastIsGivenUp, Fresh, Watched, AttemptNo

LEMMA LoopTopKeeps ==
    ASSUME StreamInv, NEW c \in Client, LoopTop(c)
    PROVE  ClientInv(c)'
<1>1. loop[c] = "top" /\ loop'[c] \in {"stopped", "start"}
  BY DEF LoopTop, GotoLoop, StreamInv, StreamTypes
<1>2. UNCHANGED <<attempt, reader, errorChan, monitor, ctxDone>>
  BY DEF LoopTop
<1>3. QED
  BY <1>1, <1>2 DEF StreamInv, ClientInv, LastIsGivenUp, Fresh, Watched

LEMMA StartStreamingKeeps ==
    ASSUME StreamInv, NEW c \in Client, StartStreaming(c)
    PROVE  ClientInv(c)'
<1>1. loop[c] = "start" /\ UNCHANGED <<errorChan, monitor, ctxDone>>
  BY DEF StartStreaming
<1>2. attempt[c] \in AttemptNo /\ \A a \in AttemptNo : Fresh(c, a)
  BY <1>1 DEF StreamInv, ClientInv
<1>3. ctxDone \/ \A a \in AttemptNo : Watched(c, a)
  BY DEF StreamInv, ClientInv
<1>4. CASE AttemptFails(c) /\ UNCHANGED reader
  <2>1. ctxDone \/ \A a \in AttemptNo : reader[c][a] # "runs"
    BY <1>1, <1>3 DEF Watched
  <2>2. \A a \in AttemptNo : errorChan[c][a] => ctxDone \/ monitor[c][a] = "runs"
    BY <1>1, <1>3 DEF Watched
  <2>3. QED
    BY <1>1, <1>4, <2>1, <2>2, FailsKeeps
<1>5. CASE /\ reader' = [reader EXCEPT ![c][attempt[c]] = "runs"]
           /\ GotoLoop(c, "wait") /\ UNCHANGED attempt
  <2>1. loop'[c] = "wait" /\ attempt'[c] = attempt[c]
    BY <1>5 DEF GotoLoop, StreamInv, StreamTypes
  <2>2. reader' = Set(reader, c, attempt[c], "runs")
    BY <1>5 DEF Set
  <2>3. \A b \in AttemptNo : reader'[c][b] = IF b = attempt[c] THEN "runs" ELSE reader[c][b]
    BY <1>2, <2>2, SetAt DEF StreamInv, StreamTypes, GoroutineState
  <2>4. QED
    BY <1>1, <1>2, <1>3, <2>1, <2>3, MaxRetriesAssumption
       DEF ClientInv, LastIsGivenUp, Fresh, Watched, AttemptNo
<1>6. QED
  BY <1>4, <1>5 DEF StartStreaming

LEMMA WaitBrieflyKeeps ==
    ASSUME StreamInv, NEW c \in Client, WaitBriefly(c)
    PROVE  ClientInv(c)'
<1>1. loop[c] = "wait" /\ UNCHANGED <<reader, ctxDone>>
  BY DEF WaitBriefly
<1>2. attempt[c] \in AttemptNo /\ \A a \in AttemptNo : Fresh(c, a)
  BY <1>1 DEF StreamInv, ClientInv
<1>3. ctxDone \/ \A a \in AttemptNo : Watched(c, a)
  BY DEF StreamInv, ClientInv
<1>4. CASE /\ errorChan[c][attempt[c]]
           /\ errorChan' = [errorChan EXCEPT ![c][attempt[c]] = FALSE]
           /\ AttemptFails(c) /\ UNCHANGED monitor
  <2>1. errorChan' = Take(errorChan, c, attempt[c])
    BY <1>4 DEF Take
  <2>2. errorChan \in Channels
    BY DEF StreamInv, StreamTypes
  <2>3. \A b \in AttemptNo : errorChan'[c][b] <=> b # attempt[c] /\ errorChan[c][b]
    BY <1>2, <2>1, <2>2, ChanAt
  <2>4. \A a \in AttemptNo : errorChan'[c][a] => errorChan[c][a] /\ (ctxDone \/ monitor[c][a] = "runs")
    BY <1>3, <2>3 DEF Watched
  <2>5. ctxDone \/ \A a \in AttemptNo : reader[c][a] # "runs"
    BY <1>2, <1>3, <1>4 DEF Watched
  <2>6. QED
    BY <1>1, <1>4, <2>4, <2>5, FailsKeeps
<1>5. CASE /\ monitor' = [monitor EXCEPT ![c][attempt[c]] = "runs"]
           /\ GotoLoop(c, "streaming") /\ UNCHANGED <<attempt, errorChan>>
  <2>1. loop'[c] = "streaming" /\ attempt'[c] = attempt[c]
    BY <1>5 DEF GotoLoop, StreamInv, StreamTypes
  <2>2. monitor' = Set(monitor, c, attempt[c], "runs")
    BY <1>5 DEF Set
  <2>3. \A b \in AttemptNo : monitor'[c][b] = IF b = attempt[c] THEN "runs" ELSE monitor[c][b]
    BY <1>2, <2>2, SetAt DEF StreamInv, StreamTypes, Told, GoroutineState
  <2>4. QED
    BY <1>1, <1>2, <1>3, <1>5, <2>1, <2>3 DEF ClientInv, LastIsGivenUp, Fresh, Watched
<1>6. CASE ctxDone /\ AttemptFails(c) /\ UNCHANGED <<errorChan, monitor>>
  BY <1>1, <1>6, FailsKeeps
<1>7. QED
  BY <1>4, <1>5, <1>6 DEF WaitBriefly

LEMMA BackoffKeeps ==
    ASSUME StreamInv, NEW c \in Client, Backoff(c)
    PROVE  ClientInv(c)'
<1>1. /\ loop[c] = "backoff" /\ attempt[c] \in AttemptNo /\ attempt[c] < MaxRetries
      /\ UNCHANGED <<reader, errorChan, monitor, ctxDone>>
  BY DEF Backoff, StreamInv, ClientInv, LastIsGivenUp
<1>2. \/ loop'[c] = "top" /\ attempt'[c] = attempt[c] + 1
      \/ loop'[c] = "stopped" /\ attempt'[c] = attempt[c] /\ ctxDone
  BY DEF Backoff, GotoLoop, StreamInv, StreamTypes
<1>3. \A a \in AttemptNo : Fresh(c, a) /\ (ctxDone \/ Watched(c, a))
  BY DEF StreamInv, ClientInv
<1>4. QED
  BY <1>1, <1>2, <1>3, MaxRetriesAssumption
     DEF ClientInv, LastIsGivenUp, Fresh, Watched, AttemptNo

\* A step of the loop of one client.
LEMMA LoopKeeps ==
    ASSUME StreamInv, NEW c \in Client, StreamWithRetry(c)
    PROVE  StreamInv'
<1>1. attempt[c] \in Nat /\ (loop[c] # "gaveUp" => attempt[c] \in AttemptNo)
  BY MaxRetriesAssumption DEF StreamInv, ClientInv, AttemptNo
<1>2. StreamTypes' /\ ctxDone' = ctxDone
  <2> USE DEF StreamInv, StreamTypes, GotoLoop, AttemptFails
  <2>1. loop' \in [Client -> Loop]
    BY DEF StreamWithRetry, LoopTop, StartStreaming, WaitBriefly, Backoff, Loop
  <2>2. attempt' \in [Client -> Nat]
    BY <1>1 DEF StreamWithRetry, LoopTop, StartStreaming, WaitBriefly, Backoff
  <2>3. reader' \in Table(GoroutineState)
    <3>1. \/ reader' = reader
          \/ attempt[c] \in AttemptNo /\ reader' = Set(reader, c, attempt[c], "runs")
      BY <1>1 DEF StreamWithRetry, LoopTop, StartStreaming, WaitBriefly, Backoff, Set
    <3>2. "runs" \in GoroutineState
      BY DEF GoroutineState
    <3>3. QED
      BY <3>1, <3>2, SetAt
  <2>4. errorChan' \in Channels
    <3>1. \/ errorChan' = errorChan
          \/ attempt[c] \in AttemptNo /\ errorChan' = Take(errorChan, c, attempt[c])
      BY <1>1 DEF StreamWithRetry, LoopTop, StartStreaming, WaitBriefly, Backoff, Take
    <3>2. errorChan \in Channels
      OBVIOUS
    <3>3. QED
      BY <3>1, <3>2, ChanAt
  <2>5. monitor' \in Table(Told)
    <3>1. \/ monitor' = monitor
          \/ attempt[c] \in AttemptNo /\ monitor' = Set(monitor, c, attempt[c], "runs")
      BY <1>1 DEF StreamWithRetry, LoopTop, StartStreaming, WaitBriefly, Backoff, Set
    <3>2. "runs" \in Told
      BY DEF Told, GoroutineState
    <3>3. QED
      BY <3>1, <3>2, SetAt
  <2>6. ctxDone' = ctxDone
    BY DEF StreamWithRetry, LoopTop, StartStreaming, WaitBriefly, Backoff
  <2>7. QED
    BY <2>1, <2>2, <2>3, <2>4, <2>5, <2>6
<1>3. ASSUME NEW d \in Client, d # c PROVE Untouched(d)
  BY <1>3 DEF StreamWithRetry, LoopTop, StartStreaming, WaitBriefly, Backoff, Untouched,
              GotoLoop, AttemptFails, StreamInv, StreamTypes, Table, Channels
<1>4. ClientInv(c)'
  BY LoopTopKeeps, StartStreamingKeeps, WaitBrieflyKeeps, BackoffKeeps DEF StreamWithRetry
<1>5. \A d \in Client : ClientInv(d)'
  BY <1>2, <1>3, <1>4, UntouchedKeeps DEF StreamInv
<1>6. QED
  BY <1>2, <1>5 DEF StreamInv

\* A step of a reader or of a monitor.
LEMMA GoroutineKeeps ==
    ASSUME StreamInv, NEW c \in Client, NEW a \in AttemptNo, Reader(c, a) \/ Monitor(c, a)
    PROVE  StreamInv'
<1>1. /\ reader \in Table(GoroutineState) /\ errorChan \in Channels
      /\ monitor \in Table(Told)
      /\ "ended" \in GoroutineState /\ {"failed", "ended"} \subseteq Told
  BY DEF StreamInv, StreamTypes, GoroutineState, Told
<1>2. \A b \in AttemptNo : Fresh(c, b) /\ (ctxDone \/ Watched(c, b))
  BY DEF StreamInv, ClientInv
<1>3. UNCHANGED <<loop, attempt, ctxDone>>
  BY DEF Reader, Monitor, ReaderFails, ReaderCancelled, MonitorReceives, MonitorCancelled
<1>4. CASE ReaderFails(c, a)
  <2>1. /\ reader' = Set(reader, c, a, "ended") /\ errorChan' = Put(errorChan, c, a)
        /\ monitor' = monitor /\ reader[c][a] = "runs"
    BY <1>4 DEF ReaderFails, Set, Put
  <2>2. /\ reader' \in Table(GoroutineState)
        /\ \A d \in Client, b \in AttemptNo :
              reader'[d][b] = IF d = c /\ b = a THEN "ended" ELSE reader[d][b]
    BY <1>1, <2>1, SetAt
  <2>3. /\ errorChan' \in Channels
        /\ \A d \in Client, b \in AttemptNo :
              errorChan'[d][b] <=> (d = c /\ b = a) \/ errorChan[d][b]
    BY <1>1, <2>1, ChanAt
  <2>4. ClientInv(c)'
    BY <1>2, <1>3, <2>1, <2>2, <2>3
       DEF StreamInv, ClientInv, LastIsGivenUp, Fresh, Watched
  <2>5. ASSUME NEW d \in Client, d # c PROVE Untouched(d)
    BY <1>3, <1>4, <2>5 DEF ReaderFails, Untouched, StreamInv, StreamTypes, Table, Channels
  <2>6. QED
    BY <1>3, <2>1, <2>2, <2>3, <2>4, <2>5, UntouchedKeeps DEF StreamInv, StreamTypes
<1>5. CASE ReaderCancelled(c, a)
  <2>1. /\ reader' = Set(reader, c, a, "ended") /\ UNCHANGED <<errorChan, monitor>> /\ ctxDone
    BY <1>5 DEF ReaderCancelled, Set
  <2>2. /\ reader' \in Table(GoroutineState)
        /\ \A d \in Client, b \in AttemptNo :
              reader'[d][b] = IF d = c /\ b = a THEN "ended" ELSE reader[d][b]
    BY <1>1, <2>1, SetAt
  <2>3. ClientInv(c)'
    BY <1>2, <1>3, <2>1, <2>2 DEF StreamInv, ClientInv, LastIsGivenUp, Fresh
  <2>4. ASSUME NEW d \in Client, d # c PROVE Untouched(d)
    BY <1>3, <1>5, <2>4 DEF ReaderCancelled, Untouched, StreamInv, StreamTypes, Table, Channels
  <2>5. QED
    BY <1>3, <2>1, <2>2, <2>3, <2>4, UntouchedKeeps DEF StreamInv, StreamTypes
<1>6. CASE MonitorReceives(c, a)
  <2>1. /\ monitor' = Set(monitor, c, a, "failed") /\ errorChan' = Take(errorChan, c, a)
        /\ reader' = reader /\ errorChan[c][a]
    BY <1>6 DEF MonitorReceives, Set, Take
  <2>2. /\ monitor' \in Table(Told)
        /\ \A d \in Client, b \in AttemptNo :
              monitor'[d][b] = IF d = c /\ b = a THEN "failed" ELSE monitor[d][b]
    BY <1>1, <2>1, SetAt
  <2>3. /\ errorChan' \in Channels
        /\ \A d \in Client, b \in AttemptNo :
              errorChan'[d][b] <=> ~(d = c /\ b = a) /\ errorChan[d][b]
    BY <1>1, <2>1, ChanAt
  <2>4. ClientInv(c)'
    BY <1>2, <1>3, <2>1, <2>2, <2>3
       DEF StreamInv, ClientInv, LastIsGivenUp, Fresh, Watched
  <2>5. ASSUME NEW d \in Client, d # c PROVE Untouched(d)
    BY <1>3, <1>6, <2>5 DEF MonitorReceives, Untouched, StreamInv, StreamTypes, Table, Channels
  <2>6. QED
    BY <1>3, <2>1, <2>2, <2>3, <2>4, <2>5, UntouchedKeeps DEF StreamInv, StreamTypes
<1>7. CASE MonitorCancelled(c, a)
  <2>1. /\ monitor' = Set(monitor, c, a, "ended") /\ UNCHANGED <<reader, errorChan>> /\ ctxDone
    BY <1>7 DEF MonitorCancelled, Set
  <2>2. monitor' \in Table(Told)
    BY <1>1, <2>1, SetAt
  <2>3. ClientInv(c)'
    BY <1>2, <1>3, <2>1 DEF StreamInv, ClientInv, LastIsGivenUp, Fresh
  <2>4. ASSUME NEW d \in Client, d # c PROVE Untouched(d)
    BY <1>3, <1>7, <2>4 DEF MonitorCancelled, Untouched, StreamInv, StreamTypes, Table, Channels
  <2>5. QED
    BY <1>3, <2>1, <2>2, <2>3, <2>4, UntouchedKeeps DEF StreamInv, StreamTypes
<1>8. QED
  BY <1>4, <1>5, <1>6, <1>7 DEF Reader, Monitor

LEMMA StreamInvStep == StreamInv /\ [StreamNext]_streamVars => StreamInv'
<1> SUFFICES ASSUME StreamInv, [StreamNext]_streamVars PROVE StreamInv'
  OBVIOUS
<1>1. CASE Cancel
  BY <1>1 DEF Cancel, StreamInv, StreamTypes, ClientInv, LastIsGivenUp, Fresh
<1>2. CASE \E c \in Client : StreamWithRetry(c)
  BY <1>2, LoopKeeps
<1>3. CASE \E c \in Client, a \in AttemptNo : Reader(c, a) \/ Monitor(c, a)
  BY <1>3, GoroutineKeeps
<1>4. CASE UNCHANGED streamVars
  BY <1>4 DEF streamVars, StreamInv, StreamTypes, ClientInv, LastIsGivenUp, Fresh, Watched
<1>5. QED
  BY <1>1, <1>2, <1>3, <1>4 DEF StreamNext

LEMMA StreamInvTyped == StreamInv => StreamTypeOK
BY DEF StreamInv, StreamTypes, ClientInv, StreamTypeOK, Table, Channels

LEMMA InvIsWatched == StreamInv => StreamsAreWatched
<1> SUFFICES ASSUME StreamInv, ~ctxDone, NEW c \in Client
             PROVE  /\ Cardinality({a \in AttemptNo : reader[c][a] = "runs"}) <= 1
                    /\ \A a \in AttemptNo :
                          errorChan[c][a] => \/ loop[c] = "wait" /\ attempt[c] = a
                                             \/ monitor[c][a] = "runs"
  BY DEF StreamsAreWatched
<1>1. {a \in AttemptNo : reader[c][a] = "runs"} \in SUBSET {attempt[c]}
  BY DEF StreamInv, ClientInv, Watched
<1>2. IsFiniteSet({attempt[c]}) /\ Cardinality({attempt[c]}) = 1
  BY FS_Singleton
<1>3. Cardinality({a \in AttemptNo : reader[c][a] = "runs"}) <= 1
  BY <1>1, <1>2, FS_Subset
<1>4. QED
  BY <1>3 DEF StreamInv, ClientInv, Watched

-----------------------------------------------------------------------------
(* The requests of an iteration. *)

\* The observation of the clients is up to date.
Current ==
    /\ witness = 0 => el.head = 0
    /\ witness = 1 => IsSyncing(el)
    /\ witness = 2 => cl.syncing \/ cl.optimistic
    /\ el.head \in blocks /\ el.current \in blocks

ExecAsked == {"syncing", "peerCount", "progress"}

\* What the answers so far say of the moments since the iteration began.
ExecOK ==
    /\ step \in ExecAsked => exec # Nil /\ exec.progress = Nil
    /\ step = "progress" => exec.syncing
    /\ step # "blockNumber" /\ exec # Nil =>
          /\ exec.block \in blocks
          /\ exec.progress # Nil => exec.progress.current \in blocks
          /\ exec.block > 0 => witness >= 1
          /\ exec.block > 0 /\ ~exec.syncing /\ step # "syncing" => witness >= 2

ConsAsked == {"metrics", "record", "check", "done"}

Verdict ==
    /\ step \in ConsAsked /\ Synced => witness = 3
    /\ step = "done" => Synced
    /\ step \in {"check", "done"} /\ exec # Nil /\ cons # Nil /\ metrics => entry \in blocks

CheckInv == CheckTypeOK /\ Current /\ ExecOK /\ Verdict

LEMMA WitnessedEffect ==
    ASSUME NEW w \in 0 .. 3, NEW e \in ExecutionClient, NEW c \in ConsensusClient
    PROVE  /\ Witnessed(w, e, c) \in 0 .. 3 /\ Witnessed(w, e, c) >= w
           /\ Witnessed(w, e, c) = 0 => e.head = 0
           /\ Witnessed(w, e, c) = 1 => IsSyncing(e)
           /\ Witnessed(w, e, c) = 2 => c.syncing \/ c.optimistic
BY DEF Witnessed, ExecutionClient, ConsensusClient, Block

LEMMA InvIsCurrent == CheckInv => ConclusionsAreCurrent
BY DEF CheckInv, Verdict, ConclusionsAreCurrent, ConsAsked

LEMMA CheckInvInit == CheckInit => CheckInv
<1> SUFFICES ASSUME CheckInit PROVE CheckInv
  OBVIOUS
<1>1. 0 \in Block
  BY MaxBlockAssumption DEF Block
<1>2. CheckTypeOK
  <2>1. el \in ExecutionClient
    BY <1>1 DEF CheckInit, ExecutionClient
  <2>2. cl \in ConsensusClient
    BY DEF CheckInit, ConsensusClient
  <2>3. step = "blockNumber" /\ exec = Nil /\ cons = Nil /\ entry = 0 /\ blocks = {0}
    BY DEF CheckInit
  <2>4. metrics \in BOOLEAN
    BY Zenon DEF CheckInit
  <2>5. witness \in 0 .. 3
    BY DEF CheckInit
  <2>6. QED
    BY <1>1, <2>1, <2>2, <2>3, <2>4, <2>5 DEF CheckTypeOK
<1>3. Current
  BY DEF CheckInit, Current
<1>4. ExecOK /\ Verdict
  BY DEF CheckInit, ExecOK, Verdict, ExecAsked, ConsAsked
<1>5. QED
  BY <1>2, <1>3, <1>4 DEF CheckInv

LEMMA ClientsMoveKeeps == CheckInv /\ ClientsMove => CheckInv'
<1> SUFFICES ASSUME CheckInv, ClientsMove PROVE CheckInv'
  OBVIOUS
<1>1. el' \in ExecutionClient /\ cl' \in ConsensusClient
  BY DEF ClientsMove, ExecutionMoves, ConsensusMoves, ConsensusClient, CheckInv, CheckTypeOK
<1>2. /\ witness' = Witnessed(witness, el', cl') /\ blocks' = blocks \cup {el'.head, el'.current}
      /\ UNCHANGED <<step, exec, cons, metrics, entry>>
  BY DEF ClientsMove, status
<1>3. /\ witness' \in 0 .. 3 /\ witness' >= witness
      /\ witness' = 0 => el'.head = 0
      /\ witness' = 1 => IsSyncing(el')
      /\ witness' = 2 => cl'.syncing \/ cl'.optimistic
  BY <1>1, <1>2, WitnessedEffect DEF CheckInv, CheckTypeOK
<1>4. blocks' \subseteq Block
  BY <1>1, <1>2 DEF CheckInv, CheckTypeOK, ExecutionClient
<1>5. CheckTypeOK'
  BY <1>1, <1>2, <1>3, <1>4 DEF CheckInv, CheckTypeOK
<1>6. Current'
  BY <1>2, <1>3 DEF Current, IsSyncing
<1>7. ExecOK'
  BY <1>2, <1>3 DEF CheckInv, ExecOK, CheckTypeOK
<1>8. Verdict'
  BY <1>2, <1>3 DEF CheckInv, Verdict, CheckTypeOK, Synced
<1>9. QED
  BY <1>5, <1>6, <1>7, <1>8 DEF CheckInv

\* The requests to the execution client.
LEMMA ExecutionAnswerKeeps ==
    ASSUME CheckInv,
           ExecutionFails \/ GetBlockNumber \/ CheckSyncing \/ GetPeerCount \/ SyncProgress
    PROVE  CheckInv'
<1> DEFINE head == [block |-> el.head, syncing |-> FALSE, progress |-> Nil]
<1>1. /\ UNCHANGED <<el, cl, cons, metrics, entry, blocks, witness>>
      /\ step \in {"blockNumber", "syncing", "peerCount", "progress"}
      /\ step' \in {"syncing", "peerCount", "progress", "consensus"}
  BY DEF ExecutionFails, GetBlockNumber, CheckSyncing, GetPeerCount, SyncProgress, clients, status
<1>2. el.head \in Block /\ el.current \in Block /\ el.highest \in Block /\ IsSyncing(el) \in BOOLEAN
  BY DEF CheckInv, CheckTypeOK, ExecutionClient, IsSyncing
<1>3. exec' \in ExecStatus \cup {Nil} /\ (exec' # Nil /\ exec'.progress # Nil => exec'.syncing)
  <2>1. CASE ExecutionFails
    BY <2>1 DEF ExecutionFails
  <2>2. CASE GetBlockNumber
    BY <1>2, <2>2 DEF GetBlockNumber, ExecStatus, ProgressOrNil
  <2>3. CASE CheckSyncing
    BY <1>2, <2>3 DEF CheckSyncing, CheckInv, CheckTypeOK, ExecOK, ExecAsked, ExecStatus
  <2>4. CASE GetPeerCount
    BY <2>4 DEF GetPeerCount, CheckInv, CheckTypeOK, status
  <2>5. CASE SyncProgress
    BY <1>2, <2>5
       DEF SyncProgress, CheckInv, CheckTypeOK, ExecOK, ExecAsked, ExecStatus, ProgressOrNil,
           SyncProgressOf
  <2>6. QED
    BY <2>1, <2>2, <2>3, <2>4, <2>5
<1>4. CheckTypeOK'
  BY <1>1, <1>3 DEF CheckInv, CheckTypeOK
<1>5. Current' /\ Verdict'
  BY <1>1 DEF CheckInv, Current, Verdict, IsSyncing, ConsAsked
<1>6. ExecOK'
  <2> USE DEF CheckInv, CheckTypeOK, ExecOK, ExecAsked
  <2>1. CASE ExecutionFails
    BY <2>1 DEF ExecutionFails
  <2>2. CASE GetBlockNumber
    <3>1. exec' = head /\ step' = "syncing"
      BY <2>2 DEF GetBlockNumber
    <3>2. head # Nil
      <4>1. head \in ExecStatus
        BY <1>2 DEF ExecStatus, ProgressOrNil
      <4>2. QED
        BY <4>1, NilAssumption
    <3>3. el.head > 0 => witness >= 1
      BY <1>2 DEF Current, Block
    <3>4. QED
      BY <1>1, <3>1, <3>2, <3>3 DEF Current
  <2>3. CASE CheckSyncing
    <3>1. /\ exec \in ExecStatus /\ exec' = [exec EXCEPT !.syncing = IsSyncing(el)]
          /\ step = "syncing" /\ step' = "peerCount"
      BY <2>3 DEF CheckSyncing
    <3>2. /\ exec' # Nil
          /\ exec'.block = exec.block /\ exec'.progress = exec.progress
          /\ exec'.syncing = IsSyncing(el)
      <4>1. exec' \in ExecStatus
        BY <1>2, <3>1 DEF ExecStatus
      <4>2. QED
        BY <3>1, <4>1, NilAssumption DEF ExecStatus
    <3>3. witness >= 1 /\ ~IsSyncing(el) => witness >= 2
      BY DEF Current
    <3>4. QED
      BY <1>1, <3>1, <3>2, <3>3
  <2>4. CASE GetPeerCount
    BY <1>1, <2>4 DEF GetPeerCount, status
  <2>5. CASE SyncProgress
    <3>1. /\ exec \in ExecStatus /\ exec' = [exec EXCEPT !.progress = SyncProgressOf(el)]
          /\ step = "progress" /\ step' = "consensus" /\ exec.syncing
      BY <2>5 DEF SyncProgress
    <3>2. /\ exec'.block = exec.block /\ exec'.syncing = exec.syncing
          /\ exec'.progress = SyncProgressOf(el)
      BY <3>1 DEF ExecStatus
    <3>3. SyncProgressOf(el) # Nil => SyncProgressOf(el).current = el.current
      BY DEF SyncProgressOf
    <3>4. QED
      BY <1>1, <3>1, <3>2, <3>3 DEF Current
  <2>6. QED
    BY <2>1, <2>2, <2>3, <2>4, <2>5
<1>7. QED
  BY <1>4, <1>5, <1>6 DEF CheckInv

\* The other steps of an iteration.
LEMMA ConclusionKeeps ==
    ASSUME CheckInv, GetConsensusStatus \/ FetchMetrics \/ Record \/ CheckSynced
    PROVE  CheckInv'
<1> USE DEF CheckInv
<1>1. CASE GetConsensusStatus
  <2> USE <1>1 DEF GetConsensusStatus, clients
  <2>1. cons' \in ConsStatus \cup {Nil}
    BY DEF CheckTypeOK, ConsensusClient, ConsStatus
  <2>2. CheckTypeOK'
    BY <2>1 DEF CheckTypeOK
  <2>3. Current' /\ ExecOK'
    BY DEF Current, ExecOK, IsSyncing, ExecAsked
  <2>4. Synced' => witness' = 3
    BY DEF Synced, ExecOK, Current, CheckTypeOK, ExecStatus, Block
  <2>5. QED
    BY <2>2, <2>3, <2>4 DEF Verdict
<1>2. CASE FetchMetrics
  BY <1>2 DEF FetchMetrics, clients, CheckTypeOK, Current, ExecOK, Verdict, Synced, IsSyncing,
              ExecAsked, ConsAsked
<1>3. CASE Record
  <2> USE <1>3 DEF Record, clients, status
  <2>1. exec # Nil => BlockOf(exec) \in blocks
    BY DEF BlockOf, ExecOK
  <2>2. entry' \in Block /\ (exec # Nil /\ cons # Nil /\ metrics => entry' \in blocks)
    BY <2>1 DEF CheckTypeOK
  <2>3. CheckTypeOK'
    BY <2>2 DEF CheckTypeOK
  <2>4. Current' /\ ExecOK'
    BY DEF Current, ExecOK, IsSyncing, ExecAsked
  <2>5. Verdict'
    BY <2>2 DEF Verdict, Synced, ConsAsked
  <2>6. QED
    BY <2>3, <2>4, <2>5
<1>4. CASE CheckSynced
  <2> USE <1>4 DEF CheckSynced, clients
  <2>1. CASE step' = "done"
    BY <2>1 DEF status, CheckTypeOK, Current, ExecOK, Verdict, Synced, IsSyncing, ExecAsked,
                ConsAsked
  <2>2. CASE step' = "blockNumber" /\ ForgetStatus
    <3>1. witness' = Witnessed(0, el, cl) /\ blocks' = {el.head, el.current}
      BY <2>2
    <3>2. /\ witness' \in 0 .. 3
          /\ witness' = 0 => el.head = 0
          /\ witness' = 1 => IsSyncing(el)
          /\ witness' = 2 => cl.syncing \/ cl.optimistic
      BY <3>1, WitnessedEffect DEF CheckTypeOK
    <3>3. CheckTypeOK'
      BY <2>2, <3>1, <3>2 DEF ForgetStatus, CheckTypeOK, ExecutionClient
    <3>4. Current'
      BY <3>1, <3>2 DEF Current, IsSyncing
    <3>5. ExecOK' /\ Verdict'
      BY <2>2 DEF ForgetStatus, ExecOK, Verdict, ExecAsked, ConsAsked
    <3>6. QED
      BY <3>3, <3>4, <3>5
  <2>3. QED
    BY <2>1, <2>2
<1>5. QED
  BY <1>1, <1>2, <1>3, <1>4

LEMMA CheckInvStep == CheckInv /\ [CheckNext]_checkVars => CheckInv'
<1> SUFFICES ASSUME CheckInv, [CheckNext]_checkVars PROVE CheckInv'
  OBVIOUS
<1>1. CASE ClientsMove
  BY <1>1, ClientsMoveKeeps
<1>2. CASE Iteration
  BY <1>2, ExecutionAnswerKeeps, ConclusionKeeps DEF Iteration
<1>3. CASE UNCHANGED checkVars
  BY <1>3 DEF checkVars, clients, status, CheckInv, CheckTypeOK, Current, ExecOK, Verdict,
              Synced, IsSyncing
<1>4. QED
  BY <1>1, <1>2, <1>3 DEF CheckNext

-----------------------------------------------------------------------------
(* The composition. *)

(* Every behaviour of the parts is one of the exporter's specification.    *)
THEOREM PartsImplementExporter == PartsSpec => Spec
<1>1. PartsInit => Init
  BY DEF PartsInit
<1>2. [PartsNext]_partsVars => [Next]_vars
  BY DEF PartsNext, partsVars
<1>3. QED
  BY <1>1, <1>2, PTL DEF PartsSpec, Spec

(* The invariant of the log streams holds of the parts.                    *)
LEMMA StreamInvHolds == PartsSpec => []StreamInv
<1>1. PartsInit => StreamInv
  BY StreamInvInit DEF PartsInit
<1>2. StreamInv /\ [PartsNext]_partsVars => StreamInv'
  BY StreamInvStep DEF PartsNext, partsVars
<1>3. QED
  BY <1>1, <1>2, PTL DEF PartsSpec

(* The invariant of an iteration holds of the parts.                       *)
LEMMA CheckInvHolds == PartsSpec => []CheckInv
<1>1. PartsInit => CheckInv
  BY CheckInvInit DEF PartsInit
<1>2. CheckInv /\ [PartsNext]_partsVars => CheckInv'
  BY CheckInvStep DEF PartsNext, partsVars
<1>3. QED
  BY <1>1, <1>2, PTL DEF PartsSpec

(* Every variable of the parts keeps its type, for any number of           *)
(* processes, clients and attempts and any length of the chain.            *)
THEOREM PartsTypeCorrect == PartsSpec => []PartsTypeOK
<1>1. PartsSpec => [](part \in Part)
  <2>1. PartsInit => part \in Part
    BY DEF PartsInit
  <2>2. part \in Part /\ [PartsNext]_partsVars => (part \in Part)'
    BY DEF PartsNext, partsVars
  <2>3. QED
    BY <2>1, <2>2, PTL DEF PartsSpec
<1>2. part \in Part /\ TypeOK /\ StreamInv /\ CheckInv => PartsTypeOK
  BY StreamInvTyped DEF CheckInv, PartsTypeOK
<1>3. QED
  BY <1>1, <1>2, PartsImplementExporter, TypeOKHolds, StreamInvHolds, CheckInvHolds, PTL

(* While the test goes on, a client's log has at most one reader, and an   *)
(* error in a channel has a goroutine that waits for it.                   *)
THEOREM StreamsAreWatchedHolds == PartsSpec => []StreamsAreWatched
BY InvIsWatched, StreamInvHolds, PTL

(* Success and entries are about what the clients were in this iteration,  *)
(* whatever they do between two requests.                                  *)
THEOREM ConclusionsAreCurrentHolds == PartsSpec => []ConclusionsAreCurrent
BY InvIsCurrent, CheckInvHolds, PTL

=============================================================================
