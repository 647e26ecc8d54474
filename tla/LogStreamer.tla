---------------------------- MODULE LogStreamer ----------------------------
(***************************************************************************)
(* The streamer of client logs (pkg/kurtosis-log/streamer.go).  For each   *)
(* of the two clients streamWithRetry tries to open a stream.  An attempt  *)
(* that gets one starts a reader, waits half a second for it to fail, and  *)
(* leaves a monitor behind.  The three goroutines of an attempt share a    *)
(* channel for one error, and all watch the context of the sync test.      *)
(*                                                                         *)
(* What Kurtosis does is an input: an attempt may fail, a stream end at    *)
(* any time.  Log lines change no state and are left out.                  *)
(***************************************************************************)
EXTENDS Naturals, FiniteSets

CONSTANTS
    Client,    \* the clients whose logs are streamed
    MaxRetries \* attempts to open a stream (10)

ASSUME MaxRetriesAssumption == MaxRetries \in Nat \ {0}

VARIABLES
    loop,      \* where streamWithRetry of a client is
    attempt,   \* its loop counter
    reader,    \* handleLogStreamWithErrorReporting, by client and attempt
    errorChan, \* an error is in the channel of an attempt
    monitor,   \* the goroutine startStreaming leaves behind
    ctxDone    \* the context of the sync test is cancelled

streamVars == <<loop, attempt, reader, errorChan, monitor, ctxDone>>

-----------------------------------------------------------------------------
AttemptNo == 1 .. MaxRetries
Loop == {"top", "start", "wait", "backoff", "streaming", "gaveUp", "stopped"}
GoroutineState == {"none", "runs", "ended"}
Told == GoroutineState \cup {"failed"}

GotoLoop(c, label) == loop' = [loop EXCEPT ![c] = label]

(* The loop goes on after startStreaming returned an error.                *)
AttemptFails(c) ==
    IF attempt[c] < MaxRetries
    THEN GotoLoop(c, "backoff") /\ UNCHANGED attempt
    ELSE GotoLoop(c, "gaveUp") /\ attempt' = [attempt EXCEPT ![c] = @ + 1]

-----------------------------------------------------------------------------
(* streamWithRetry and startStreaming.                                     *)

(* The check of the context before an attempt.                             *)
LoopTop(c) ==
    /\ loop[c] = "top"
    /\ GotoLoop(c, IF ctxDone THEN "stopped" ELSE "start")
    /\ UNCHANGED <<attempt, reader, errorChan, monitor, ctxDone>>

(* No Kurtosis context, or a nil channel: an error.  Else the stream is    *)
(* open and its reader runs.                                               *)
StartStreaming(c) ==
    /\ loop[c] = "start"
    /\ \/ AttemptFails(c) /\ UNCHANGED reader
       \/ /\ reader' = [reader EXCEPT ![c][attempt[c]] = "runs"]
          /\ GotoLoop(c, "wait")
          /\ UNCHANGED attempt
    /\ UNCHANGED <<errorChan, monitor, ctxDone>>

BadWaitBrieflyNoMonitor(c) ==
    /\ loop[c] = "wait"
    /\ \/ /\ errorChan[c][attempt[c]]
          /\ errorChan' = [errorChan EXCEPT ![c][attempt[c]] = FALSE]
          /\ AttemptFails(c)
       \/ GotoLoop(c, "streaming") /\ UNCHANGED <<attempt, errorChan>>
       \/ ctxDone /\ AttemptFails(c) /\ UNCHANGED errorChan
    /\ UNCHANGED <<reader, monitor, ctxDone>>

(* An error within half a second, the end of that time, or the context:    *)
(* a select takes any of those that are ready.                             *)
WaitBriefly(c) ==
    /\ loop[c] = "wait"
    /\ \/ /\ errorChan[c][attempt[c]]
          /\ errorChan' = [errorChan EXCEPT ![c][attempt[c]] = FALSE]
          /\ AttemptFails(c)
          /\ UNCHANGED monitor
       \/ /\ monitor' = [monitor EXCEPT ![c][attempt[c]] = "runs"]
          /\ GotoLoop(c, "streaming")
          /\ UNCHANGED <<attempt, errorChan>>
       \/ ctxDone /\ AttemptFails(c) /\ UNCHANGED <<errorChan, monitor>>
    /\ UNCHANGED <<reader, ctxDone>>

Backoff(c) ==
    /\ loop[c] = "backoff"
    /\ \/ GotoLoop(c, "top") /\ attempt' = [attempt EXCEPT ![c] = @ + 1]
       \/ ctxDone /\ GotoLoop(c, "stopped") /\ UNCHANGED attempt
    /\ UNCHANGED <<reader, errorChan, monitor, ctxDone>>

-----------------------------------------------------------------------------
(* The goroutines of an attempt.                                           *)

(* The stream is closed, or handling a line panics: the channel takes one  *)
(* error without a receiver.                                               *)
ReaderFails(c, a) ==
    /\ reader[c][a] = "runs"
    /\ ~errorChan[c][a]
    /\ errorChan' = [errorChan EXCEPT ![c][a] = TRUE]
    /\ reader' = [reader EXCEPT ![c][a] = "ended"]
    /\ UNCHANGED <<loop, attempt, monitor, ctxDone>>

ReaderCancelled(c, a) ==
    /\ reader[c][a] = "runs"
    /\ ctxDone
    /\ reader' = [reader EXCEPT ![c][a] = "ended"]
    /\ UNCHANGED <<loop, attempt, errorChan, monitor, ctxDone>>

(* The monitor logs the error and returns; "failed" is a monitor that did. *)
MonitorReceives(c, a) ==
    /\ monitor[c][a] = "runs"
    /\ errorChan[c][a]
    /\ errorChan' = [errorChan EXCEPT ![c][a] = FALSE]
    /\ monitor' = [monitor EXCEPT ![c][a] = "failed"]
    /\ UNCHANGED <<loop, attempt, reader, ctxDone>>

BadMonitorIgnoresContext(c, a) ==
    /\ monitor[c][a] = "runs"
    /\ ctxDone /\ errorChan[c][a]
    /\ monitor' = [monitor EXCEPT ![c][a] = "ended"]
    /\ UNCHANGED <<loop, attempt, reader, errorChan, ctxDone>>

MonitorCancelled(c, a) ==
    /\ monitor[c][a] = "runs"
    /\ ctxDone
    /\ monitor' = [monitor EXCEPT ![c][a] = "ended"]
    /\ UNCHANGED <<loop, attempt, reader, errorChan, ctxDone>>

Cancel ==
    /\ ~ctxDone
    /\ ctxDone' = TRUE
    /\ UNCHANGED <<loop, attempt, reader, errorChan, monitor>>

-----------------------------------------------------------------------------
(* StreamLogs was called for every client.                                 *)
StreamInit ==
    /\ loop = [c \in Client |-> "top"]
    /\ attempt = [c \in Client |-> 1]
    /\ reader = [c \in Client |-> [a \in AttemptNo |-> "none"]]
    /\ errorChan = [c \in Client |-> [a \in AttemptNo |-> FALSE]]
    /\ monitor = [c \in Client |-> [a \in AttemptNo |-> "none"]]
    /\ ctxDone = FALSE

StreamWithRetry(c) == LoopTop(c) \/ StartStreaming(c) \/ WaitBriefly(c) \/ Backoff(c)

(* The reader of an attempt may also read on, which changes nothing.       *)
Reader(c, a)  == ReaderFails(c, a) \/ ReaderCancelled(c, a)
Monitor(c, a) == MonitorReceives(c, a) \/ MonitorCancelled(c, a)

StreamNext ==
    \/ Cancel
    \/ \E c \in Client : StreamWithRetry(c)
    \/ \E c \in Client, a \in AttemptNo : Reader(c, a) \/ Monitor(c, a)

(* Goroutines are scheduled.  A reader need not fail, but one whose        *)
(* context is cancelled takes notice.                                      *)
StreamSpec ==
    /\ StreamInit /\ [][StreamNext]_streamVars
    /\ \A c \in Client :
          /\ WF_streamVars(StreamWithRetry(c))
          /\ \A a \in AttemptNo : /\ WF_streamVars(ctxDone /\ Reader(c, a))
                                  /\ WF_streamVars(Monitor(c, a))

-----------------------------------------------------------------------------
(* Properties.                                                             *)

(* Every variable has its type, and the loop ends after its last attempt.  *)
StreamTypeOK ==
    /\ loop \in [Client -> Loop]
    /\ \A c \in Client :
          attempt[c] \in IF loop[c] = "gaveUp" THEN {MaxRetries + 1} ELSE AttemptNo
    /\ reader \in [Client -> [AttemptNo -> GoroutineState]]
    /\ errorChan \in [Client -> [AttemptNo -> BOOLEAN]]
    /\ monitor \in [Client -> [AttemptNo -> Told]]
    /\ ctxDone \in BOOLEAN

(* While the test goes on, no line of a client's log is printed by two     *)
(* readers, as an attempt is only repeated after the reader of the one     *)
(* before has ended; and the end of a stream is noticed, as whoever is to  *)
(* receive the error in its channel still waits for it.                    *)
StreamsAreWatched ==
    ctxDone \/
        \A c \in Client :
            /\ Cardinality({a \in AttemptNo : reader[c][a] = "runs"}) <= 1
            /\ \A a \in AttemptNo :
                  errorChan[c][a] => \/ loop[c] = "wait" /\ attempt[c] = a
                                     \/ monitor[c][a] = "runs"

(* When the test is over no goroutine of the streamer is left.             *)
Over(c) ==
    /\ loop[c] \in {"streaming", "gaveUp", "stopped"}
    /\ \A a \in AttemptNo : reader[c][a] # "runs" /\ monitor[c][a] # "runs"

NothingLeft == ctxDone ~> \A c \in Client : Over(c)

=============================================================================
