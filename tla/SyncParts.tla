----------------------------- MODULE SyncParts -----------------------------
(***************************************************************************)
(* What SyncRun takes as outcomes, in detail: the metrics exporter of the  *)
(* processes on a host, the log streams of a test, and the requests by     *)
(* which WaitForSync learns that its clients are synced.                   *)
(*                                                                         *)
(* They share no state but the context of the test, which each lets be     *)
(* cancelled at any time; whether the exporter answers is an input of the  *)
(* requests.  So a behaviour looks at one of them, and the others stay as  *)
(* they were when they began.                                              *)
(***************************************************************************)
EXTENDS MetricsExporter, LogStreamer, SyncCheck

VARIABLE part  \* what is looked at
Part == {"exporter", "streams", "check"}

partsVars == <<part, vars, streamVars, checkVars>>

PartsInit == part \in Part /\ Init /\ StreamInit /\ CheckInit

PartsNext ==
    /\ UNCHANGED part
    /\ \/ part = "exporter" /\ Next       /\ UNCHANGED <<streamVars, checkVars>>
       \/ part = "streams"  /\ StreamNext /\ UNCHANGED <<vars, checkVars>>
       \/ part = "check"    /\ CheckNext  /\ UNCHANGED <<vars, streamVars>>

(* The fairness of each part, while it is looked at.                       *)
StreamFairness ==
    \A c \in Client :
        /\ WF_streamVars(part = "streams" /\ StreamWithRetry(c))
        /\ \A a \in AttemptNo :
              /\ WF_streamVars(part = "streams" /\ ctxDone /\ Reader(c, a))
              /\ WF_streamVars(part = "streams" /\ Monitor(c, a))

PartsSpec ==
    /\ PartsInit /\ [][PartsNext]_partsVars
    /\ StreamFairness
    /\ WF_checkVars(part = "check" /\ Iteration)

-----------------------------------------------------------------------------
(* The types of the parts.                                                 *)
PartsTypeOK == part \in Part /\ TypeOK /\ StreamTypeOK /\ CheckTypeOK

=============================================================================
