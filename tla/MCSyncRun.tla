----------------------------- MODULE MCSyncRun -----------------------------
(* TLC instances of SyncRun: command lines and services.                   *)
EXTENDS SyncRun

DefaultConfig == {[recovery |-> TRUE, server |-> TRUE, defaultName |-> TRUE]}
OfflineConfig == {[recovery |-> TRUE, server |-> FALSE, defaultName |-> TRUE]}
AllConfigs    == [recovery : BOOLEAN, server : BOOLEAN, defaultName : {TRUE}]

NoServices  == {}
AllServices == Service

=============================================================================
