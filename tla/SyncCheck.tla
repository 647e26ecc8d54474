----------------------------- MODULE SyncCheck -----------------------------
(***************************************************************************)
(* How WaitForSync (pkg/synctest/service.go) learns that both clients are  *)
(* synced, and what it records of them: SyncRun's Poll and CheckSynced,    *)
(* request by request.                                                     *)
(*                                                                         *)
(* One iteration asks the execution client three or four times             *)
(* (pkg/execution/client.go), the consensus client once                    *)
(* (pkg/consensus/client.go), and reads the metrics exporter.  The clients *)
(* go on in between: each answer is about another moment.  The properties  *)
(* say what the verdict and the entries mean nevertheless.                 *)
(*                                                                         *)
(* The health check before and the deadline are SyncRun's.                 *)
(***************************************************************************)
EXTENDS Naturals

CONSTANTS
    MaxBlock, \* bound: blocks of the chain
    Nil       \* a nil pointer: no sync progress, or no status at all

ASSUME MaxBlockAssumption == MaxBlock \in Nat \ {0}

VARIABLES
    el,       \* the execution client: what it would answer now
    cl,       \* the consensus client
    step,     \* Iteration: the request that is next, "done" at the end
    exec,     \* execSyncStatus, Nil if it was not got in this iteration
    cons,     \* consensusSyncStatus, likewise
    metrics,  \* the exporter's metrics were read
    entry,    \* the block of the newest progress entry
    blocks,   \* observation: the blocks EL reported or would have, this iteration
    witness   \* observation: how much of "a block, then EL not syncing, then
              \*   CL synced" was true in this iteration, in that order

clients == <<el, cl>>
status  == <<exec, cons, metrics>>
checkVars == <<clients, step, status, entry, blocks, witness>>

-----------------------------------------------------------------------------
Block == 0 .. MaxBlock

(* eth_blockNumber, and eth_syncing: false, or the current and the highest *)
(* block.  In snap sync current grows while eth_blockNumber stays 0.       *)
ExecutionClient ==
    {e \in [up : BOOLEAN, head : Block, syncing : BOOLEAN, current : Block, highest : Block] :
        e.current <= e.highest}
ConsensusClient == [up : BOOLEAN, syncing : BOOLEAN, optimistic : BOOLEAN]

SyncProgressOf(e) == IF e.syncing THEN [current |-> e.current, highest |-> e.highest] ELSE Nil
IsSyncing(e)      == e.syncing /\ e.current < e.highest

ProgressOrNil == [current : Block, highest : Block] \cup {Nil}
ExecStatus == [block : Block, syncing : BOOLEAN, progress : ProgressOrNil]
ConsStatus == [syncing : BOOLEAN, optimistic : BOOLEAN]

ASSUME NilAssumption ==
    Nil \notin [current : Block, highest : Block] \cup ExecStatus \cup ConsStatus

(* What is true of the clients from one moment to the next.                *)
Witnessed(seen, e, c) ==
    LET hasBlock == IF e.head > 0 THEN 1 ELSE 0
        first    == IF seen = 0 THEN hasBlock ELSE seen
        second   == IF first = 1 /\ ~IsSyncing(e) THEN 2 ELSE first
    IN  IF second = 2 /\ ~c.syncing /\ ~c.optimistic THEN 3 ELSE second

-----------------------------------------------------------------------------
(* The clients.                                                            *)

(* Blocks only grow; reachability and sync state change at any time.       *)
ExecutionMoves ==
    /\ el' \in {[el EXCEPT !.up = ~@], [el EXCEPT !.syncing = ~@], [el EXCEPT !.head = @ + 1],
                [el EXCEPT !.current = @ + 1], [el EXCEPT !.highest = @ + 1]}
               \cap ExecutionClient
    /\ UNCHANGED cl

ConsensusMoves ==
    /\ cl' \in {[cl EXCEPT !.up = ~@], [cl EXCEPT !.syncing = ~@], [cl EXCEPT !.optimistic = ~@]}
    /\ UNCHANGED el

ClientsMove ==
    /\ ExecutionMoves \/ ConsensusMoves
    /\ blocks' = blocks \cup {el'.head, el'.current}
    /\ witness' = Witnessed(witness, el', cl')
    /\ UNCHANGED <<step, status, entry>>

-----------------------------------------------------------------------------
(* GetSyncStatus of the execution client.                                  *)

BadExecutionFailsIgnored ==
    /\ step \in {"blockNumber", "syncing", "peerCount", "progress"}
    /\ ~el.up
    /\ step' = "consensus"
    /\ UNCHANGED <<clients, status, entry, blocks, witness>>

(* An error of any of its requests: no execution status in this iteration. *)
ExecutionFails ==
    /\ step \in {"blockNumber", "syncing", "peerCount", "progress"}
    /\ ~el.up
    /\ exec' = Nil
    /\ step' = "consensus"
    /\ UNCHANGED <<clients, cons, metrics, entry, blocks, witness>>

GetBlockNumber ==
    /\ step = "blockNumber"
    /\ el.up
    /\ exec' = [block |-> el.head, syncing |-> FALSE, progress |-> Nil]
    /\ step' = "syncing"
    /\ UNCHANGED <<clients, cons, metrics, entry, blocks, witness>>

CheckSyncing ==
    /\ step = "syncing"
    /\ el.up
    /\ exec' = [exec EXCEPT !.syncing = IsSyncing(el)]
    /\ step' = "peerCount"
    /\ UNCHANGED <<clients, cons, metrics, entry, blocks, witness>>

GetPeerCount ==
    /\ step = "peerCount"
    /\ el.up
    /\ step' = IF exec.syncing THEN "progress" ELSE "consensus"
    /\ UNCHANGED <<clients, status, entry, blocks, witness>>

(* eth_syncing once more: the client may be done by now, and the answer nil. *)
SyncProgress ==
    /\ step = "progress"
    /\ el.up
    /\ exec' = [exec EXCEPT !.progress = SyncProgressOf(el)]
    /\ step' = "consensus"
    /\ UNCHANGED <<clients, cons, metrics, entry, blocks, witness>>

-----------------------------------------------------------------------------
(* GetSyncStatus of the consensus client, FetchMetrics.                    *)

GetConsensusStatus ==
    /\ step = "consensus"
    /\ cons' = IF cl.up THEN [syncing |-> cl.syncing, optimistic |-> cl.optimistic] ELSE Nil
    /\ step' = "metrics"
    /\ UNCHANGED <<clients, exec, metrics, entry, blocks, witness>>

FetchMetrics ==
    /\ step = "metrics"
    /\ metrics' \in BOOLEAN
    /\ step' = "record"
    /\ UNCHANGED <<clients, exec, cons, entry, blocks, witness>>

-----------------------------------------------------------------------------
(* What WaitForSync makes of the answers.                                  *)

(* The block of an entry: that of the sync progress, if there is one, or   *)
(* eth_blockNumber if that is more.                                        *)
BlockOf(s) ==
    IF s.progress # Nil /\ s.progress.current > s.block THEN s.progress.current ELSE s.block

(* An entry is added only if all three answered.                           *)
Record ==
    /\ step = "record"
    /\ entry' = IF exec # Nil /\ cons # Nil /\ metrics THEN BlockOf(exec) ELSE entry
    /\ step' = "check"
    /\ UNCHANGED <<clients, status, blocks, witness>>

BadSynced == exec # Nil /\ cons # Nil /\ metrics /\ ~cons.optimistic /\ ~cons.syncing
             /\ ~exec.syncing /\ exec.block > 0

(* Metrics are not asked for.                                              *)
Synced ==
    /\ exec # Nil /\ cons # Nil
    /\ ~cons.optimistic /\ ~cons.syncing
    /\ ~exec.syncing /\ exec.block > 0

(* The variables of the loop's body are new in each iteration.             *)
ForgetStatus == exec' = Nil /\ cons' = Nil /\ metrics' = FALSE

CheckSynced ==
    /\ step = "check"
    /\ \/ Synced /\ step' = "done" /\ UNCHANGED <<status, blocks, witness>>
       \/ /\ ~Synced
          /\ step' = "blockNumber"
          /\ ForgetStatus
          /\ blocks' = {el.head, el.current}
          /\ witness' = Witnessed(0, el, cl)
    /\ UNCHANGED <<clients, entry>>

-----------------------------------------------------------------------------
CheckInit ==
    /\ el = [up |-> FALSE, head |-> 0, syncing |-> FALSE, current |-> 0, highest |-> 0]
    /\ cl = [up |-> FALSE, syncing |-> TRUE, optimistic |-> FALSE]
    /\ step = "blockNumber"
    /\ exec = Nil /\ cons = Nil /\ metrics = FALSE
    /\ entry = 0
    /\ blocks = {0}
    /\ witness = 0

Iteration ==
    \/ ExecutionFails \/ GetBlockNumber \/ CheckSyncing \/ GetPeerCount \/ SyncProgress
    \/ GetConsensusStatus \/ FetchMetrics \/ Record \/ CheckSynced

CheckNext == ClientsMove \/ Iteration

(* The requests return, all have a timeout; nothing is assumed of clients. *)
CheckSpec == CheckInit /\ [][CheckNext]_checkVars /\ WF_checkVars(Iteration)

-----------------------------------------------------------------------------
(* Properties.                                                             *)

(* Every variable has its type; sync progress is of a client that was      *)
(* found syncing.                                                          *)
CheckTypeOK ==
    /\ el \in ExecutionClient /\ cl \in ConsensusClient
    /\ step \in {"blockNumber", "syncing", "peerCount", "progress", "consensus", "metrics",
                 "record", "check", "done"}
    /\ exec \in ExecStatus \cup {Nil} /\ cons \in ConsStatus \cup {Nil}
    /\ exec # Nil /\ exec.progress # Nil => exec.syncing
    /\ metrics \in BOOLEAN
    /\ entry \in Block /\ blocks \subseteq Block
    /\ witness \in 0 .. 3

(* What an iteration concludes is true of this iteration.  A test succeeds *)
(* only if in its last one the execution client had a block, was then not  *)
(* syncing, and the consensus client was then synced and not optimistic:   *)
(* no answer of an earlier iteration counts.  And a progress entry gives a *)
(* block the execution client had meanwhile, never one it is to reach.     *)
ConclusionsAreCurrent ==
    /\ step = "done" => witness = 3
    /\ step \in {"check", "done"} /\ exec # Nil /\ cons # Nil /\ metrics => entry \in blocks

(* Clients that stay synced and reachable end the test, whatever the       *)
(* metrics exporter does.                                                  *)
Ready ==
    /\ el.up /\ el.head > 0 /\ ~IsSyncing(el)
    /\ cl.up /\ ~cl.syncing /\ ~cl.optimistic

SyncedEnds == <>[]Ready => <>(step = "done")

=============================================================================
