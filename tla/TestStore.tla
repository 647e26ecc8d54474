----------------------------- MODULE TestStore -----------------------------
(***************************************************************************)
(* The syncoor server: the in-memory store of sync tests (pkg/api/store.go)*)
(* and the HTTP handlers that serve it (pkg/api/handlers.go, sse.go,       *)
(* auth.go).                                                               *)
(*                                                                         *)
(* Every method of Store holds its mutex from its first to its last line,  *)
(* so each of them is one step here.  A handler is not: the keepalive      *)
(* handler enters the store twice (UpdateTestKeepalive, then CreateTest),  *)
(* every handler publishes and answers after it left the store, and the    *)
(* maintenance goroutine enters the store three times per tick.  Between   *)
(* those steps anything else may happen.                                   *)
(*                                                                         *)
(* Time.  The store compares LastUpdate with its own clock and with        *)
(* nothing else, so a test carries the AGE of its LastUpdate.  LastUpdate  *)
(* is the server's clock for a progress update but the CLIENT's timestamp  *)
(* for a keepalive and a completion; Skew bounds how far that timestamp is *)
(* off on arrival, early or late.                                          *)
(***************************************************************************)
EXTENDS Integers, Sequences, FiniteSets

CONSTANTS
    Run,         \* run identifiers
    Handler,     \* requests the HTTP server can be serving at once
    Metric,      \* contents of a progress report
    Field,       \* parts of a keepalive that may be missing: client
                 \*   configurations, system info, run timeout
    MaxHistory,  \* NewStore: progress points kept per test (1000)
    OrphanAge,   \* MarkOrphanedTests: 10 minutes
    CleanupAge,  \* CleanupOrphanedTests: 20 minutes
    MaxAge,      \* NewStore: maxAge, 24 hours
    TickPeriod,  \* Start: the cleanup ticker, 20 minutes
    Skew,        \* how far a client's timestamp is off on arrival
    MaxArrivals, \* bound: requests that arrive in one unit of time
    NoRequest,   \* what an idle handler serves
    NoMetrics    \* CurrentMetrics of a test that reported no progress

ASSUME TimesAssumption ==
    /\ OrphanAge \in Nat \ {0}
    /\ CleanupAge \in Nat
    /\ MaxAge \in Nat
    /\ TickPeriod \in Nat \ {0}
    /\ Skew \in Nat
    /\ OrphanAge <= CleanupAge
    /\ Skew <= CleanupAge
    /\ CleanupAge + TickPeriod <= MaxAge

ASSUME SizesAssumption ==
    /\ MaxHistory \in Nat \ {0}
    /\ MaxArrivals \in Nat

VARIABLES
    tests,      \* Store.tests
    loop,       \* where the maintenance goroutine is: "wait", "mark", "sweep"
    sinceTick,  \* time since the last tick was taken
    pc,         \* where each handler is: "idle", "lookup", "create",
                \*   "reply"
    req,        \* the request each handler serves
    status,     \* the HTTP status it answers with, 0 while undecided
    heard,      \* observation: time since a message about a run was accepted
    arrivals    \* bound: requests that arrived in this unit of time

vars == <<tests, loop, sinceTick, pc, req, status, heard, arrivals>>
storeVars   == <<tests, heard>>
loopVars    == <<loop, sinceTick>>
handlerVars == <<pc, req, status>>

-----------------------------------------------------------------------------
(* Definitions named Bad... are the bugs the checks are measured against:  *)
(* each is a definition of the model as a plausible slip would leave it.   *)

(* Data.  Ages stop growing one past MaxAge: every threshold is below it.  *)

AgeCap == MaxAge + 1
Age    == -Skew .. AgeCap
Older(a) == IF a < AgeCap THEN a + 1 ELSE a

(* One record per request body; a body leaves the fields it has not at     *)
(* their zero value.                                                       *)
TestKeepaliveRequest ==
    [kind : {"keepalive"}, run : Run, stamp : -Skew .. Skew, info : SUBSET Field,
     metrics : {NoMetrics}, error : {""}]
ProgressUpdateRequest ==
    [kind : {"progress"}, run : Run, stamp : {0}, info : {{}},
     metrics : Metric, error : {""}]
TestCompleteRequest ==
    [kind : {"complete"}, run : Run, stamp : -Skew .. Skew, info : {{}},
     metrics : {NoMetrics}, error : {"", "failed"}]

Request == TestKeepaliveRequest \cup ProgressUpdateRequest \cup TestCompleteRequest

ASSUME NoRequestAssumption == NoRequest \notin Request

TestData ==
    [isRunning : BOOLEAN, isComplete : BOOLEAN,
     error : {"", "failed", "orphaned"}, age : Age, info : SUBSET Field,
     currentMetrics : Metric \cup {NoMetrics}, history : Seq(Metric)]

(* 400 stands for every 4xx: clients treat them alike.                     *)
Status == {0, 200, 400, 500}

-----------------------------------------------------------------------------
(* The store.                                                              *)

Put(r, test) ==
    tests' = [x \in DOMAIN tests \cup {r} |-> IF x = r THEN test ELSE tests[x]]

BadDropForgetsDelete(S) == UNCHANGED tests
Drop(S) == tests' = [x \in DOMAIN tests \ S |-> tests[x]]

Hear(r) == heard' = [heard EXCEPT ![r] = 0]

BadTrimOneTooMany(history) ==
    IF Len(history) > MaxHistory + 1 THEN Tail(history) ELSE history

TrimHistory(history) ==
    IF Len(history) > MaxHistory
    THEN SubSeq(history, Len(history) - MaxHistory + 1, Len(history))
    ELSE history

BadCreateTestOverwrites(q) ==
    /\ Put(q.run, [isRunning |-> TRUE, isComplete |-> FALSE, error |-> "",
                   age |-> q.stamp, info |-> q.info,
                   currentMetrics |-> NoMetrics, history |-> <<>>])
    /\ Hear(q.run)

CreateTest(q) ==
    /\ q.run \notin DOMAIN tests
    /\ Put(q.run, [isRunning |-> TRUE, isComplete |-> FALSE, error |-> "",
                   age |-> q.stamp, info |-> q.info,
                   currentMetrics |-> NoMetrics, history |-> <<>>])
    /\ Hear(q.run)

BadKeepaliveReplacesAll(q) ==
    /\ q.run \in DOMAIN tests
    /\ ~tests[q.run].isComplete
    /\ Put(q.run, [tests[q.run] EXCEPT !.age = q.stamp, !.info = q.info])
    /\ Hear(q.run)

BadKeepaliveRevives(q) ==
    /\ q.run \in DOMAIN tests
    /\ ~tests[q.run].isComplete
    /\ Put(q.run, [tests[q.run] EXCEPT !.age = q.stamp, !.info = @ \cup q.info,
                                       !.isRunning = TRUE])
    /\ Hear(q.run)

UpdateTestKeepalive(q) ==
    /\ q.run \in DOMAIN tests
    /\ ~tests[q.run].isComplete
    /\ Put(q.run, [tests[q.run] EXCEPT !.age = q.stamp, !.info = @ \cup q.info])
    /\ Hear(q.run)

UpdateProgress(q) ==
    /\ q.run \in DOMAIN tests
    /\ ~tests[q.run].isComplete
    /\ Put(q.run, [tests[q.run] EXCEPT
                     !.age = 0,
                     !.currentMetrics = q.metrics,
                     !.history = TrimHistory(Append(@, q.metrics))])
    /\ Hear(q.run)

CompleteTest(q) ==
    /\ q.run \in DOMAIN tests
    /\ Put(q.run, [tests[q.run] EXCEPT
                     !.age = q.stamp, !.isRunning = FALSE,
                     !.isComplete = TRUE, !.error = q.error])
    /\ Hear(q.run)

(* The statuses the handlers answer with when the store refuses.           *)
IsRefused(q) == q.run \in DOMAIN tests /\ tests[q.run].isComplete
IsUnknown(q) == q.run \notin DOMAIN tests

-----------------------------------------------------------------------------
(* The handlers.                                                           *)

Goto(h, label, code) ==
    /\ pc' = [pc EXCEPT ![h] = label]
    /\ status' = [status EXCEPT ![h] = code]
    /\ UNCHANGED req

(* A request reaches the server and gets a handler.                        *)
Receive(h, q) ==
    /\ pc[h] = "idle"
    /\ arrivals < MaxArrivals
    /\ arrivals' = arrivals + 1
    /\ pc' = [pc EXCEPT ![h] = "lookup"]
    /\ req' = [req EXCEPT ![h] = q]
    /\ status' = [status EXCEPT ![h] = 0]
    /\ UNCHANGED <<storeVars, loopVars>>

(* No or a wrong token (authMiddleware), a wrong method, an unknown        *)
(* operation, no run_id, a body that does not decode: the store is not     *)
(* asked.                                                                  *)
Reject(h) ==
    /\ pc[h] = "lookup"
    /\ Goto(h, "reply", 400)
    /\ UNCHANGED <<storeVars, loopVars, arrivals>>

(* handleTestKeepalive: update the test; a test that is not found is       *)
(* created in a second step, any other error is a 500.                     *)
HandleTestKeepalive(h) ==
    /\ pc[h] = "lookup"
    /\ req[h].kind = "keepalive"
    /\ \/ UpdateTestKeepalive(req[h]) /\ Goto(h, "reply", 200)
       \/ IsUnknown(req[h]) /\ Goto(h, "create", 0) /\ UNCHANGED storeVars
       \/ IsRefused(req[h]) /\ Goto(h, "reply", 500) /\ UNCHANGED storeVars
    /\ UNCHANGED <<loopVars, arrivals>>

(* The second half: another keepalive may have created the test meanwhile, *)
(* and then CreateTest fails with ErrTestAlreadyExists.                    *)
HandleTestKeepaliveCreate(h) ==
    /\ pc[h] = "create"
    /\ \/ CreateTest(req[h]) /\ Goto(h, "reply", 200)
       \/ ~IsUnknown(req[h]) /\ Goto(h, "reply", 500) /\ UNCHANGED storeVars
    /\ UNCHANGED <<loopVars, arrivals>>

HandleTestProgress(h) ==
    /\ pc[h] = "lookup"
    /\ req[h].kind = "progress"
    /\ \/ UpdateProgress(req[h]) /\ Goto(h, "reply", 200)
       \/ IsUnknown(req[h]) /\ Goto(h, "reply", 400) /\ UNCHANGED storeVars
       \/ IsRefused(req[h]) /\ Goto(h, "reply", 500) /\ UNCHANGED storeVars
    /\ UNCHANGED <<loopVars, arrivals>>

HandleTestComplete(h) ==
    /\ pc[h] = "lookup"
    /\ req[h].kind = "complete"
    /\ \/ CompleteTest(req[h]) /\ Goto(h, "reply", 200)
       \/ IsUnknown(req[h]) /\ Goto(h, "reply", 400) /\ UNCHANGED storeVars
    /\ UNCHANGED <<loopVars, arrivals>>

(* After the store was left: the progress and completion handlers publish  *)
(* their event, every handler writes its answer, and the handler is free.  *)
Respond(h) ==
    /\ pc[h] = "reply"
    /\ pc' = [pc EXCEPT ![h] = "idle"]
    /\ req' = [req EXCEPT ![h] = NoRequest]
    /\ status' = [status EXCEPT ![h] = 0]
    /\ UNCHANGED <<storeVars, loopVars, arrivals>>

Serve(h) ==
    \/ HandleTestKeepalive(h)
    \/ HandleTestKeepaliveCreate(h)
    \/ HandleTestProgress(h)
    \/ HandleTestComplete(h)
    \/ Respond(h)

-----------------------------------------------------------------------------
(* Maintenance: cleanupLoop takes a tick and runs cleanup, then            *)
(* performOrphanMaintenance, which marks and then sweeps.                  *)

Cleanup ==
    /\ loop = "wait"
    /\ sinceTick = TickPeriod
    /\ Drop({r \in DOMAIN tests : tests[r].age > MaxAge})
    /\ loop' = "mark"
    /\ UNCHANGED <<sinceTick, handlerVars, heard, arrivals>>

BadSilentTooLate(test) ==
    test.isRunning /\ ~test.isComplete /\ test.age > MaxAge

BadSilentTooEarly(test) ==
    test.isRunning /\ ~test.isComplete /\ test.age >= OrphanAge

Silent(test) == test.isRunning /\ ~test.isComplete /\ test.age > OrphanAge

MarkOrphanedTests ==
    /\ loop = "mark"
    /\ tests' = [r \in DOMAIN tests |->
                   IF Silent(tests[r])
                   THEN [tests[r] EXCEPT !.isRunning = FALSE, !.error = "orphaned"]
                   ELSE tests[r]]
    /\ loop' = "sweep"
    /\ sinceTick' = 0
    /\ UNCHANGED <<handlerVars, heard, arrivals>>

BadSweepAtOrphanAge ==
    /\ loop = "sweep"
    /\ Drop({r \in DOMAIN tests : ~tests[r].isRunning /\ tests[r].age > OrphanAge})
    /\ loop' = "wait"
    /\ UNCHANGED <<sinceTick, handlerVars, heard, arrivals>>

CleanupOrphanedTests ==
    /\ loop = "sweep"
    /\ Drop({r \in DOMAIN tests : ~tests[r].isRunning /\ tests[r].age > CleanupAge})
    /\ loop' = "wait"
    /\ UNCHANGED <<sinceTick, handlerVars, heard, arrivals>>

Maintain == Cleanup \/ MarkOrphanedTests \/ CleanupOrphanedTests

-----------------------------------------------------------------------------
(* The environment.                                                        *)

(* One unit of time (minutes) passes.  Requests and maintenance take far   *)
(* less, so none is under way: the one assumption made about speed.        *)
TimePasses ==
    /\ loop = "wait"
    /\ sinceTick < TickPeriod
    /\ \A h \in Handler : pc[h] = "idle"
    /\ sinceTick' = sinceTick + 1
    /\ tests' = [r \in DOMAIN tests |-> [tests[r] EXCEPT !.age = Older(@)]]
    /\ heard' = [r \in Run |-> Older(heard[r])]
    /\ arrivals' = 0
    /\ UNCHANGED <<loop, handlerVars>>

(* The process ends, by Stop or by a crash, and a new one starts: the      *)
(* store is memory only and every request under way is lost.               *)
Restart ==
    /\ tests' = [r \in {} |-> NoMetrics]
    /\ loop' = "wait"
    /\ sinceTick' = 0
    /\ pc' = [h \in Handler |-> "idle"]
    /\ req' = [h \in Handler |-> NoRequest]
    /\ status' = [h \in Handler |-> 0]
    /\ UNCHANGED <<heard, arrivals>>

NewStore ==
    /\ tests = [r \in {} |-> NoMetrics]
    /\ loop = "wait"
    /\ sinceTick = 0
    /\ pc = [h \in Handler |-> "idle"]
    /\ req = [h \in Handler |-> NoRequest]
    /\ status = [h \in Handler |-> 0]

Init ==
    /\ NewStore
    /\ heard = [r \in Run |-> AgeCap]
    /\ arrivals = 0

(* Clients send any request about any run, in any order, any number of     *)
(* times.                                                                  *)
Next ==
    \/ \E h \in Handler : \E q \in Request : Receive(h, q)
    \/ \E h \in Handler : Reject(h) \/ Serve(h)
    \/ Maintain
    \/ TimePasses
    \/ Restart

Spec == Init /\ [][Next]_vars

(* The Go scheduler runs every handler and the maintenance goroutine, and  *)
(* time goes on.  Nothing is assumed about clients or about restarts.      *)
Fairness ==
    /\ \A h \in Handler : WF_vars(Serve(h))
    /\ WF_vars(Maintain)
    /\ WF_vars(TimePasses)

FairSpec == Spec /\ Fairness

-----------------------------------------------------------------------------
(* Properties.                                                             *)

(* Every variable has its type, and no history is longer than maxHistory   *)
(* (trimHistory).                                                          *)
TypeOK ==
    /\ DOMAIN tests \subseteq Run
    /\ tests \in [DOMAIN tests -> TestData]
    /\ \A r \in DOMAIN tests : Len(tests[r].history) <= MaxHistory
    /\ loop \in {"wait", "mark", "sweep"}
    /\ sinceTick \in 0 .. TickPeriod
    /\ pc \in [Handler -> {"idle", "lookup", "create", "reply"}]
    /\ req \in [Handler -> Request \cup {NoRequest}]
    /\ status \in [Handler -> Status]
    /\ heard \in [Run -> 0 .. AgeCap]
    /\ arrivals \in 0 .. MaxArrivals

(* The three fields a reader tells the state of a test from agree: a       *)
(* complete test is not running, and a test that is neither running nor    *)
(* complete is one MarkOrphanedTests gave up on, with its error text.      *)
StatusCoherent ==
    \A r \in DOMAIN tests :
        /\ tests[r].isComplete => ~tests[r].isRunning /\ tests[r].error # "orphaned"
        /\ tests[r].isRunning => tests[r].error = ""
        /\ ~tests[r].isRunning /\ ~tests[r].isComplete => tests[r].error = "orphaned"

(* CurrentMetrics, which the list shows, is the newest point of History,   *)
(* which the detail page plots: trimming drops points at the old end.      *)
MetricsAreLatest ==
    \A r \in DOMAIN tests :
        LET h == tests[r].history IN
        tests[r].currentMetrics = IF h = <<>> THEN NoMetrics ELSE h[Len(h)]

(* Handler h did what its request asked for and is about to say so.        *)
Acked(h) == pc[h] = "reply" /\ status[h] = 200

(* A client that is told 200 can rely on it: its test is in the store, a   *)
(* completion is recorded, and what a keepalive said of the clients is     *)
(* kept, whatever other requests and the maintenance did meanwhile.        *)
AckedIsStored ==
    \A h \in Handler : Acked(h) =>
        LET q == req[h] IN
        /\ q.run \in DOMAIN tests
        /\ q.kind = "complete" => tests[q.run].isComplete
        /\ q.kind = "keepalive" => q.info \subseteq tests[q.run].info

(* How old the LastUpdate of a running test can get: MarkOrphanedTests     *)
(* looks once per tick, so a dead run is shown as running for at most      *)
(* OrphanAge plus a period (30 minutes), or Skew plus a period if the      *)
(* client's clock is further off than that.                                *)
Freshness == IF OrphanAge >= Skew THEN OrphanAge ELSE Skew

RunningIsFresh ==
    \A r \in DOMAIN tests :
        tests[r].isRunning => tests[r].age <= Freshness + sinceTick

(* LastUpdate is when the server last accepted a message about the test,   *)
(* up to the error of the client's clock.                                  *)
AgeTracksSilence ==
    \A r \in DOMAIN tests :
        tests[r].age - heard[r] \in -Skew .. Skew

(* What a completed test reported is final: no later keepalive, progress   *)
(* report or maintenance step reopens it or adds to its history; only its  *)
(* removal ends it.  (A second completion may replace error and times.)    *)
CompletedIsFinal ==
    [][\A r \in DOMAIN tests \cap DOMAIN tests' :
          tests[r].isComplete =>
              /\ tests'[r].isComplete
              /\ tests'[r].history = tests[r].history
              /\ tests'[r].info = tests[r].info]_vars

(* The maintenance goroutine removes a test only after CleanupAge without  *)
(* a message, up to Skew: the other way to lose one is a restart.          *)
NoEarlyRemoval ==
    [][~Restart => \A r \in DOMAIN tests \ DOMAIN tests' :
          heard[r] > CleanupAge - Skew]_vars

(* Test r is given up on in this step.                                     *)
Orphans(r) ==
    /\ r \in DOMAIN tests \cap DOMAIN tests'
    /\ tests[r].isRunning
    /\ tests'[r].error = "orphaned"

(* MarkOrphanedTests gives up on a test only after OrphanAge without a     *)
(* message, up to Skew.                                                    *)
OrphanedAfterSilence ==
    [][\A r \in Run : Orphans(r) => heard[r] > OrphanAge - Skew]_vars

(* The same with no allowance: what the comment on MarkOrphanedTests and   *)
(* the error it sets say ("no keepalive received for 10 minutes").         *)
OrphanedOnlyWithoutKeepalive ==
    [][\A r \in Run : Orphans(r) => heard[r] > OrphanAge]_vars

(* A run that is never heard of again leaves the store.                    *)
AbandonedIsRemoved ==
    \A r \in Run : (heard[r] = AgeCap) ~> (r \notin DOMAIN tests \/ heard[r] = 0)

(* The store implements the life cycle of TestLifecycle.                   *)
PhaseOf(r) ==
    IF r \notin DOMAIN tests THEN "absent"
    ELSE IF tests[r].isComplete THEN "complete"
    ELSE IF tests[r].isRunning THEN "running"
    ELSE "orphaned"

Lifecycle == INSTANCE TestLifecycle WITH phase <- [r \in Run |-> PhaseOf(r)]

LifecycleSpec == Lifecycle!Spec

=============================================================================
