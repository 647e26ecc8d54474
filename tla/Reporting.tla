----------------------------- MODULE Reporting -----------------------------
(***************************************************************************)
(* The reporting client of one sync test (pkg/reporting/client.go) and the *)
(* part of the server (pkg/api) it talks to.                               *)
(*                                                                         *)
(* Three goroutines send requests through sendRequest: main (the two       *)
(* keepalives of Start and the completion), processUpdateQueue (progress)  *)
(* and processKeepalive (a keepalive per tick).  ReportProgress only puts  *)
(* an update in a bounded queue and drops it when that is full.            *)
(*                                                                         *)
(* sendRequest builds ONE request and hands it to httpClient.Do again      *)
(* after an error or a 5xx, for 30 seconds.  The body of a request can be  *)
(* read once: after an attempt that sent it, a further attempt announces a *)
(* body and has none.  On a new connection net/http refuses it for that;   *)
(* on an idle one, which is rare as the client leaves every answer unread, *)
(* it starts over with a copy of the body, and the server may handle the   *)
(* request twice.  Both are possible here.  A request the client gave up   *)
(* on may still be on its way to the server.                               *)
(*                                                                         *)
(* The token is right: of the 4xx only that for an unknown test occurs.    *)
(*                                                                         *)
(* Time is counted in minutes: less than one for all attempts of a request.*)
(***************************************************************************)
EXTENDS Integers, Sequences, FiniteSets

CONSTANTS
    QueueSize,      \* NewClient: capacity of updateQueue (100)
    KeepaliveEvery, \* the keepalive ticker (3 minutes)
    OrphanAge,      \* server: MarkOrphanedTests (10 minutes)
    MaxUpdates,     \* bound: progress updates reported
    MaxLate,        \* bound: requests astray at the same time
    Nothing         \* what a goroutine sends that sends nothing

ASSUME SizesAssumption ==
    QueueSize \in Nat /\ MaxUpdates \in Nat /\ MaxLate \in Nat

(* Three keepalives in a row, and the time to send the third, fit into the *)
(* silence the server tolerates.                                           *)
ASSUME TimesAssumption ==
    /\ KeepaliveEvery \in Nat \ {0}
    /\ OrphanAge \in Nat
    /\ 3 * KeepaliveEvery + 1 <= OrphanAge

VARIABLES
    main,      \* where main is: "announce", "inspect", "sync", "finish",
               \*   "ended" (the process is gone)
    worker,    \* processUpdateQueue runs
    ticker,    \* processKeepalive: "off" until there is a request, "on", "ended"
    sinceTick, \* time since the last tick, or since the ticker was made
    closed,    \* stopCh is closed or Start's context cancelled: the goroutines return
    queue,     \* updateQueue
    sending,   \* the request each goroutine sends
    body,      \* of that request: "unread", "read", or "refused" for lack of one
    reported,  \* how many updates were passed to ReportProgress
    late,      \* requests the client gave up on that may reach the server
    server,    \* what the server holds of the test: "absent", "running",
               \*   "orphaned", "complete"
    age,       \* the age of its LastUpdate, while it is running
    history,   \* its progress points
    acked,     \* observation: updates the client was told are in history
    lost       \* observation: keepalive ticks since one arrived

vars == <<main, worker, ticker, sinceTick, closed, queue, sending, body,
          reported, late, server, age, history, acked, lost>>
tickerVars == <<ticker, sinceTick>>
serverVars == <<server, age, history, lost>>
sendVars   == <<sending, body, acked, late>>
queueVars  == <<queue, reported>>

-----------------------------------------------------------------------------
Sender == {"main", "queue", "keepalive"}

(* The bodies: old is the age of the timestamp in it, n numbers updates.   *)
Keepalive   == [kind : {"keepalive"}, n : {0}, old : 0 .. 1]
Progress    == [kind : {"progress"}, n : 1 .. MaxUpdates, old : {0}]
Completion  == [kind : {"complete"}, n : {0}, old : {0}]
Request     == Keepalive \cup Progress \cup Completion

NewKeepalive  == [kind |-> "keepalive", n |-> 0, old |-> 0]
NewCompletion == [kind |-> "complete", n |-> 0, old |-> 0]
ProgressUpdateRequest(n) == [kind |-> "progress", n |-> n, old |-> 0]

AgeCap   == OrphanAge + 1
Older(a) == IF a < AgeCap THEN a + 1 ELSE a
LostCap  == 3

Idle(g) == sending[g] = Nothing

-----------------------------------------------------------------------------
(* The server's side of a request that arrives with its body.  code is the *)
(* HTTP status it answers with; 400 stands for every 4xx.                  *)

BadKeepaliveOnlyUpdates(q, code) ==
    /\ q.kind = "keepalive"
    /\ \/ /\ server \in {"running", "orphaned"}
          /\ age' = q.old
          /\ lost' = 0
          /\ code = 200
          /\ UNCHANGED <<server, history>>
       \/ server \in {"absent", "complete"} /\ code = 500 /\ UNCHANGED serverVars

HandleTestKeepalive(q, code) ==
    /\ q.kind = "keepalive"
    /\ \/ /\ server # "complete"
          /\ server' = IF server = "absent" THEN "running" ELSE server
          /\ history' = IF server = "absent" THEN <<>> ELSE history
          /\ age' = IF server = "orphaned" THEN 0 ELSE q.old
          /\ lost' = 0
          /\ code = 200
       \/ server = "complete" /\ code = 500 /\ UNCHANGED serverVars

HandleTestProgress(q, code) ==
    /\ q.kind = "progress"
    /\ \/ /\ server \in {"running", "orphaned"}
          /\ history' = Append(history, q.n)
          /\ age' = 0
          /\ code = 200
          /\ UNCHANGED <<server, lost>>
       \/ server = "absent" /\ code = 400 /\ UNCHANGED serverVars
       \/ server = "complete" /\ code = 500 /\ UNCHANGED serverVars

HandleTestComplete(q, code) ==
    /\ q.kind = "complete"
    /\ \/ /\ server # "absent"
          /\ server' = "complete"
          /\ age' = 0
          /\ code = 200
          /\ UNCHANGED <<history, lost>>
       \/ server = "absent" /\ code = 400 /\ UNCHANGED serverVars

Handle(q, code) ==
    \/ HandleTestKeepalive(q, code)
    \/ HandleTestProgress(q, code)
    \/ HandleTestComplete(q, code)

-----------------------------------------------------------------------------
(* sendRequest.                                                            *)

Send(g, q) ==
    /\ sending' = [sending EXCEPT ![g] = q]
    /\ body' = [body EXCEPT ![g] = "unread"]
    /\ UNCHANGED <<acked, late>>

(* backoff.Retry returns.                                                  *)
SendReturns(g) ==
    /\ sending' = [sending EXCEPT ![g] = Nothing]
    /\ body' = [body EXCEPT ![g] = "unread"]

(* Some of the requests S, or none, may still arrive.                      *)
GoesAstray(S) ==
    \E T \in SUBSET S :
        /\ Cardinality(late \cup T) <= MaxLate
        /\ late' = late \cup T

(* An attempt reaches the server and its answer the client: done, refused  *)
(* for good (4xx), or to be retried (5xx).                                 *)
Attempt(g) ==
    /\ ~Idle(g)
    /\ \E code \in {200, 400, 500} :
          /\ Handle(sending[g], code)
          /\ IF code = 500
             THEN body' = [body EXCEPT ![g] = "read"] /\ UNCHANGED sending
             ELSE SendReturns(g)
          /\ acked' = IF code = 200 /\ sending[g].kind = "progress"
                      THEN acked \cup {sending[g].n} ELSE acked
    /\ UNCHANGED <<main, worker, tickerVars, closed, queueVars, late>>

BadAttemptGoesAstrayCounts(g) ==
    /\ ~Idle(g)
    /\ body[g] = "unread"
    /\ SendReturns(g)
    /\ acked' = IF sending[g].kind = "progress" THEN acked \cup {sending[g].n} ELSE acked
    /\ GoesAstray({sending[g]})
    /\ UNCHANGED <<main, worker, tickerVars, closed, queueVars, serverVars>>

(* An attempt sends the body and gets no answer in 10 seconds, or a 5xx    *)
(* from a proxy: the server may handle the request later.  Bound: the      *)
(* first attempt of a request only.                                        *)
AttemptGoesAstray(g) ==
    /\ ~Idle(g)
    /\ body[g] = "unread"
    /\ body' = [body EXCEPT ![g] = "read"]
    /\ GoesAstray({sending[g]})
    /\ UNCHANGED <<main, worker, tickerVars, closed, queueVars, sending, acked, serverVars>>

(* A further attempt, on a new connection: the client's own transport      *)
(* refuses to send a request whose body is shorter than announced.         *)
AttemptRefused(g) ==
    /\ ~Idle(g)
    /\ body[g] = "read"
    /\ body' = [body EXCEPT ![g] = "refused"]
    /\ UNCHANGED <<main, worker, tickerVars, closed, queueVars, sending, acked, late, serverVars>>

BadGiveUpEndsTicker(g) ==
    /\ ~Idle(g)
    /\ SendReturns(g)
    /\ ticker' = IF g = "keepalive" THEN "ended" ELSE ticker
    /\ UNCHANGED <<main, worker, sinceTick, closed, queueVars, late, acked,
                   serverVars>>

(* Attempts failed for 30 seconds, no connection or no body any more, or   *)
(* the context was cancelled: the caller logs it and goes on.              *)
GiveUp(g) ==
    /\ ~Idle(g)
    /\ SendReturns(g)
    /\ UNCHANGED <<main, worker, tickerVars, closed, queueVars, late, acked,
                   serverVars>>

(* What went astray arrives, or never does.                                *)
LateArrival(q) ==
    /\ q \in late
    /\ late' = late \ {q}
    /\ (\E code \in {200, 400, 500} : Handle(q, code)) \/ UNCHANGED serverVars
    /\ UNCHANGED <<main, worker, tickerVars, closed, queueVars, sending, body, acked>>

-----------------------------------------------------------------------------
(* main.                                                                   *)

(* The first keepalive, and the one that follows the inspection of the     *)
(* clients; the first call makes the ticker.                               *)
ReportTestKeepAlive(label, next) ==
    /\ main = label
    /\ Idle("main")
    /\ Send("main", NewKeepalive)
    /\ main' = next
    /\ IF ticker = "off" THEN ticker' = "on" /\ sinceTick' = 0
                         ELSE UNCHANGED tickerVars
    /\ UNCHANGED <<worker, closed, queueVars, serverVars>>

BadReportProgressNeverDrops ==
    /\ main = "sync"
    /\ Idle("main")
    /\ reported < MaxUpdates
    /\ reported' = reported + 1
    /\ queue' = Append(queue, reported + 1)
    /\ UNCHANGED <<main, worker, tickerVars, closed, sendVars, serverVars>>

ReportProgress ==
    /\ main = "sync"
    /\ Idle("main")
    /\ reported < MaxUpdates
    /\ reported' = reported + 1
    /\ queue' = IF Len(queue) < QueueSize THEN Append(queue, reported + 1) ELSE queue
    /\ UNCHANGED <<main, worker, tickerVars, closed, sendVars, serverVars>>

ReportTestComplete ==
    /\ main = "sync"
    /\ Idle("main")
    /\ Send("main", NewCompletion)
    /\ main' = "finish"
    /\ UNCHANGED <<worker, tickerVars, closed, queueVars, serverVars>>

(* By the signal handler, whatever main does, or by main's defer.          *)
Stop ==
    /\ main # "ended"
    /\ ~closed
    /\ closed' = TRUE
    /\ UNCHANGED <<main, worker, tickerVars, queueVars, sendVars, serverVars>>

(* The process ends, by a return of main or at any other moment: requests  *)
(* that are being sent may still arrive.                                   *)
EndProcess ==
    /\ main # "ended"
    /\ main' = "ended"
    /\ worker' = FALSE
    /\ ticker' = "ended"
    /\ queue' = <<>>
    /\ sending' = [g \in Sender |-> Nothing]
    /\ body' = [g \in Sender |-> "unread"]
    /\ GoesAstray({sending[g] : g \in {h \in Sender : ~Idle(h) /\ body[h] = "unread"}})
    /\ sinceTick' = 0
    /\ closed' = TRUE
    /\ reported' = 0
    /\ acked' = {}
    /\ lost' = 0
    /\ UNCHANGED <<server, age, history>>

-----------------------------------------------------------------------------
(* processUpdateQueue.                                                     *)

TakeUpdate ==
    /\ worker
    /\ Idle("queue")
    /\ queue # <<>>
    /\ Send("queue", ProgressUpdateRequest(Head(queue)))
    /\ queue' = Tail(queue)
    /\ UNCHANGED <<main, worker, tickerVars, closed, reported, serverVars>>

WorkerReturns ==
    /\ worker
    /\ Idle("queue")
    /\ closed
    /\ worker' = FALSE
    /\ UNCHANGED <<main, tickerVars, closed, queueVars, sendVars, serverVars>>

(* processKeepalive.                                                       *)

Tick ==
    /\ ticker = "on"
    /\ sinceTick = KeepaliveEvery
    /\ ~closed
    /\ Idle("keepalive")
    /\ Send("keepalive", NewKeepalive)
    /\ sinceTick' = 0
    /\ lost' = IF lost < LostCap THEN lost + 1 ELSE lost
    /\ UNCHANGED <<main, worker, ticker, closed, queueVars, server, age, history>>

KeepaliveReturns ==
    /\ ticker = "on"
    /\ Idle("keepalive")
    /\ closed
    /\ ticker' = "ended"
    /\ sinceTick' = 0
    /\ UNCHANGED <<main, worker, closed, queueVars, sendVars, serverVars>>

-----------------------------------------------------------------------------
(* Time and the server.                                                    *)

SendsKeepalive(g) == ~Idle(g) /\ sending[g].kind = "keepalive"

(* A minute passes.  No keepalive takes longer than that, and neither does *)
(* a process whose context is cancelled take longer to end.                *)
TimePasses ==
    /\ closed => main = "ended"
    /\ ticker = "on" /\ ~closed => sinceTick < KeepaliveEvery
    /\ \A g \in Sender : SendsKeepalive(g) => sending[g].old = 0
    /\ \A q \in late : q.kind # "keepalive"
    /\ sinceTick' = IF ticker = "on" /\ ~closed THEN sinceTick + 1 ELSE sinceTick
    /\ sending' = [g \in Sender |-> IF SendsKeepalive(g)
                                     THEN [sending[g] EXCEPT !.old = 1]
                                     ELSE sending[g]]
    /\ age' = IF server = "running" THEN Older(age) ELSE age
    /\ UNCHANGED <<main, worker, ticker, closed, queueVars, body, acked, late,
                   server, history, lost>>

MarkOrphanedTests ==
    /\ server = "running"
    /\ age > OrphanAge
    /\ server' = "orphaned"
    /\ age' = 0
    /\ UNCHANGED <<main, worker, tickerVars, closed, queueVars, sendVars, history, lost>>

(* The server restarts, or removes a test that ended after a long silence: *)
(* TestStore models when it does.                                          *)
Forget ==
    /\ server # "absent"
    /\ server' = "absent"
    /\ age' = 0
    /\ history' = <<>>
    /\ acked' = {}
    /\ UNCHANGED <<main, worker, tickerVars, closed, queueVars, sending, body, late, lost>>

-----------------------------------------------------------------------------
Init ==
    /\ main = "announce"
    /\ worker = TRUE
    /\ ticker = "off"
    /\ sinceTick = 0
    /\ closed = FALSE
    /\ queue = <<>>
    /\ sending = [g \in Sender |-> Nothing]
    /\ body = [g \in Sender |-> "unread"]
    /\ reported = 0
    /\ late = {}
    /\ server = "absent"
    /\ age = 0
    /\ history = <<>>
    /\ acked = {}
    /\ lost = 0

Main ==
    \/ ReportTestKeepAlive("announce", "inspect")
    \/ ReportTestKeepAlive("inspect", "sync")
    \/ ReportProgress
    \/ ReportTestComplete

Network ==
    \/ \E g \in Sender : Attempt(g) \/ AttemptGoesAstray(g) \/ AttemptRefused(g) \/ GiveUp(g)
    \/ \E q \in late : LateArrival(q)

Server == MarkOrphanedTests \/ Forget

Next ==
    \/ Main \/ Stop \/ EndProcess
    \/ TakeUpdate \/ WorkerReturns
    \/ Tick \/ KeepaliveReturns
    \/ Network \/ Server
    \/ TimePasses

Spec == Init /\ [][Next]_vars

(* Goroutines are scheduled, requests time out, time goes on, and of the   *)
(* keepalives that are sent again and again one gets through.              *)
Fairness ==
    /\ WF_vars(GiveUp("main"))
    /\ WF_vars(GiveUp("keepalive"))
    /\ SF_vars(Attempt("keepalive"))
    /\ WF_vars(Tick \/ KeepaliveReturns)
    /\ WF_vars(\E q \in late : q.kind = "keepalive" /\ LateArrival(q))
    /\ WF_vars(TimePasses)

FairSpec == Spec /\ Fairness

-----------------------------------------------------------------------------
(* Properties.                                                             *)

(* Every variable has its type; the queue never exceeds its capacity.      *)
TypeOK ==
    /\ main \in {"announce", "inspect", "sync", "finish", "ended"}
    /\ worker \in BOOLEAN
    /\ ticker \in {"off", "on", "ended"}
    /\ sinceTick \in 0 .. KeepaliveEvery
    /\ closed \in BOOLEAN
    /\ queue \in Seq(1 .. MaxUpdates) /\ Len(queue) <= QueueSize
    /\ sending \in [Sender -> Request \cup {Nothing}]
    /\ body \in [Sender -> {"unread", "read", "refused"}]
    /\ reported \in 0 .. MaxUpdates
    /\ late \subseteq Request
    /\ server \in {"absent", "running", "orphaned", "complete"}
    /\ age \in 0 .. AgeCap
    /\ history \in Seq(1 .. MaxUpdates)
    /\ acked \subseteq 1 .. MaxUpdates
    /\ lost \in 0 .. LostCap

(* Of two updates the client was told are stored, the history has the one  *)
(* that was collected first before the other, whatever was repeated, given *)
(* up on or came late in between.                                          *)
AckedInOrder ==
    \A m, n \in acked :
        m < n => \E i, j \in DOMAIN history : i < j /\ history[i] = m /\ history[j] = n

(* The test was announced, and its process neither stops nor has ended.    *)
Alive == main \notin {"announce", "ended"} /\ ~closed

(* The server gives up on a test whose process lives only after three      *)
(* keepalives in a row were lost.                                          *)
KeptAlive ==
    [][server = "running" /\ server' = "orphaned" /\ Alive => lost >= LostCap]_vars

(* A server that forgot the test, by a restart, learns of it again from    *)
(* the next keepalive that arrives.                                        *)
Relisted == (server = "absent" /\ Alive) ~> (server = "running" \/ ~Alive)

(* The comment on sendRequest's 5xx branch, "Retry on server errors": what *)
(* the server, or a proxy, failed to handle is sent to it again, and not   *)
(* refused by the client itself.                                           *)
RetryRepeatsRequest == \A g \in Sender : body[g] # "refused"

=============================================================================
