-------------------------- MODULE ReportingProofs --------------------------
(***************************************************************************)
(* Proofs about Reporting, for any number of updates, any size of the      *)
(* queue, any number of stray requests, and any times of which three       *)
(* keepalive periods and a minute fit into the silence the server          *)
(* tolerates.                                                              *)
(*                                                                         *)
(* AckedInOrder is not inductive: Numbered adds that updates pass from the *)
(* queue through processUpdateQueue in the order of their numbers, so that *)
(* the one being sent is newer than all acknowledged ones and older than   *)
(* those that wait; Stored, that an acknowledged update is in the history. *)
(*                                                                         *)
(* For KeptAlive, AgeBound measures the silence of a live test in lost     *)
(* keepalives, and Started says that the ticker runs as long as the        *)
(* process neither stops nor has ended.                                    *)
(***************************************************************************)
EXTENDS Reporting, TLAPS

USE SizesAssumption, TimesAssumption

(* An acknowledged update is in the history; a server that knows nothing   *)
(* of the test holds no acknowledged update.                               *)
Stored ==
    /\ \A m \in acked : \E i \in DOMAIN history : history[i] = m
    /\ server = "absent" => acked = {}

(* Updates keep the order of their numbers from ReportProgress on.         *)
Numbered ==
    /\ \A g \in {"main", "keepalive"} : ~Idle(g) => sending[g].kind # "progress"
    /\ ~Idle("queue") => sending["queue"].kind = "progress" /\ sending["queue"].n <= reported
    /\ \A i \in DOMAIN queue : queue[i] <= reported
    /\ \A i, j \in DOMAIN queue : i < j => queue[i] < queue[j]
    /\ ~Idle("queue") => \A i \in DOMAIN queue : sending["queue"].n < queue[i]
    /\ \A m \in acked :
          /\ m <= reported
          /\ \A i \in DOMAIN queue : m < queue[i]
          /\ ~Idle("queue") => m < sending["queue"].n

(* Nothing is sent before the test is announced; from then on the ticker   *)
(* runs until stopCh is closed.                                            *)
Started ==
    /\ main = "announce" => /\ server = "absent" /\ late = {} /\ queue = <<>>
                            /\ \A g \in Sender : Idle(g)
                            /\ ticker = "off"
    /\ main # "announce" => ticker # "off"
    /\ ticker = "ended" => closed

(* While the process lives, its test is as old as the keepalives lost      *)
(* since one arrived, the time since the last tick, and the minute a       *)
(* keepalive may take.                                                     *)
AgeBound ==
    Alive /\ server = "running" =>
        /\ lost = 0 => age <= sinceTick + 1
        /\ lost = 1 => age <= KeepaliveEvery + sinceTick + 1
        /\ lost = 2 => age <= 2 * KeepaliveEvery + sinceTick + 1

Inv == TypeOK /\ AckedInOrder /\ Stored /\ Numbered /\ Started /\ AgeBound

-----------------------------------------------------------------------------
(* The fields of a request.                                                *)
LEMMA RequestFields ==
    \A q \in Request :
        /\ q.kind \in {"keepalive", "progress", "complete"}
        /\ q.old \in 0 .. 1
        /\ q.kind = "progress" => q.n \in 1 .. MaxUpdates
        /\ q.kind = "keepalive" => [q EXCEPT !.old = 1] \in Request
BY DEF Request, Keepalive, Progress, Completion

(* What the goroutines send are requests.                                  *)
LEMMA NewRequests ==
    /\ NewKeepalive \in Request /\ NewKeepalive.kind = "keepalive"
    /\ NewCompletion \in Request /\ NewCompletion.kind = "complete"
    /\ \A n \in 1 .. MaxUpdates :
          /\ ProgressUpdateRequest(n) \in Request
          /\ ProgressUpdateRequest(n).kind = "progress"
          /\ ProgressUpdateRequest(n).n = n
BY DEF Request, Keepalive, Progress, Completion, NewKeepalive, NewCompletion,
       ProgressUpdateRequest

(* What a handler of the server may do to what it holds of the test.       *)
LEMMA HandleEffect ==
    ASSUME TypeOK, NEW q \in Request, NEW code, Handle(q, code)
    PROVE  /\ server' \in {"absent", "running", "orphaned", "complete"}
           /\ age' \in 0 .. AgeCap /\ lost' \in 0 .. LostCap
           /\ \/ history' = history
              \/ history' = Append(history, q.n) /\ q.n \in 1 .. MaxUpdates
              \/ server = "absent" /\ history' = <<>>
           /\ server' = "absent" => server = "absent"
           /\ code = 200 /\ q.kind = "progress" =>
                 server # "absent" /\ history' = Append(history, q.n)
           /\ server' = "running" =>
                 \/ lost' = 0 /\ age' <= 1
                 \/ server = "running" /\ age' <= age /\ lost' = lost
<1>1. /\ q.kind \in {"keepalive", "progress", "complete"} /\ q.old \in 0 .. 1
      /\ q.kind = "progress" => q.n \in 1 .. MaxUpdates
  BY RequestFields
<1>2. age \in 0 .. AgeCap /\ lost \in 0 .. LostCap /\ AgeCap \in Nat /\ AgeCap >= 1
      /\ server \in {"absent", "running", "orphaned", "complete"} /\ LostCap = 3
  BY DEF TypeOK, AgeCap, LostCap
<1>3. CASE HandleTestKeepalive(q, code)
  BY <1>1, <1>2, <1>3 DEF HandleTestKeepalive, serverVars
<1>4. CASE HandleTestProgress(q, code)
  BY <1>1, <1>2, <1>4 DEF HandleTestProgress, serverVars
<1>5. CASE HandleTestComplete(q, code)
  BY <1>1, <1>2, <1>5 DEF HandleTestComplete, serverVars
<1>6. QED
  BY <1>3, <1>4, <1>5 DEF Handle

(* The history a handler leaves keeps its type, and of what it held        *)
(* everything in its place, unless the server held nothing.                *)
LEMMA HistoryEffect ==
    ASSUME TypeOK, NEW q \in Request, NEW code, Handle(q, code)
    PROVE  /\ history' \in Seq(1 .. MaxUpdates)
           /\ server # "absent" =>
                 /\ DOMAIN history \subseteq DOMAIN history'
                 /\ \A i \in DOMAIN history : history'[i] = history[i]
           /\ code = 200 /\ q.kind = "progress" =>
                 \E k \in DOMAIN history' :
                     history'[k] = q.n /\ \A i \in DOMAIN history : i < k
<1>1. history \in Seq(1 .. MaxUpdates)
  BY DEF TypeOK
<1>2. ASSUME history' = Append(history, q.n), q.n \in 1 .. MaxUpdates
      PROVE  /\ history' \in Seq(1 .. MaxUpdates)
             /\ DOMAIN history \subseteq DOMAIN history'
             /\ \A i \in DOMAIN history : history'[i] = history[i]
             /\ \E k \in DOMAIN history' :
                    history'[k] = q.n /\ \A i \in DOMAIN history : i < k
  <2>1. /\ history' \in Seq(1 .. MaxUpdates)
        /\ Len(history') = Len(history) + 1
        /\ history'[Len(history) + 1] = q.n
        /\ \A i \in 1 .. Len(history) : history'[i] = history[i]
    BY <1>1, <1>2
  <2>2. Len(history) \in Nat /\ DOMAIN history = 1 .. Len(history)
        /\ DOMAIN history' = 1 .. Len(history')
    BY <1>1, <2>1
  <2>3. QED
    BY <2>1, <2>2
<1>3. CASE history' = Append(history, q.n) /\ q.n \in 1 .. MaxUpdates
  BY <1>2, <1>3
<1>4. CASE history' = history /\ ~(code = 200 /\ q.kind = "progress")
  BY <1>1, <1>4
<1>5. CASE server = "absent" /\ history' = <<>> /\ ~(code = 200 /\ q.kind = "progress")
  BY <1>5
<1>6. code = 200 /\ q.kind = "progress" => history' = Append(history, q.n) /\ q.n \in 1 .. MaxUpdates
  BY RequestFields, HandleEffect
<1>7. \/ history' = history
      \/ history' = Append(history, q.n) /\ q.n \in 1 .. MaxUpdates
      \/ server = "absent" /\ history' = <<>>
  BY HandleEffect
<1>8. QED
  BY <1>3, <1>4, <1>5, <1>6, <1>7

-----------------------------------------------------------------------------
(* The type of every variable, by the part of the state it describes.      *)
ClientOK ==
    /\ main \in {"announce", "inspect", "sync", "finish", "ended"}
    /\ worker \in BOOLEAN
    /\ ticker \in {"off", "on", "ended"}
    /\ sinceTick \in 0 .. KeepaliveEvery
    /\ closed \in BOOLEAN

QueueOK ==
    /\ queue \in Seq(1 .. MaxUpdates) /\ Len(queue) <= QueueSize
    /\ reported \in 0 .. MaxUpdates

SendOK ==
    /\ sending \in [Sender -> Request \cup {Nothing}]
    /\ body \in [Sender -> {"unread", "read", "refused"}]
    /\ late \subseteq Request
    /\ acked \subseteq 1 .. MaxUpdates

ServerOK ==
    /\ server \in {"absent", "running", "orphaned", "complete"}
    /\ age \in 0 .. AgeCap
    /\ history \in Seq(1 .. MaxUpdates)
    /\ lost \in 0 .. LostCap

LEMMA TypeParts ==
    /\ TypeOK <=> ClientOK /\ QueueOK /\ SendOK /\ ServerOK
    /\ TypeOK' <=> ClientOK' /\ QueueOK' /\ SendOK' /\ ServerOK'
BY DEF TypeOK, ClientOK, QueueOK, SendOK, ServerOK

(* The server's side and what was acknowledged are left alone.             *)
LEMMA HistoryKept ==
    ASSUME AckedInOrder, Stored, UNCHANGED <<server, history, acked>>
    PROVE  AckedInOrder' /\ Stored'
BY DEF AckedInOrder, Stored

(* Fewer requests are being sent, of the same updates.                     *)
LEMMA NumberedKept ==
    ASSUME Numbered, UNCHANGED <<queue, reported>>, acked' \subseteq acked,
           \A g \in Sender : sending'[g] \in {sending[g], Nothing}
    PROVE  Numbered'
BY DEF Numbered, Sender, Idle

(* One goroutine returns from sendRequest.                                 *)
LEMMA ReturnsEffect ==
    ASSUME SendOK, NEW g \in Sender, SendReturns(g)
    PROVE  /\ sending' \in [Sender -> Request \cup {Nothing}]
           /\ body' \in [Sender -> {"unread", "read", "refused"}]
           /\ \A h \in Sender : sending'[h] \in {sending[h], Nothing}
BY DEF SendOK, SendReturns

(* One goroutine has a request to send.                                    *)
LEMMA SendEffect ==
    ASSUME SendOK, NEW g \in Sender, NEW q \in Request, Send(g, q)
    PROVE  /\ SendOK'
           /\ sending'[g] = q
           /\ \A h \in Sender \ {g} : sending'[h] = sending[h]
           /\ acked' = acked /\ late' = late
BY DEF SendOK, Send

(* Some of the requests of S go astray.                                    *)
LEMMA AstrayEffect ==
    ASSUME late \subseteq Request, NEW S \in SUBSET Request, GoesAstray(S)
    PROVE  late' \subseteq Request
BY DEF GoesAstray

-----------------------------------------------------------------------------
(* The network.                                                            *)

(* The order of what was acknowledged, after an attempt that is answered:  *)
(* an update is the newest of them when it is acknowledged.                *)
LEMMA AttemptOrder ==
    ASSUME Inv, NEW g \in Sender, Attempt(g)
    PROVE  AckedInOrder' /\ Stored' /\ Numbered' /\ SendOK'
<1>1. PICK code \in {200, 400, 500} :
          /\ Handle(sending[g], code)
          /\ IF code = 500
             THEN body' = [body EXCEPT ![g] = "read"] /\ UNCHANGED sending
             ELSE SendReturns(g)
          /\ acked' = IF code = 200 /\ sending[g].kind = "progress"
                      THEN acked \cup {sending[g].n} ELSE acked
  BY DEF Attempt
<1>2. /\ sending[g] \in Request /\ SendOK /\ TypeOK
      /\ UNCHANGED <<queue, reported, late>>
  BY TypeParts DEF Attempt, Inv, SendOK, Idle, queueVars
<1>3. /\ sending' \in [Sender -> Request \cup {Nothing}]
      /\ body' \in [Sender -> {"unread", "read", "refused"}]
      /\ \A h \in Sender : sending'[h] \in {sending[h], Nothing}
  BY <1>1, <1>2, ReturnsEffect DEF SendOK
<1>4. /\ server # "absent" =>
            /\ DOMAIN history \subseteq DOMAIN history'
            /\ \A i \in DOMAIN history : history'[i] = history[i]
      /\ server' = "absent" => server = "absent"
  BY <1>1, <1>2, HistoryEffect, HandleEffect
<1>5. CASE code = 200 /\ sending[g].kind = "progress"
  <2> DEFINE n == sending[g].n
  <2>1. g = "queue" /\ ~Idle("queue")
    <3>1. ~Idle(g)
      BY DEF Attempt
    <3>2. g \notin {"main", "keepalive"}
      BY <1>5, <3>1 DEF Inv, Numbered
    <3>3. QED
      BY <3>1, <3>2 DEF Sender
  <2>2. n \in 1 .. MaxUpdates /\ acked' = acked \cup {n}
        /\ sending' = [sending EXCEPT ![g] = Nothing] /\ sending'["queue"] = Nothing
    <3>1. n \in 1 .. MaxUpdates
      BY <1>2, <1>5, RequestFields
    <3>2. acked' = acked \cup {n} /\ SendReturns(g)
      BY <1>1, <1>5
    <3>3. sending' = [sending EXCEPT ![g] = Nothing]
      BY <3>2 DEF SendReturns
    <3>4. sending'["queue"] = Nothing
      BY <1>2, <2>1, <3>3 DEF SendOK, Sender
    <3>5. QED
      BY <3>1, <3>2, <3>3, <3>4
  <2>3. server # "absent" /\ server' # "absent"
    BY <1>1, <1>2, <1>4, <1>5, HandleEffect
  <2>4. PICK k \in DOMAIN history' : history'[k] = n /\ \A i \in DOMAIN history : i < k
    BY <1>1, <1>2, <1>5, HistoryEffect
  <2>5. \A m \in acked : m < n /\ m # n
    BY <1>2, <2>1, <2>2 DEF Inv, Numbered, SendOK
  <2>6. AckedInOrder'
    <3> SUFFICES ASSUME NEW a \in acked', NEW b \in acked', a < b
                 PROVE  \E i, j \in DOMAIN history' :
                            i < j /\ history'[i] = a /\ history'[j] = b
      BY DEF AckedInOrder
    <3>1. a \in acked
      <4>1. ~(n < b) /\ ~(n < n)
        BY <1>2, <2>2, <2>5 DEF SendOK
      <4>2. QED
        BY <2>2, <4>1
    <3>2. CASE b = n
      <4>1. PICK i \in DOMAIN history : history[i] = a
        BY <3>1 DEF Inv, Stored
      <4>2. QED
        BY <1>4, <2>3, <2>4, <3>2, <4>1
    <3>3. CASE b \in acked
      <4>1. PICK i, j \in DOMAIN history : i < j /\ history[i] = a /\ history[j] = b
        BY <3>1, <3>3 DEF Inv, AckedInOrder
      <4>2. QED
        BY <1>4, <2>3, <4>1
    <3>4. QED
      BY <2>2, <3>2, <3>3
  <2>7. Stored'
    BY <1>4, <2>2, <2>3, <2>4 DEF Inv, Stored
  <2>8. Numbered'
    <3>1. \A m \in acked' : m <= reported /\ \A i \in DOMAIN queue : m < queue[i]
      BY <2>1, <2>2 DEF Inv, Numbered
    <3>2. \A h \in {"main", "keepalive"} : sending'[h] # Nothing => sending'[h].kind # "progress"
      <4>1. \A h \in {"main", "keepalive"} : sending'[h] \in {sending[h], Nothing}
        BY <1>3 DEF Sender
      <4>2. QED
        BY <4>1 DEF Inv, Numbered, Idle
    <3>3. \A i \in DOMAIN queue : queue[i] <= reported
      BY DEF Inv, Numbered
    <3>4. \A i, j \in DOMAIN queue : i < j => queue[i] < queue[j]
      BY DEF Inv, Numbered
    <3>5. QED
      BY <1>2, <2>2, <3>1, <3>2, <3>3, <3>4 DEF Numbered, Idle
  <2>9. SendOK'
    <3>1. acked' \subseteq 1 .. MaxUpdates
      <4>1. acked \subseteq 1 .. MaxUpdates
        BY <1>2 DEF SendOK
      <4> HIDE DEF n
      <4>2. QED
        BY <2>2, <4>1
    <3>2. late' \subseteq Request
      BY <1>2 DEF SendOK
    <3>3. QED
      BY <1>3, <3>1, <3>2 DEF SendOK
  <2>10. QED
    BY <2>6, <2>7, <2>8, <2>9
<1>6. CASE ~(code = 200 /\ sending[g].kind = "progress")
  <2>1. acked' = acked
    BY <1>1, <1>6
  <2>2. AckedInOrder' /\ Stored'
    BY <1>4, <2>1 DEF Inv, AckedInOrder, Stored
  <2>3. Numbered'
    BY <1>2, <1>3, <2>1, NumberedKept DEF Inv
  <2>4. QED
    BY <1>2, <1>3, <2>1, <2>2, <2>3 DEF SendOK
<1>7. QED
  BY <1>5, <1>6

(* What a handler of the server leaves alone besides.                      *)
LEMMA HandledKeeps ==
    ASSUME Inv, NEW q \in Request, NEW code, Handle(q, code),
           UNCHANGED <<main, worker, tickerVars, closed, queueVars>>,
           main # "announce"
    PROVE  ClientOK' /\ QueueOK' /\ ServerOK' /\ Started' /\ AgeBound'
<1>1. /\ server' \in {"absent", "running", "orphaned", "complete"}
      /\ age' \in 0 .. AgeCap /\ lost' \in 0 .. LostCap
      /\ history' \in Seq(1 .. MaxUpdates)
      /\ server' = "running" =>
            \/ lost' = 0 /\ age' <= 1
            \/ server = "running" /\ age' <= age /\ lost' = lost
  BY HandleEffect, HistoryEffect DEF Inv
<1>2. ClientOK' /\ QueueOK' /\ ServerOK'
  BY <1>1, TypeParts DEF Inv, ClientOK, QueueOK, ServerOK, tickerVars, queueVars
<1>3. Started'
  BY DEF Inv, Started, tickerVars
<1>4. AgeBound'
  <2>1. sinceTick \in Nat /\ sinceTick' = sinceTick /\ KeepaliveEvery \in Nat
        /\ age \in Nat /\ age' \in Nat
    BY <1>1 DEF Inv, TypeOK, tickerVars, AgeCap
  <2>2. Alive' => Alive
    BY DEF Alive
  <2>3. QED
    BY <1>1, <2>1, <2>2 DEF Inv, AgeBound
<1>5. QED
  BY <1>2, <1>3, <1>4

LEMMA AttemptKeeps == ASSUME Inv, NEW g \in Sender, Attempt(g) PROVE Inv'
<1>1. main # "announce" /\ sending[g] \in Request
  BY DEF Attempt, Inv, Started, TypeOK, Idle
<1>2. PICK code : Handle(sending[g], code)
  BY DEF Attempt
<1>3. UNCHANGED <<main, worker, tickerVars, closed, queueVars>>
  BY DEF Attempt
<1>4. ClientOK' /\ QueueOK' /\ ServerOK' /\ Started' /\ AgeBound'
  BY <1>1, <1>2, <1>3, HandledKeeps
<1>5. QED
  BY <1>4, AttemptOrder, TypeParts DEF Inv

LEMMA LateArrivalKeeps == ASSUME Inv, NEW q \in late, LateArrival(q) PROVE Inv'
<1>1. main # "announce" /\ q \in Request /\ late' = late \ {q}
  BY DEF LateArrival, Inv, Started, TypeOK
<1>2. UNCHANGED <<main, worker, tickerVars, closed, queueVars, sending, body, acked>>
  BY DEF LateArrival
<1>3. SendOK'
  <2>1. late' \subseteq Request
    BY <1>1, TypeParts DEF Inv, SendOK
  <2>2. QED
    BY <1>2, <2>1, TypeParts DEF Inv, SendOK
<1>4. Numbered'
  BY <1>2, NumberedKept DEF Inv, queueVars
<1>5. CASE UNCHANGED serverVars
  <2>1. AckedInOrder' /\ Stored'
    BY <1>2, <1>5, HistoryKept DEF Inv, serverVars
  <2>2. ClientOK' /\ QueueOK' /\ ServerOK'
    BY <1>2, <1>5, TypeParts DEF Inv, ClientOK, QueueOK, ServerOK, tickerVars, queueVars,
       serverVars
  <2>3. Started' /\ AgeBound'
    BY <1>1, <1>2, <1>5 DEF Inv, Started, AgeBound, Alive, tickerVars, queueVars, serverVars
  <2>4. QED
    BY <1>3, <1>4, <2>1, <2>2, <2>3, TypeParts DEF Inv
<1>6. CASE \E code \in {200, 400, 500} : Handle(q, code)
  <2>1. PICK code : Handle(q, code)
    BY <1>6
  <2>2. ClientOK' /\ QueueOK' /\ ServerOK' /\ Started' /\ AgeBound'
    BY <1>1, <1>2, <2>1, HandledKeeps
  <2>3. AckedInOrder' /\ Stored'
    <3>1. /\ server # "absent" =>
                /\ DOMAIN history \subseteq DOMAIN history'
                /\ \A i \in DOMAIN history : history'[i] = history[i]
          /\ server' = "absent" => server = "absent"
      BY <1>1, <2>1, HistoryEffect, HandleEffect DEF Inv
    <3>2. QED
      BY <1>2, <3>1 DEF Inv, AckedInOrder, Stored
  <2>4. QED
    BY <1>3, <1>4, <2>2, <2>3, TypeParts DEF Inv
<1>7. QED
  BY <1>5, <1>6 DEF LateArrival

(* Steps of sendRequest that reach no handler.                             *)
LEMMA SendStepKeeps ==
    ASSUME Inv, SendOK', main # "announce",
           \A g \in Sender : sending'[g] \in {sending[g], Nothing},
           UNCHANGED <<main, worker, tickerVars, closed, queueVars, acked, serverVars>>
    PROVE  Inv'
<1>1. AckedInOrder' /\ Stored'
  BY HistoryKept DEF Inv, serverVars
<1>2. Numbered'
  BY NumberedKept DEF Inv, queueVars
<1>3. ClientOK' /\ QueueOK' /\ ServerOK'
  BY TypeParts DEF Inv, ClientOK, QueueOK, ServerOK, tickerVars, queueVars, serverVars
<1>4. Started' /\ AgeBound'
  BY DEF Inv, Started, AgeBound, Alive, tickerVars, queueVars, serverVars
<1>5. QED
  BY <1>1, <1>2, <1>3, <1>4, TypeParts DEF Inv

LEMMA SendingKeeps ==
    ASSUME Inv, NEW g \in Sender, AttemptGoesAstray(g) \/ AttemptRefused(g) \/ GiveUp(g)
    PROVE  Inv'
<1>1. /\ main # "announce" /\ sending[g] \in Request /\ SendOK
      /\ UNCHANGED <<main, worker, tickerVars, closed, queueVars, acked, serverVars>>
  BY TypeParts DEF AttemptGoesAstray, AttemptRefused, GiveUp, Inv, Started, SendOK, Idle
<1>2. CASE AttemptGoesAstray(g)
  <2>1. late' \subseteq Request
    BY <1>1, <1>2, AstrayEffect DEF AttemptGoesAstray, SendOK
  <2>2. SendOK' /\ sending' = sending
    BY <1>1, <1>2, <2>1 DEF AttemptGoesAstray, SendOK
  <2>3. QED
    BY <1>1, <2>2, SendStepKeeps
<1>3. CASE AttemptRefused(g)
  <2>1. SendOK' /\ sending' = sending
    BY <1>1, <1>3 DEF AttemptRefused, SendOK
  <2>2. QED
    BY <1>1, <2>1, SendStepKeeps
<1>4. CASE GiveUp(g)
  <2>1. SendReturns(g) /\ late' = late
    BY <1>4 DEF GiveUp
  <2>2. /\ sending' \in [Sender -> Request \cup {Nothing}]
        /\ body' \in [Sender -> {"unread", "read", "refused"}]
        /\ \A h \in Sender : sending'[h] \in {sending[h], Nothing}
    BY <1>1, <2>1, ReturnsEffect
  <2>3. SendOK'
    BY <1>1, <2>1, <2>2 DEF SendOK
  <2>4. QED
    BY <1>1, <2>2, <2>3, SendStepKeeps
<1>5. QED
  BY <1>2, <1>3, <1>4

-----------------------------------------------------------------------------
(* main and Stop.                                                          *)

(* A request of main or of the ticker is no progress update.               *)
LEMMA OtherSendKeeps ==
    ASSUME Inv, NEW g \in {"main", "keepalive"}, NEW q \in Request, q.kind # "progress",
           Send(g, q), UNCHANGED <<queueVars, server, history>>
    PROVE  AckedInOrder' /\ Stored' /\ Numbered' /\ SendOK' /\ QueueOK'
<1>1. /\ SendOK' /\ sending'[g] = q /\ acked' = acked
      /\ \A h \in Sender \ {g} : sending'[h] = sending[h]
  BY SendEffect, TypeParts DEF Inv, Sender
<1>2. AckedInOrder' /\ Stored'
  BY <1>1, HistoryKept DEF Inv
<1>3. QueueOK'
  BY TypeParts DEF Inv, QueueOK, queueVars
<1>4. Numbered'
  <2>1. sending'["queue"] = sending["queue"] /\ UNCHANGED <<queue, reported, acked>>
    BY <1>1 DEF Sender, queueVars
  <2>2. \A h \in {"main", "keepalive"} : sending'[h] # Nothing => sending'[h].kind # "progress"
    BY <1>1 DEF Inv, Numbered, Idle, Sender
  <2>3. QED
    BY <2>1, <2>2 DEF Inv, Numbered, Idle
<1>5. QED
  BY <1>1, <1>2, <1>3, <1>4

LEMMA KeepAliveKeeps ==
    ASSUME Inv, NEW label \in {"announce", "inspect"}, NEW next \in {"inspect", "sync"},
           ReportTestKeepAlive(label, next)
    PROVE  Inv'
<1>1. /\ main = label /\ main' = next /\ Send("main", NewKeepalive)
      /\ UNCHANGED <<worker, closed, queueVars, serverVars>>
      /\ IF ticker = "off" THEN ticker' = "on" /\ sinceTick' = 0
                           ELSE UNCHANGED tickerVars
  BY DEF ReportTestKeepAlive
<1>2. AckedInOrder' /\ Stored' /\ Numbered' /\ SendOK' /\ QueueOK'
  BY <1>1, OtherSendKeeps, NewRequests DEF serverVars
<1>3. ClientOK' /\ ServerOK'
  BY <1>1, TypeParts DEF Inv, ClientOK, ServerOK, tickerVars, serverVars
<1>4. Started'
  BY <1>1 DEF Inv, Started, tickerVars
<1>5. AgeBound'
  BY <1>1 DEF Inv, Started, AgeBound, Alive, tickerVars, serverVars
<1>6. QED
  BY <1>2, <1>3, <1>4, <1>5, TypeParts DEF Inv

LEMMA CompleteKeeps == ASSUME Inv, ReportTestComplete PROVE Inv'
<1>1. AckedInOrder' /\ Stored' /\ Numbered' /\ SendOK' /\ QueueOK'
  BY OtherSendKeeps, NewRequests DEF ReportTestComplete, serverVars
<1>2. ClientOK' /\ ServerOK'
  BY TypeParts DEF ReportTestComplete, Inv, ClientOK, ServerOK, tickerVars, serverVars
<1>3. Started' /\ AgeBound'
  BY DEF ReportTestComplete, Inv, Started, AgeBound, Alive, tickerVars, serverVars
<1>4. QED
  BY <1>1, <1>2, <1>3, TypeParts DEF Inv

LEMMA StopKeeps == ASSUME Inv, Stop PROVE Inv'
<1>1. AckedInOrder' /\ Stored'
  BY HistoryKept DEF Stop, Inv, sendVars, serverVars
<1>2. Numbered'
  BY NumberedKept DEF Stop, Inv, sendVars, queueVars
<1>3. ClientOK' /\ QueueOK' /\ SendOK' /\ ServerOK'
  BY TypeParts DEF Stop, Inv, ClientOK, QueueOK, SendOK, ServerOK, tickerVars, queueVars,
     sendVars, serverVars
<1>4. Started' /\ AgeBound'
  BY DEF Stop, Inv, Started, AgeBound, Alive, Idle, tickerVars, queueVars, sendVars, serverVars
<1>5. QED
  BY <1>1, <1>2, <1>3, <1>4, TypeParts DEF Inv

LEMMA EndProcessKeeps == ASSUME Inv, EndProcess PROVE Inv'
<1>1. AckedInOrder' /\ Stored' /\ Numbered'
  BY DEF EndProcess, AckedInOrder, Stored, Numbered, Idle, Sender
<1>2. late' \subseteq Request
  <2> DEFINE S == {sending[g] : g \in {h \in Sender : ~Idle(h) /\ body[h] = "unread"}}
  <2>1. late \subseteq Request /\ S \subseteq Request
    BY TypeParts DEF Inv, SendOK, Idle
  <2>2. GoesAstray(S)
    BY DEF EndProcess
  <2> HIDE DEF S
  <2>3. QED
    BY <2>1, <2>2, AstrayEffect
<1>3. ClientOK' /\ QueueOK' /\ SendOK'
  <2>1. ClientOK' /\ QueueOK'
    <3>1. /\ main' = "ended" /\ worker' = FALSE /\ ticker' = "ended" /\ sinceTick' = 0
          /\ closed' = TRUE /\ queue' = <<>> /\ reported' = 0
      BY DEF EndProcess
    <3>2. ClientOK'
      <4>1. worker' \in BOOLEAN /\ closed' \in BOOLEAN
        BY <3>1
      <4>2. /\ main' \in {"announce", "inspect", "sync", "finish", "ended"}
            /\ ticker' \in {"off", "on", "ended"}
            /\ sinceTick' \in 0 .. KeepaliveEvery
        BY <3>1
      <4>3. QED
        BY <4>1, <4>2 DEF ClientOK
    <3>3. queue' \in Seq(1 .. MaxUpdates) /\ Len(queue') = 0
      BY <3>1
    <3>4. QED
      BY <3>1, <3>2, <3>3 DEF QueueOK
  <2>2. /\ sending' = [g \in Sender |-> Nothing] /\ body' = [g \in Sender |-> "unread"]
        /\ acked' = {}
    BY DEF EndProcess
  <2>3. SendOK'
    BY <1>2, <2>2 DEF SendOK
  <2>4. QED
    BY <2>1, <2>3
<1>4. ServerOK'
  BY TypeParts DEF EndProcess, Inv, ServerOK, LostCap
<1>5. Started' /\ AgeBound'
  BY DEF EndProcess, Started, AgeBound, Alive
<1>6. QED
  BY <1>1, <1>3, <1>4, <1>5, TypeParts DEF Inv

-----------------------------------------------------------------------------
(* The queue.                                                              *)

(* What Append and Tail do to a queue.                                     *)
LEMMA AppendFacts ==
    ASSUME NEW s \in Seq(1 .. MaxUpdates), NEW n \in 1 .. MaxUpdates
    PROVE  /\ Append(s, n) \in Seq(1 .. MaxUpdates)
           /\ Len(Append(s, n)) = Len(s) + 1
           /\ DOMAIN s = 1 .. Len(s) /\ Len(s) \in Nat
           /\ DOMAIN Append(s, n) = 1 .. Len(s) + 1
           /\ \A i \in 1 .. Len(s) : Append(s, n)[i] = s[i]
           /\ Append(s, n)[Len(s) + 1] = n
OBVIOUS

LEMMA TailFacts ==
    ASSUME NEW s \in Seq(1 .. MaxUpdates), s # <<>>
    PROVE  /\ Head(s) = s[1] /\ Head(s) \in 1 .. MaxUpdates
           /\ Tail(s) \in Seq(1 .. MaxUpdates)
           /\ Len(Tail(s)) = Len(s) - 1
           /\ DOMAIN s = 1 .. Len(s) /\ Len(s) \in Nat \ {0}
           /\ DOMAIN Tail(s) = 1 .. Len(s) - 1
           /\ \A i \in 1 .. Len(s) - 1 : Tail(s)[i] = s[i + 1]
OBVIOUS

(* processUpdateQueue sends the number of an update.                       *)
LEMMA QueueSends ==
    ASSUME TypeOK, Numbered, ~Idle("queue")
    PROVE  sending["queue"].n \in Nat
<1>1. sending["queue"] \in Request
  BY DEF TypeOK, Idle, Sender
<1>2. sending["queue"].kind = "progress"
  BY DEF Numbered
<1>3. sending["queue"].n \in 1 .. MaxUpdates
  BY <1>1, <1>2, RequestFields
<1>4. QED
  BY <1>3

LEMMA ReportProgressKeeps == ASSUME Inv, ReportProgress PROVE Inv'
<1>1. /\ reported \in 0 .. MaxUpdates /\ reported < MaxUpdates /\ reported' = reported + 1
      /\ queue \in Seq(1 .. MaxUpdates) /\ Len(queue) <= QueueSize
      /\ reported + 1 \in 1 .. MaxUpdates
  BY DEF ReportProgress, Inv, TypeOK
<1>2. /\ UNCHANGED <<main, worker, tickerVars, closed, sendVars, serverVars>>
      /\ main = "sync"
  BY DEF ReportProgress
<1>3. AckedInOrder' /\ Stored'
  BY <1>2, HistoryKept DEF Inv, sendVars, serverVars
<1>4. QueueOK' /\ Numbered'
  <2>1. CASE queue' = queue
    <3>1. QueueOK'
      BY <1>1, <2>1 DEF QueueOK
    <3>2. UNCHANGED <<queue, sending, acked>> /\ reported' = reported + 1 /\ reported \in Nat
      BY <1>1, <1>2, <2>1 DEF sendVars
    <3>3. \A m \in acked : m \in Nat
      BY DEF Inv, TypeOK
    <3>4. ~Idle("queue") => sending["queue"].n \in Nat
      BY QueueSends DEF Inv
    <3>5. \A i \in DOMAIN queue : queue[i] \in 1 .. MaxUpdates
      BY <1>1
    <3>6. \A x \in Nat : x <= reported => x <= reported'
      BY <3>2
    <3>7. \A m \in acked : m <= reported'
      BY <3>3, <3>6 DEF Inv, Numbered
    <3>8. ~Idle("queue") => sending["queue"].n <= reported'
      BY <3>4, <3>6 DEF Inv, Numbered
    <3>9. \A i \in DOMAIN queue : queue[i] <= reported'
      BY <3>5, <3>6 DEF Inv, Numbered
    <3>10. Numbered'
      BY <3>2, <3>7, <3>8, <3>9 DEF Inv, Numbered, Idle
    <3>11. QED
      BY <3>1, <3>10
  <2>2. CASE Len(queue) < QueueSize /\ queue' = Append(queue, reported + 1)
    <3> DEFINE k == Len(queue) + 1
    <3>1. /\ queue' \in Seq(1 .. MaxUpdates) /\ Len(queue') = k /\ k \in Nat
          /\ DOMAIN queue = 1 .. k - 1 /\ DOMAIN queue' = 1 .. k
          /\ \A i \in 1 .. k - 1 : queue'[i] = queue[i]
          /\ queue'[k] = reported + 1
      BY <1>1, <2>2, AppendFacts
    <3>2. QueueOK'
      BY <1>1, <2>2, <3>1 DEF QueueOK
    <3>3. \A i \in 1 .. k - 1 : queue[i] \in Nat /\ queue[i] <= reported
      <4>1. \A i \in DOMAIN queue : queue[i] \in 1 .. MaxUpdates
        BY <1>1
      <4>2. \A i \in DOMAIN queue : queue[i] <= reported
        BY DEF Inv, Numbered
      <4>3. QED
        BY <3>1, <4>1, <4>2
    <3> HIDE DEF k
    <3>4. \A i \in DOMAIN queue' : queue'[i] <= reported'
      BY <1>1, <3>1, <3>3
    <3>5. \A i, j \in DOMAIN queue' : i < j => queue'[i] < queue'[j]
      <4> SUFFICES ASSUME NEW i \in 1 .. k, NEW j \in 1 .. k, i < j
                   PROVE  queue'[i] < queue'[j]
        BY <3>1
      <4>1. CASE j = k
        BY <1>1, <3>1, <3>3, <4>1
      <4>2. CASE j \in 1 .. k - 1
        <5>1. i \in DOMAIN queue /\ j \in DOMAIN queue
          BY <3>1, <4>2
        <5>2. queue[i] < queue[j]
          BY <5>1 DEF Inv, Numbered
        <5>3. QED
          BY <3>1, <4>2, <5>1, <5>2
      <4>3. QED
        BY <3>1, <4>1, <4>2
    <3>6. \A x \in Nat : x <= reported /\ (\A i \in DOMAIN queue : x < queue[i])
                         => x <= reported' /\ \A i \in DOMAIN queue' : x < queue'[i]
      BY <1>1, <3>1, <3>3
    <3>7. \A m \in acked : m \in Nat
      BY DEF Inv, TypeOK
    <3>8. ~Idle("queue") => sending["queue"].n \in Nat
      BY QueueSends DEF Inv
    <3>9. Numbered'
      <4>1. UNCHANGED <<sending, acked>>
        BY <1>2 DEF sendVars
      <4>2. \A m \in acked : m <= reported' /\ \A i \in DOMAIN queue' : m < queue'[i]
        BY <3>6, <3>7 DEF Inv, Numbered
      <4>3. ~Idle("queue") => /\ sending["queue"].n <= reported'
                              /\ \A i \in DOMAIN queue' : sending["queue"].n < queue'[i]
        BY <3>6, <3>8 DEF Inv, Numbered
      <4>4. QED
        BY <3>4, <3>5, <4>1, <4>2, <4>3 DEF Inv, Numbered, Idle
    <3>10. QED
      BY <3>2, <3>9
  <2>3. QED
    BY <2>1, <2>2 DEF ReportProgress
<1>5. ClientOK' /\ SendOK' /\ ServerOK'
  BY <1>2, TypeParts DEF Inv, ClientOK, SendOK, ServerOK, tickerVars, sendVars, serverVars
<1>6. Started' /\ AgeBound'
  BY <1>2 DEF Inv, Started, AgeBound, Alive, tickerVars, sendVars, serverVars
<1>7. QED
  BY <1>3, <1>4, <1>5, <1>6, TypeParts DEF Inv

LEMMA TakeUpdateKeeps == ASSUME Inv, TakeUpdate PROVE Inv'
<1> DEFINE q == ProgressUpdateRequest(Head(queue))
<1>1. /\ queue # <<>> /\ queue \in Seq(1 .. MaxUpdates) /\ Len(queue) <= QueueSize
      /\ queue' = Tail(queue) /\ Send("queue", q) /\ main # "announce"
      /\ UNCHANGED <<main, worker, tickerVars, closed, reported, serverVars>>
  BY DEF TakeUpdate, Inv, TypeOK, Started
<1>2. /\ Head(queue) = queue[1] /\ Head(queue) \in 1 .. MaxUpdates
      /\ queue' \in Seq(1 .. MaxUpdates) /\ Len(queue') = Len(queue) - 1
      /\ DOMAIN queue = 1 .. Len(queue) /\ Len(queue) \in Nat \ {0}
      /\ DOMAIN queue' = 1 .. Len(queue) - 1
      /\ \A i \in 1 .. Len(queue) - 1 : queue'[i] = queue[i + 1]
  BY <1>1, TailFacts
<1>3. q \in Request /\ q.kind = "progress" /\ q.n = queue[1]
  BY <1>2, NewRequests
<1> HIDE DEF q
<1>4. /\ SendOK' /\ sending'["queue"] = q /\ acked' = acked
      /\ \A h \in {"main", "keepalive"} : sending'[h] = sending[h]
  BY <1>1, <1>3, SendEffect, TypeParts DEF Inv, Sender
<1>5. AckedInOrder' /\ Stored'
  BY <1>1, <1>4, HistoryKept DEF Inv, serverVars
<1>6. QueueOK'
  BY <1>1, <1>2, TypeParts DEF Inv, QueueOK
<1>7. Numbered'
  <2>1. \A i \in DOMAIN queue' : i + 1 \in DOMAIN queue /\ queue'[i] = queue[i + 1]
    BY <1>2
  <2> DEFINE D == 1 .. Len(queue) - 1
  <2>8. \A i, j \in DOMAIN queue : i < j => queue[i] < queue[j]
    BY DEF Inv, Numbered
  <2>9. \A i \in DOMAIN queue : queue[i] <= reported
    BY DEF Inv, Numbered
  <2>2. \A i, j \in DOMAIN queue' : i < j => queue'[i] < queue'[j]
    <3>1. \A i, j \in D : i < j => i + 1 \in DOMAIN queue /\ j + 1 \in DOMAIN queue /\ i + 1 < j + 1
      BY <1>2
    <3>2. QED
      BY <1>2, <2>1, <2>8, <3>1
  <2>3. \A i \in DOMAIN queue' : q.n < queue'[i] /\ queue'[i] <= reported
    <3>1. \A i \in D : 1 \in DOMAIN queue /\ i + 1 \in DOMAIN queue /\ 1 < i + 1
      BY <1>2
    <3>2. QED
      BY <1>2, <1>3, <2>1, <2>8, <2>9, <3>1
  <2>4. q.n <= reported
    BY <1>2, <1>3 DEF Inv, Numbered
  <2>5. \A m \in acked : /\ m <= reported /\ m < q.n
                         /\ \A i \in DOMAIN queue' : m < queue'[i]
    BY <1>2, <1>3, <2>1 DEF Inv, Numbered
  <2>6. \A h \in {"main", "keepalive"} : sending'[h] # Nothing => sending'[h].kind # "progress"
    BY <1>4 DEF Inv, Numbered, Idle
  <2>7. QED
    BY <1>1, <1>3, <1>4, <2>2, <2>3, <2>4, <2>5, <2>6 DEF Numbered, Idle
<1>8. ClientOK' /\ ServerOK'
  BY <1>1, TypeParts DEF Inv, ClientOK, ServerOK, tickerVars, serverVars
<1>9. Started' /\ AgeBound'
  BY <1>1 DEF Inv, Started, AgeBound, Alive, tickerVars, serverVars
<1>10. QED
  BY <1>4, <1>5, <1>6, <1>7, <1>8, <1>9, TypeParts DEF Inv

LEMMA WorkerReturnsKeeps == ASSUME Inv, WorkerReturns PROVE Inv'
<1>1. UNCHANGED <<main, tickerVars, closed, queueVars, sendVars, serverVars>> /\ worker' = FALSE
  BY DEF WorkerReturns
<1>2. AckedInOrder' /\ Stored' /\ Numbered'
  BY <1>1, HistoryKept, NumberedKept DEF Inv, sendVars, queueVars, serverVars
<1>3. ClientOK' /\ QueueOK' /\ SendOK' /\ ServerOK'
  BY <1>1, TypeParts DEF Inv, ClientOK, QueueOK, SendOK, ServerOK, tickerVars, queueVars,
     sendVars, serverVars
<1>4. Started' /\ AgeBound'
  BY <1>1 DEF Inv, Started, AgeBound, Alive, Idle, tickerVars, queueVars, sendVars, serverVars
<1>5. QED
  BY <1>2, <1>3, <1>4, TypeParts DEF Inv

-----------------------------------------------------------------------------
(* The ticker, time, and the server by itself.                             *)

LEMMA TickKeeps == ASSUME Inv, Tick PROVE Inv'
<1>1. /\ ticker = "on" /\ sinceTick = KeepaliveEvery /\ Send("keepalive", NewKeepalive)
      /\ sinceTick' = 0 /\ lost' = IF lost < LostCap THEN lost + 1 ELSE lost
      /\ UNCHANGED <<main, worker, ticker, closed, queueVars, server, age, history>>
      /\ main # "announce"
  BY DEF Tick, Inv, Started
<1>2. AckedInOrder' /\ Stored' /\ Numbered' /\ SendOK' /\ QueueOK'
  BY <1>1, OtherSendKeeps, NewRequests
<1>3. lost \in 0 .. 3 /\ LostCap = 3 /\ age \in Nat /\ lost' \in 0 .. 3
  BY <1>1 DEF Inv, TypeOK, LostCap, AgeCap
<1>4. ClientOK' /\ ServerOK'
  BY <1>1, <1>3, TypeParts DEF Inv, ClientOK, ServerOK
<1>5. Started'
  BY <1>1 DEF Inv, Started
<1>6. AgeBound'
  BY <1>1, <1>3 DEF Inv, AgeBound, Alive
<1>7. QED
  BY <1>2, <1>4, <1>5, <1>6, TypeParts DEF Inv

LEMMA KeepaliveReturnsKeeps == ASSUME Inv, KeepaliveReturns PROVE Inv'
<1>1. /\ UNCHANGED <<main, worker, closed, queueVars, sendVars, serverVars>>
      /\ ticker = "on" /\ ticker' = "ended" /\ sinceTick' = 0 /\ closed
  BY DEF KeepaliveReturns
<1>2. AckedInOrder' /\ Stored' /\ Numbered'
  BY <1>1, HistoryKept, NumberedKept DEF Inv, sendVars, queueVars, serverVars
<1>3. ClientOK' /\ QueueOK' /\ SendOK' /\ ServerOK'
  BY <1>1, TypeParts DEF Inv, ClientOK, QueueOK, SendOK, ServerOK, queueVars, sendVars,
     serverVars
<1>4. Started' /\ AgeBound'
  BY <1>1 DEF Inv, Started, AgeBound, Alive, Idle, queueVars, sendVars, serverVars
<1>5. QED
  BY <1>2, <1>3, <1>4, TypeParts DEF Inv

LEMMA TimePassesKeeps == ASSUME Inv, TimePasses PROVE Inv'
<1>1. /\ ticker = "on" /\ ~closed => sinceTick < KeepaliveEvery
      /\ sinceTick' = IF ticker = "on" /\ ~closed THEN sinceTick + 1 ELSE sinceTick
      /\ sending' = [g \in Sender |-> IF SendsKeepalive(g)
                                       THEN [sending[g] EXCEPT !.old = 1]
                                       ELSE sending[g]]
      /\ age' = IF server = "running" THEN Older(age) ELSE age
      /\ UNCHANGED <<main, worker, ticker, closed, queueVars, body, acked, late,
                     server, history, lost>>
  BY DEF TimePasses
<1>2. age \in 0 .. AgeCap /\ AgeCap \in Nat /\ sinceTick \in 0 .. KeepaliveEvery
  BY DEF Inv, TypeOK, AgeCap
<1>3. age' \in 0 .. AgeCap /\ age' <= age + 1
  BY <1>1, <1>2 DEF Older
<1>4. AckedInOrder' /\ Stored'
  BY <1>1, HistoryKept DEF Inv
<1>5. ASSUME NEW g \in Sender
      PROVE  /\ sending'[g] \in Request \cup {Nothing}
             /\ sending'[g] = sending[g] \/ (~Idle(g) /\ sending[g].kind = "keepalive")
             /\ ~Idle(g) /\ sending[g].kind = "keepalive" =>
                   sending'[g] \in Request /\ sending'[g].kind = "keepalive"
  <2>1. sending[g] \in Request \cup {Nothing}
    BY DEF Inv, TypeOK
  <2>2. CASE SendsKeepalive(g)
    <3>1. sending[g] \in Request /\ sending[g].kind = "keepalive" /\ ~Idle(g)
      BY <2>1, <2>2 DEF SendsKeepalive, Idle
    <3>2. sending'[g] = [sending[g] EXCEPT !.old = 1]
      BY <1>1, <2>2
    <3>3. [sending[g] EXCEPT !.old = 1].kind = "keepalive"
      BY <3>1 DEF Request, Keepalive, Progress, Completion
    <3>4. QED
      BY <3>1, <3>2, <3>3, RequestFields
  <2>3. CASE ~SendsKeepalive(g)
    <3>1. sending'[g] = sending[g]
      BY <1>1, <2>3
    <3>2. ~(~Idle(g) /\ sending[g].kind = "keepalive")
      BY <2>3 DEF SendsKeepalive
    <3>3. QED
      BY <2>1, <3>1, <3>2
  <2>4. QED
    BY <2>2, <2>3
<1>6. SendOK'
  <2>1. sending' \in [Sender -> Request \cup {Nothing}]
    BY <1>1, <1>5
  <2>2. QED
    BY <1>1, <2>1, TypeParts DEF Inv, SendOK
<1>7. Numbered'
  <2>1. sending'["queue"] = sending["queue"]
    BY <1>5 DEF Inv, Numbered, Sender
  <2>2. \A h \in {"main", "keepalive"} : sending'[h] # Nothing => sending'[h].kind # "progress"
    BY <1>5 DEF Inv, Numbered, Idle, Sender
  <2>3. QED
    BY <1>1, <2>1, <2>2 DEF Inv, Numbered, Idle, queueVars
<1>8. ClientOK' /\ QueueOK' /\ ServerOK'
  BY <1>1, <1>2, <1>3, TypeParts DEF Inv, ClientOK, QueueOK, ServerOK, queueVars
<1>9. Started'
  BY <1>1, <1>5 DEF Inv, Started, Idle, queueVars
<1>10. AgeBound'
  <2>1. Alive' => Alive /\ ticker = "on" /\ ~closed
    BY <1>1, TypeParts DEF Alive, Inv, Started, ClientOK
  <2>2. QED
    BY <1>1, <1>2, <1>3, <2>1 DEF Inv, AgeBound
<1>11. QED
  BY <1>4, <1>6, <1>7, <1>8, <1>9, <1>10, TypeParts DEF Inv

LEMMA ServerKeeps == ASSUME Inv, Server PROVE Inv'
<1>1. CASE MarkOrphanedTests
  <2>1. /\ UNCHANGED <<main, worker, tickerVars, closed, queueVars, sendVars, history, lost>>
        /\ server = "running" /\ server' = "orphaned" /\ age' = 0
    BY <1>1 DEF MarkOrphanedTests
  <2>2. AckedInOrder' /\ Stored'
    BY <2>1 DEF Inv, AckedInOrder, Stored, sendVars
  <2>3. Numbered'
    BY <2>1, NumberedKept DEF Inv, sendVars, queueVars
  <2>4. ClientOK' /\ QueueOK' /\ SendOK' /\ ServerOK'
    BY <2>1, TypeParts DEF Inv, ClientOK, QueueOK, SendOK, ServerOK, tickerVars, queueVars,
       sendVars, AgeCap
  <2>5. Started' /\ AgeBound'
    BY <2>1 DEF Inv, Started, AgeBound, Alive, tickerVars, queueVars, sendVars
  <2>6. QED
    BY <2>2, <2>3, <2>4, <2>5, TypeParts DEF Inv
<1>2. CASE Forget
  <2>1. /\ UNCHANGED <<main, worker, tickerVars, closed, queueVars, sending, body, late, lost>>
        /\ server' = "absent" /\ age' = 0 /\ history' = <<>> /\ acked' = {}
    BY <1>2 DEF Forget
  <2>2. AckedInOrder' /\ Stored'
    BY <2>1 DEF AckedInOrder, Stored
  <2>3. Numbered'
    BY <2>1, NumberedKept DEF Inv, queueVars
  <2>4. ClientOK' /\ QueueOK' /\ SendOK'
    BY <2>1, TypeParts DEF Inv, ClientOK, QueueOK, SendOK, tickerVars, queueVars
  <2>5. ServerOK'
    BY <2>1, TypeParts DEF Inv, ServerOK, AgeCap
  <2>6. Started' /\ AgeBound'
    BY <2>1 DEF Inv, Started, AgeBound, Idle, tickerVars, queueVars
  <2>7. QED
    BY <2>2, <2>3, <2>4, <2>5, <2>6, TypeParts DEF Inv
<1>3. QED
  BY <1>1, <1>2 DEF Server

-----------------------------------------------------------------------------
LEMMA InvInit == Init => Inv
<1> SUFFICES ASSUME Init PROVE Inv
  OBVIOUS
<1>1. ClientOK
  <2>1. worker \in BOOLEAN /\ closed \in BOOLEAN
    BY DEF Init
  <2>2. /\ main \in {"announce", "inspect", "sync", "finish", "ended"}
        /\ ticker \in {"off", "on", "ended"}
        /\ sinceTick \in 0 .. KeepaliveEvery
    BY DEF Init
  <2>3. QED
    BY <2>1, <2>2 DEF ClientOK
<1>2. QueueOK
  BY DEF Init, QueueOK
<1>3. SendOK
  BY DEF Init, SendOK
<1>4. ServerOK
  BY DEF Init, ServerOK, AgeCap, LostCap
<1>5. AckedInOrder /\ Stored /\ Started /\ AgeBound
  BY DEF Init, AckedInOrder, Stored, Started, AgeBound, Idle
<1>6. Numbered
  BY DEF Init, Numbered, Idle, Sender
<1>7. QED
  BY <1>1, <1>2, <1>3, <1>4, <1>5, <1>6, TypeParts DEF Inv

LEMMA InvStep == Inv /\ [Next]_vars => Inv'
<1> SUFFICES ASSUME Inv, [Next]_vars PROVE Inv'
  OBVIOUS
<1>1. CASE Main
  BY <1>1, KeepAliveKeeps, ReportProgressKeeps, CompleteKeeps DEF Main
<1>2. CASE Network
  BY <1>2, AttemptKeeps, SendingKeeps, LateArrivalKeeps DEF Network
<1>3. CASE UNCHANGED vars
  <2>1. AckedInOrder' /\ Stored' /\ Numbered'
    BY <1>3, HistoryKept, NumberedKept DEF Inv, vars
  <2>2. TypeOK'
    BY <1>3 DEF Inv, TypeOK, vars
  <2>3. Started' /\ AgeBound'
    BY <1>3 DEF Inv, Started, AgeBound, Alive, Idle, vars
  <2>4. QED
    BY <2>1, <2>2, <2>3 DEF Inv
<1>4. QED
  BY <1>1, <1>2, <1>3, StopKeeps, EndProcessKeeps, TakeUpdateKeeps, WorkerReturnsKeeps,
     TickKeeps, KeepaliveReturnsKeeps, ServerKeeps, TimePassesKeeps DEF Next

(* The inductive invariant holds in every state of the client and server.  *)
THEOREM InvHolds == Spec => []Inv
BY InvInit, InvStep, PTL DEF Spec

(* Every variable of the reporting client and its server keeps its type,   *)
(* and updateQueue its capacity.                                           *)
THEOREM TypeCorrect == Spec => []TypeOK
<1>1. Inv => TypeOK
  BY DEF Inv
<1>2. QED
  BY <1>1, InvHolds, PTL

(* The updates sendRequest was told are stored are in the server's history *)
(* in the order they were collected, whatever was repeated, given up on or *)
(* came late in between.                                                   *)
THEOREM AckedStayInOrder == Spec => []AckedInOrder
<1>1. Inv => AckedInOrder
  BY DEF Inv
<1>2. QED
  BY <1>1, InvHolds, PTL

(* MarkOrphanedTests gives up on a test whose process lives only after     *)
(* three keepalives in a row were lost.                                    *)
THEOREM LiveTestsAreKept == Spec => KeptAlive
<1>1. Inv /\ [Next]_vars => [server = "running" /\ server' = "orphaned" /\ Alive => lost >= LostCap]_vars
  <2> SUFFICES ASSUME Inv, Next, server = "running", server' = "orphaned", Alive
               PROVE  lost >= LostCap
    OBVIOUS
  <2>1. CASE MarkOrphanedTests
    <3>1. age > OrphanAge
      BY <2>1 DEF MarkOrphanedTests
    <3>2. /\ lost \in 0 .. 3 /\ age \in Nat /\ sinceTick \in 0 .. KeepaliveEvery /\ LostCap = 3
      BY DEF Inv, TypeOK, AgeCap, LostCap
    <3>3. QED
      BY <3>1, <3>2 DEF Inv, AgeBound
  <2>2. CASE Network
    <3>1. ASSUME NEW q \in Request, NEW code, Handle(q, code)
          PROVE  FALSE
      BY <3>1 DEF Handle, HandleTestKeepalive, HandleTestProgress, HandleTestComplete, serverVars
    <3>2. ASSUME NEW g \in Sender, Attempt(g)
          PROVE  FALSE
      BY <3>1, <3>2 DEF Attempt, Inv, TypeOK, Idle
    <3>3. ASSUME NEW g \in Sender, AttemptGoesAstray(g) \/ AttemptRefused(g) \/ GiveUp(g)
          PROVE  FALSE
      BY <3>3 DEF AttemptGoesAstray, AttemptRefused, GiveUp, serverVars
    <3>4. ASSUME NEW q \in late, LateArrival(q)
          PROVE  FALSE
      BY <3>1, <3>4 DEF LateArrival, Inv, TypeOK, serverVars
    <3>5. QED
      BY <2>2, <3>2, <3>3, <3>4 DEF Network
  <2>3. CASE Forget
    BY <2>3 DEF Forget
  <2>4. CASE Main \/ TakeUpdate
    BY <2>4 DEF Main, ReportTestKeepAlive, ReportProgress, ReportTestComplete, TakeUpdate,
       serverVars
  <2>5. CASE Stop \/ EndProcess \/ WorkerReturns \/ Tick \/ KeepaliveReturns \/ TimePasses
    BY <2>5 DEF Stop, EndProcess, WorkerReturns, Tick, KeepaliveReturns, TimePasses, serverVars
  <2>6. QED
    BY <2>1, <2>2, <2>3, <2>4, <2>5 DEF Next, Server
<1>2. QED
  BY <1>1, InvHolds, PTL DEF Spec, KeptAlive

=============================================================================
