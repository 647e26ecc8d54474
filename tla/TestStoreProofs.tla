-------------------------- MODULE TestStoreProofs --------------------------
(***************************************************************************)
(* What TestStore guarantees for every set of runs, handlers and metrics   *)
(* and every value of its time constants that meets TimesAssumption.       *)
(***************************************************************************)
EXTENDS TestStore, TLAPS

-----------------------------------------------------------------------------
(* The store's operations.                                                 *)

(* trimHistory returns a history of the same points and of legal length.   *)
LEMMA TrimHistoryType ==
    ASSUME NEW s \in Seq(Metric)
    PROVE  /\ TrimHistory(s) \in Seq(Metric)
           /\ Len(TrimHistory(s)) <= MaxHistory
<1>1. MaxHistory \in Nat \ {0} /\ Len(s) \in Nat
  BY SizesAssumption
<1>2. CASE Len(s) > MaxHistory
  <2>1. TrimHistory(s) = SubSeq(s, Len(s) - MaxHistory + 1, Len(s))
    BY <1>2 DEF TrimHistory
  <2>2. QED
    BY <1>1, <1>2, <2>1
<1>3. CASE ~(Len(s) > MaxHistory)
  BY <1>1, <1>3 DEF TrimHistory
<1>4. QED
  BY <1>2, <1>3

(* trimHistory keeps the newest point.                                     *)
LEMMA TrimHistoryLast ==
    ASSUME NEW s \in Seq(Metric), s # <<>>
    PROVE  /\ TrimHistory(s) # <<>>
           /\ TrimHistory(s)[Len(TrimHistory(s))] = s[Len(s)]
<1>1. MaxHistory \in Nat \ {0} /\ Len(s) \in Nat \ {0}
  BY SizesAssumption
<1>2. CASE Len(s) > MaxHistory
  <2>1. TrimHistory(s) = SubSeq(s, Len(s) - MaxHistory + 1, Len(s))
    BY <1>2 DEF TrimHistory
  <2>2. Len(TrimHistory(s)) = MaxHistory
    BY <1>1, <1>2, <2>1
  <2>3. TrimHistory(s)[MaxHistory] = s[Len(s)]
    BY <1>1, <1>2, <2>1
  <2>4. QED
    BY <1>1, <2>2, <2>3
<1>3. CASE ~(Len(s) > MaxHistory)
  BY <1>1, <1>3 DEF TrimHistory
<1>4. QED
  BY <1>2, <1>3

(* The fields of a request.                                                *)
LEMMA RequestType ==
    ASSUME NEW q \in Request
    PROVE  /\ q.run \in Run
           /\ q.stamp \in -Skew .. Skew
           /\ q.info \subseteq Field
           /\ q.error \in {"", "failed"}
           /\ q.kind \in {"keepalive", "progress", "complete"}
           /\ q.kind = "progress" => q.metrics \in Metric
<1>1. 0 \in -Skew .. Skew
  BY TimesAssumption
<1>2. QED
  BY <1>1 DEF Request, TestKeepaliveRequest, ProgressUpdateRequest,
              TestCompleteRequest

(* A put changes one entry and leaves the others alone.                    *)
LEMMA PutEffect ==
    ASSUME TypeOK, NEW r \in Run, NEW t, Put(r, t)
    PROVE  /\ DOMAIN tests' = DOMAIN tests \cup {r}
           /\ tests'[r] = t
           /\ \A x \in DOMAIN tests \ {r} : tests'[x] = tests[x]
           /\ tests' = [x \in DOMAIN tests' |-> tests'[x]]
BY DEF Put

LEMMA DropEffect ==
    ASSUME TypeOK, NEW S, Drop(S)
    PROVE  /\ DOMAIN tests' = DOMAIN tests \ S
           /\ \A x \in DOMAIN tests' : tests'[x] = tests[x]
           /\ tests' = [x \in DOMAIN tests' |-> tests'[x]]
BY DEF Drop

-----------------------------------------------------------------------------
(* The inductive invariant.                                                *)

(* What the type, status and metrics invariants say of one test.           *)
Sound(t) ==
    /\ t \in TestData
    /\ Len(t.history) <= MaxHistory
    /\ t.isComplete => ~t.isRunning /\ t.error # "orphaned"
    /\ t.isRunning => t.error = ""
    /\ ~t.isRunning /\ ~t.isComplete => t.error = "orphaned"
    /\ t.currentMetrics = IF t.history = <<>> THEN NoMetrics
                                              ELSE t.history[Len(t.history)]

TestsSound == \A r \in DOMAIN tests : Sound(tests[r])

(* Only an idle handler has no request, and only the keepalive handler     *)
(* comes back to create a test.                                            *)
HandlersCoherent ==
    \A h \in Handler :
        /\ pc[h] # "idle" => req[h] \in Request
        /\ pc[h] = "create" => req[h].kind = "keepalive"

(* AckedIsStored is not inductive: the test must also be too young for the *)
(* sweep to take it before the answer is out.                              *)
AckedIsRecent ==
    \A h \in Handler : Acked(h) =>
        /\ req[h].run \in DOMAIN tests
        /\ tests[req[h].run].age <= Skew

IInv ==
    /\ TypeOK
    /\ TestsSound
    /\ HandlersCoherent
    /\ AckedIsRecent
    /\ AckedIsStored
    /\ RunningIsFresh
    /\ AgeTracksSilence

(* A method of the store that accepts a request.                           *)
Accept(q) ==
    \/ CreateTest(q)
    \/ UpdateTestKeepalive(q)
    \/ q.kind = "progress" /\ UpdateProgress(q)
    \/ CompleteTest(q)

(* What an accepted request does to the store.                             *)
LEMMA AcceptEffect ==
    ASSUME TypeOK, TestsSound, NEW q \in Request, Accept(q)
    PROVE  /\ DOMAIN tests' = DOMAIN tests \cup {q.run}
           /\ \A x \in DOMAIN tests \ {q.run} : tests'[x] = tests[x]
           /\ tests' = [x \in DOMAIN tests' |-> tests'[x]]
           /\ Sound(tests'[q.run])
           /\ tests'[q.run].age \in -Skew .. Skew
           /\ q.run \in DOMAIN tests =>
                /\ tests[q.run].info \subseteq tests'[q.run].info
                /\ tests[q.run].isComplete =>
                     /\ tests'[q.run].isComplete
                     /\ tests'[q.run].history = tests[q.run].history
                     /\ tests'[q.run].info = tests[q.run].info
                /\ tests'[q.run].isRunning => tests[q.run].isRunning
           /\ heard' = [heard EXCEPT ![q.run] = 0]
<1> DEFINE r == q.run
<1>1. /\ r \in Run /\ q.stamp \in -Skew .. Skew /\ q.info \subseteq Field
      /\ q.error \in {"", "failed"}
      /\ q.kind = "progress" => q.metrics \in Metric
  BY RequestType
<1>2. Skew \in Nat /\ MaxAge \in Nat /\ Skew <= MaxAge
  BY TimesAssumption
<1>3. -Skew .. Skew \subseteq Age /\ 0 \in Age
  BY <1>2 DEF Age, AgeCap
<1>4. CASE CreateTest(q)
  <2> DEFINE t == [isRunning |-> TRUE, isComplete |-> FALSE, error |-> "",
                   age |-> q.stamp, info |-> q.info,
                   currentMetrics |-> NoMetrics, history |-> <<>>]
  <2>1. Put(r, t) /\ r \notin DOMAIN tests /\ heard' = [heard EXCEPT ![r] = 0]
    BY <1>4 DEF CreateTest, Hear
  <2>2. <<>> \in Seq(Metric) /\ Len(<<>>) = 0 /\ 0 <= MaxHistory
    BY SizesAssumption
  <2>3. t \in TestData
    BY <1>1, <1>3, <2>2 DEF TestData
  <2>4. Sound(t) /\ t.age = q.stamp
    BY <2>2, <2>3 DEF Sound
  <2> HIDE DEF t
  <2>5. QED
    BY <1>1, <2>1, <2>4, PutEffect
<1>5. CASE UpdateTestKeepalive(q)
  <2> DEFINE t == [tests[r] EXCEPT !.age = q.stamp, !.info = @ \cup q.info]
  <2>1. /\ Put(r, t) /\ r \in DOMAIN tests /\ ~tests[r].isComplete
        /\ heard' = [heard EXCEPT ![r] = 0]
    BY <1>5 DEF UpdateTestKeepalive, Hear
  <2>2. Sound(tests[r])
    BY <2>1 DEF TestsSound
  <2>3. Sound(t) /\ t.age = q.stamp /\ tests[r].info \subseteq t.info
        /\ t.isRunning = tests[r].isRunning
    BY <1>1, <1>3, <2>2 DEF Sound, TestData
  <2>4. QED
    BY <1>1, <2>1, <2>3, PutEffect
<1>6. CASE q.kind = "progress" /\ UpdateProgress(q)
  <2> DEFINE t == [tests[r] EXCEPT
                     !.age = 0, !.currentMetrics = q.metrics,
                     !.history = TrimHistory(Append(@, q.metrics))]
  <2>1. /\ Put(r, t) /\ r \in DOMAIN tests /\ ~tests[r].isComplete
        /\ heard' = [heard EXCEPT ![r] = 0]
    BY <1>6 DEF UpdateProgress, Hear
  <2>2. Sound(tests[r])
    BY <2>1 DEF TestsSound
  <2> DEFINE s == Append(tests[r].history, q.metrics)
  <2>3. tests[r] \in TestData /\ tests[r].history \in Seq(Metric) /\ q.metrics \in Metric
    BY <1>1, <1>6, <2>2 DEF Sound, TestData
  <2>4. s \in Seq(Metric) /\ s # <<>> /\ s[Len(s)] = q.metrics
    BY <2>3
  <2> HIDE DEF s
  <2>5. /\ TrimHistory(s) \in Seq(Metric)
        /\ Len(TrimHistory(s)) <= MaxHistory
        /\ TrimHistory(s) # <<>>
        /\ TrimHistory(s)[Len(TrimHistory(s))] = q.metrics
    BY <2>4, TrimHistoryType, TrimHistoryLast
  <2>6. /\ t = [tests[r] EXCEPT !.age = 0, !.currentMetrics = q.metrics,
                                !.history = TrimHistory(s)]
        /\ t.age = 0 /\ t.info = tests[r].info /\ t.isRunning = tests[r].isRunning
        /\ t.isComplete = tests[r].isComplete /\ t.error = tests[r].error
        /\ t.currentMetrics = q.metrics /\ t.history = TrimHistory(s)
    BY <2>3 DEF TestData, s
  <2>7. t \in TestData
    BY <1>3, <2>3, <2>5, <2>6 DEF TestData
  <2> HIDE DEF t
  <2>8. Sound(t)
    BY <2>2, <2>5, <2>6, <2>7 DEF Sound
  <2>9. /\ DOMAIN tests' = DOMAIN tests \cup {r}
        /\ tests'[r] = t
        /\ \A x \in DOMAIN tests \ {r} : tests'[x] = tests[x]
        /\ tests' = [x \in DOMAIN tests' |-> tests'[x]]
    BY <1>1, <2>1, PutEffect
  <2>10. 0 \in -Skew .. Skew
    BY <1>2
  <2>11. QED
    BY <2>1, <2>6, <2>8, <2>9, <2>10
<1>7. CASE CompleteTest(q)
  <2> DEFINE t == [tests[r] EXCEPT
                     !.age = q.stamp, !.isRunning = FALSE,
                     !.isComplete = TRUE, !.error = q.error]
  <2>1. Put(r, t) /\ r \in DOMAIN tests /\ heard' = [heard EXCEPT ![r] = 0]
    BY <1>7 DEF CompleteTest, Hear
  <2>2. Sound(tests[r])
    BY <2>1 DEF TestsSound
  <2>3. Sound(t) /\ t.age = q.stamp /\ t.info = tests[r].info /\ ~t.isRunning
        /\ t.isComplete /\ t.history = tests[r].history
    BY <1>1, <1>3, <2>2 DEF Sound, TestData
  <2>4. QED
    BY <1>1, <2>1, <2>3, PutEffect
<1>8. QED
  BY <1>4, <1>5, <1>6, <1>7 DEF Accept

-----------------------------------------------------------------------------
(* The invariant is inductive: one lemma per kind of step.                 *)

LEMMA InitIInv == Init => IInv
<1> SUFFICES ASSUME Init PROVE IInv
  OBVIOUS
<1>1. DOMAIN tests = {} /\ tests = [r \in DOMAIN tests |-> tests[r]]
  BY DEF Init, NewStore
<1>2. AgeCap \in 0 .. AgeCap /\ 0 \in 0 .. TickPeriod /\ 0 \in 0 .. MaxArrivals
  BY TimesAssumption, SizesAssumption DEF AgeCap
<1>3. TypeOK
  BY <1>1, <1>2 DEF Init, NewStore, TypeOK, Status
<1>4. QED
  BY <1>1, <1>3 DEF Init, NewStore, IInv, TestsSound, HandlersCoherent,
     AckedIsRecent, AckedIsStored, Acked, RunningIsFresh, AgeTracksSilence

(* The stored tests and their ages.                                        *)
LEMMA AgeType ==
    ASSUME TypeOK, NEW r \in DOMAIN tests
    PROVE  tests[r] \in TestData /\ tests[r].age \in Age /\ tests[r].age \in Int
<1>1. tests[r] \in TestData
  BY DEF TypeOK
<1>2. tests[r].age \in Age
  BY <1>1 DEF TestData
<1>3. Skew \in Nat /\ MaxAge \in Nat
  BY TimesAssumption
<1>4. QED
  BY <1>1, <1>2, <1>3 DEF Age, AgeCap

(* A handler step that accepts its request.                                *)
LEMMA AcceptStep ==
    ASSUME IInv, NEW h \in Handler, pc[h] \in {"lookup", "create"},
           Accept(req[h]), Goto(h, "reply", 200),
           UNCHANGED <<loopVars, arrivals>>,
           req[h].kind = "complete" => CompleteTest(req[h]),
           req[h].kind = "keepalive" => CreateTest(req[h]) \/ UpdateTestKeepalive(req[h])
    PROVE  IInv'
<1> DEFINE q == req[h]  r == req[h].run
<1>1. q \in Request /\ r \in Run
  BY RequestType DEF IInv, HandlersCoherent
<1>2. /\ DOMAIN tests' = DOMAIN tests \cup {r}
      /\ \A x \in DOMAIN tests \ {r} : tests'[x] = tests[x]
      /\ tests' = [x \in DOMAIN tests' |-> tests'[x]]
      /\ Sound(tests'[r])
      /\ tests'[r].age \in -Skew .. Skew
      /\ r \in DOMAIN tests =>
           /\ tests[r].info \subseteq tests'[r].info
           /\ tests[r].isComplete => tests'[r].isComplete
      /\ heard' = [heard EXCEPT ![r] = 0]
  BY <1>1, AcceptEffect DEF IInv
<1>3. q.kind = "complete" => tests'[r].isComplete
  <2> SUFFICES ASSUME CompleteTest(q) PROVE tests'[r].isComplete
    OBVIOUS
  <2>1. r \in DOMAIN tests
    BY DEF CompleteTest
  <2>2. tests[r] \in TestData
    BY <2>1 DEF IInv, TestsSound, Sound
  <2>3. tests'[r] = [tests[r] EXCEPT !.age = q.stamp, !.isRunning = FALSE,
                                     !.isComplete = TRUE, !.error = q.error]
    BY <1>1, PutEffect DEF CompleteTest, IInv
  <2>4. QED
    BY <2>2, <2>3 DEF TestData
<1>4. q.kind = "keepalive" => q.info \subseteq tests'[r].info
  <2>1. ASSUME CreateTest(q) PROVE q.info \subseteq tests'[r].info
    <3> DEFINE t == [isRunning |-> TRUE, isComplete |-> FALSE, error |-> "",
                     age |-> q.stamp, info |-> q.info,
                     currentMetrics |-> NoMetrics, history |-> <<>>]
    <3>1. Put(r, t) /\ t.info = q.info
      BY <2>1 DEF CreateTest
    <3> HIDE DEF t
    <3>2. tests'[r] = t
      BY <1>1, <3>1, PutEffect DEF IInv
    <3>3. QED
      BY <3>1, <3>2
  <2>2. ASSUME UpdateTestKeepalive(q) PROVE q.info \subseteq tests'[r].info
    <3>1. tests[r] \in TestData
      BY <2>2 DEF IInv, TestsSound, Sound, UpdateTestKeepalive
    <3>2. tests'[r] = [tests[r] EXCEPT !.age = q.stamp, !.info = @ \cup q.info]
      BY <1>1, <2>2, PutEffect DEF UpdateTestKeepalive, IInv
    <3>3. tests'[r].info = tests[r].info \cup q.info
      BY <3>1, <3>2 DEF TestData
    <3>4. QED
      BY <3>3
  <2>3. QED
    BY <2>1, <2>2
<1> HIDE DEF q, r
<1>5. Skew \in Nat /\ MaxAge \in Nat /\ OrphanAge \in Nat /\ TickPeriod \in Nat
  BY TimesAssumption
<1>6. TestsSound'
  BY <1>2 DEF IInv, TestsSound
<1>7. heard' \in [Run -> 0 .. AgeCap] /\ heard'[r] = 0
      /\ \A x \in Run \ {r} : heard'[x] = heard[x]
  BY <1>1, <1>2, <1>5 DEF IInv, TypeOK, AgeCap
<1>8. /\ pc' = [pc EXCEPT ![h] = "reply"] /\ status' = [status EXCEPT ![h] = 200]
      /\ req' = req /\ loop' = loop /\ sinceTick' = sinceTick /\ arrivals' = arrivals
  BY DEF Goto, loopVars
<1>9. TypeOK'
  <2>1. tests' \in [DOMAIN tests' -> TestData] /\ DOMAIN tests' \subseteq Run
        /\ \A x \in DOMAIN tests' : Len(tests'[x].history) <= MaxHistory
    BY <1>1, <1>2, <1>6 DEF TestsSound, Sound, IInv, TypeOK
  <2>2. QED
    BY <1>7, <1>8, <2>1 DEF IInv, TypeOK, Status
<1>10. HandlersCoherent'
  BY <1>8 DEF IInv, HandlersCoherent, TypeOK
<1>11. AckedIsRecent'
  <2> SUFFICES ASSUME NEW g \in Handler, Acked(g)'
               PROVE  req[g].run \in DOMAIN tests' /\ tests'[req[g].run].age <= Skew
    BY <1>8 DEF AckedIsRecent
  <2>1. CASE g = h
    BY <1>2, <1>5, <2>1 DEF r
  <2>2. CASE g # h
    <3>1. Acked(g)
      BY <1>8, <2>2 DEF Acked, IInv, TypeOK
    <3>2. QED
      BY <1>2, <1>5, <3>1 DEF IInv, AckedIsRecent
  <2>3. QED
    BY <2>1, <2>2
<1>12. AckedIsStored'
  <2> SUFFICES ASSUME NEW g \in Handler, Acked(g)'
               PROVE  /\ req[g].run \in DOMAIN tests'
                      /\ req[g].kind = "complete" => tests'[req[g].run].isComplete
                      /\ req[g].kind = "keepalive" =>
                           req[g].info \subseteq tests'[req[g].run].info
    BY <1>8 DEF AckedIsStored
  <2>1. CASE g = h
    BY <1>2, <1>3, <1>4, <2>1 DEF q, r
  <2>2. CASE g # h
    <3>1. Acked(g)
      BY <1>8, <2>2 DEF Acked, IInv, TypeOK
    <3>2. QED
      BY <1>2, <3>1 DEF IInv, AckedIsStored
  <2>3. QED
    BY <2>1, <2>2
<1>13. RunningIsFresh'
  <2>1. sinceTick \in Nat
    BY <1>5 DEF IInv, TypeOK
  <2>2. Skew <= Freshness /\ Freshness \in Nat
    BY <1>5 DEF Freshness
  <2>3. QED
    BY <1>2, <1>5, <1>8, <2>1, <2>2 DEF IInv, RunningIsFresh
<1>14. AgeTracksSilence'
  <2> SUFFICES ASSUME NEW x \in DOMAIN tests'
               PROVE  tests'[x].age - heard'[x] \in -Skew .. Skew
    BY DEF AgeTracksSilence
  <2>1. CASE x = r
    BY <1>2, <1>5, <1>7, <2>1
  <2>2. CASE x # r
    BY <1>2, <1>7, <2>2 DEF IInv, AgeTracksSilence, TypeOK
  <2>3. QED
    BY <2>1, <2>2
<1>15. QED
  BY <1>6, <1>9, <1>10, <1>11, <1>12, <1>13, <1>14 DEF IInv

(* A handler step that leaves the store alone and acknowledges nothing.    *)
LEMMA QuietStep ==
    ASSUME IInv, NEW h \in Handler, UNCHANGED <<storeVars, loopVars>>,
           NEW label \in {"idle", "lookup", "create", "reply"},
           NEW code \in Status \ {200},
           NEW q \in Request \cup {NoRequest},
           label # "idle" => q \in Request,
           label = "create" => q.kind = "keepalive",
           pc' = [pc EXCEPT ![h] = label],
           req' = [req EXCEPT ![h] = q],
           status' = [status EXCEPT ![h] = code],
           arrivals' \in 0 .. MaxArrivals
    PROVE  IInv'
<1>1. tests' = tests /\ heard' = heard /\ loop' = loop /\ sinceTick' = sinceTick
  BY DEF storeVars, loopVars
<1>2. TypeOK'
  BY <1>1 DEF IInv, TypeOK
<1>3. HandlersCoherent'
  BY DEF IInv, HandlersCoherent, TypeOK
<1>4. \A g \in Handler : Acked(g)' => Acked(g) /\ req'[g] = req[g]
  BY DEF IInv, Acked, TypeOK
<1>5. AckedIsRecent' /\ AckedIsStored'
  BY <1>1, <1>4 DEF IInv, AckedIsRecent, AckedIsStored
<1>6. TestsSound' /\ RunningIsFresh' /\ AgeTracksSilence'
  BY <1>1 DEF IInv, TestsSound, RunningIsFresh, AgeTracksSilence
<1>7. QED
  BY <1>2, <1>3, <1>5, <1>6 DEF IInv

(* The same for a step that only answers.                                  *)
LEMMA RefuseStep ==
    ASSUME IInv, NEW h \in Handler, UNCHANGED <<storeVars, loopVars, arrivals>>,
           pc[h] # "idle", NEW label \in {"create", "reply"}, NEW code \in Status \ {200},
           label = "create" => req[h].kind = "keepalive",
           Goto(h, label, code)
    PROVE  IInv'
<1>1. req[h] \in Request
  BY DEF IInv, HandlersCoherent
<1>2. req' = [req EXCEPT ![h] = req[h]]
  BY DEF Goto, IInv, TypeOK
<1>3. arrivals' \in 0 .. MaxArrivals
  BY DEF IInv, TypeOK
<1>4. QED
  BY <1>1, <1>2, <1>3, QuietStep DEF Goto

LEMMA ReceiveStep ==
    ASSUME IInv, NEW h \in Handler, NEW q \in Request, Receive(h, q)
    PROVE  IInv'
<1>1. arrivals' \in 0 .. MaxArrivals
  BY SizesAssumption DEF Receive, IInv, TypeOK
<1>2. 0 \in Status \ {200}
  BY DEF Status
<1>3. QED
  BY <1>1, <1>2, QuietStep DEF Receive

LEMMA RejectStep ==
    ASSUME IInv, NEW h \in Handler, Reject(h)
    PROVE  IInv'
<1>1. 400 \in Status \ {200}
  BY DEF Status
<1>2. QED
  BY <1>1, RefuseStep DEF Reject

LEMMA ServeStep ==
    ASSUME IInv, NEW h \in Handler, Serve(h)
    PROVE  IInv'
<1>1. {0, 400, 500} \subseteq Status \ {200}
  BY DEF Status
<1>2. CASE HandleTestKeepalive(h)
  <2>1. CASE UpdateTestKeepalive(req[h]) /\ Goto(h, "reply", 200)
    BY <1>2, <2>1, AcceptStep DEF HandleTestKeepalive, Accept
  <2>2. CASE Goto(h, "create", 0) /\ UNCHANGED storeVars
    BY <1>1, <1>2, <2>2, RefuseStep DEF HandleTestKeepalive
  <2>3. CASE Goto(h, "reply", 500) /\ UNCHANGED storeVars
    BY <1>1, <1>2, <2>3, RefuseStep DEF HandleTestKeepalive
  <2>4. QED
    BY <1>2, <2>1, <2>2, <2>3 DEF HandleTestKeepalive
<1>3. CASE HandleTestKeepaliveCreate(h)
  <2>1. req[h].kind = "keepalive"
    BY <1>3 DEF HandleTestKeepaliveCreate, IInv, HandlersCoherent
  <2>2. CASE CreateTest(req[h]) /\ Goto(h, "reply", 200)
    BY <1>3, <2>1, <2>2, AcceptStep DEF HandleTestKeepaliveCreate, Accept
  <2>3. CASE Goto(h, "reply", 500) /\ UNCHANGED storeVars
    BY <1>1, <1>3, <2>3, RefuseStep DEF HandleTestKeepaliveCreate
  <2>4. QED
    BY <1>3, <2>2, <2>3 DEF HandleTestKeepaliveCreate
<1>4. CASE HandleTestProgress(h)
  <2>1. CASE UpdateProgress(req[h]) /\ Goto(h, "reply", 200)
    BY <1>4, <2>1, AcceptStep DEF HandleTestProgress, Accept
  <2>2. CASE Goto(h, "reply", 400) /\ UNCHANGED storeVars
    BY <1>1, <1>4, <2>2, RefuseStep DEF HandleTestProgress
  <2>3. CASE Goto(h, "reply", 500) /\ UNCHANGED storeVars
    BY <1>1, <1>4, <2>3, RefuseStep DEF HandleTestProgress
  <2>4. QED
    BY <1>4, <2>1, <2>2, <2>3 DEF HandleTestProgress
<1>5. CASE HandleTestComplete(h)
  <2>1. CASE CompleteTest(req[h]) /\ Goto(h, "reply", 200)
    BY <1>5, <2>1, AcceptStep DEF HandleTestComplete, Accept
  <2>2. CASE Goto(h, "reply", 400) /\ UNCHANGED storeVars
    BY <1>1, <1>5, <2>2, RefuseStep DEF HandleTestComplete
  <2>3. QED
    BY <1>5, <2>1, <2>2 DEF HandleTestComplete
<1>6. CASE Respond(h)
  <2>1. arrivals' \in 0 .. MaxArrivals
    BY <1>6 DEF Respond, IInv, TypeOK
  <2>2. UNCHANGED <<storeVars, loopVars>> /\ NoRequest \in Request \cup {NoRequest}
    BY <1>6 DEF Respond
  <2>3. /\ pc' = [pc EXCEPT ![h] = "idle"]
        /\ req' = [req EXCEPT ![h] = NoRequest]
        /\ status' = [status EXCEPT ![h] = 0]
    BY <1>6 DEF Respond
  <2>4. 0 \in Status \ {200}
    BY DEF Status
  <2> DEFINE label == "idle"
  <2>5. label \in {"idle", "lookup", "create", "reply"} /\ label # "create" /\ ~(label # "idle")
    OBVIOUS
  <2> HIDE DEF label
  <2>6. pc' = [pc EXCEPT ![h] = label]
    BY <2>3 DEF label
  <2>7. QED
    BY <2>1, <2>2, <2>3, <2>4, <2>5, <2>6, QuietStep
<1>7. QED
  BY <1>2, <1>3, <1>4, <1>5, <1>6 DEF Serve

(* Removing tests that no acknowledged request is about.                   *)
LEMMA DropStep ==
    ASSUME IInv, NEW S \in SUBSET DOMAIN tests, Drop(S),
           \A r \in S : tests[r].age > Skew,
           loop' \in {"wait", "mark", "sweep"},
           UNCHANGED <<sinceTick, handlerVars, heard, arrivals>>
    PROVE  IInv'
<1>1. /\ DOMAIN tests' = DOMAIN tests \ S
      /\ \A x \in DOMAIN tests' : tests'[x] = tests[x]
      /\ tests' = [x \in DOMAIN tests' |-> tests'[x]]
  BY DropEffect DEF IInv
<1>2. /\ pc' = pc /\ req' = req /\ status' = status /\ sinceTick' = sinceTick
      /\ heard' = heard /\ arrivals' = arrivals
  BY DEF handlerVars
<1>3. TestsSound'
  BY <1>1 DEF IInv, TestsSound
<1>4. TypeOK'
  <2>1. tests' \in [DOMAIN tests' -> TestData] /\ DOMAIN tests' \subseteq Run
        /\ \A x \in DOMAIN tests' : Len(tests'[x].history) <= MaxHistory
    BY <1>1 DEF IInv, TypeOK
  <2>2. QED
    BY <1>2, <2>1 DEF IInv, TypeOK
<1>5. HandlersCoherent'
  BY <1>2 DEF IInv, HandlersCoherent
<1>6. \A h \in Handler : Acked(h)' =>
        Acked(h) /\ req[h].run \in DOMAIN tests' /\ tests'[req[h].run] = tests[req[h].run]
  <2> SUFFICES ASSUME NEW h \in Handler, Acked(h) PROVE req[h].run \notin S
    BY <1>1, <1>2 DEF Acked, IInv, AckedIsRecent
  <2>1. req[h].run \in DOMAIN tests /\ tests[req[h].run].age <= Skew
    BY DEF IInv, AckedIsRecent
  <2>2. tests[req[h].run].age \in Int /\ Skew \in Int
    BY <2>1, AgeType, TimesAssumption DEF IInv
  <2>3. QED
    BY <2>1, <2>2
<1>7. AckedIsRecent' /\ AckedIsStored'
  BY <1>2, <1>6 DEF IInv, AckedIsRecent, AckedIsStored
<1>8. RunningIsFresh' /\ AgeTracksSilence'
  BY <1>1, <1>2 DEF IInv, RunningIsFresh, AgeTracksSilence
<1>9. QED
  BY <1>3, <1>4, <1>5, <1>7, <1>8 DEF IInv

LEMMA MaintainStep ==
    ASSUME IInv, Maintain
    PROVE  IInv'
<1>1. /\ Skew \in Nat /\ CleanupAge \in Nat /\ MaxAge \in Nat /\ OrphanAge \in Nat
      /\ Skew <= CleanupAge /\ CleanupAge <= MaxAge
  BY TimesAssumption
<1>2. \A r \in DOMAIN tests : tests[r] \in TestData /\ tests[r].age \in Int
  BY AgeType DEF IInv
<1>3. CASE Cleanup
  <2> DEFINE S == {r \in DOMAIN tests : tests[r].age > MaxAge}
  <2>1. \A r \in S : tests[r].age > Skew
    BY <1>1, <1>2
  <2>2. QED
    BY <1>3, <2>1, DropStep DEF Cleanup
<1>4. CASE CleanupOrphanedTests
  <2> DEFINE S == {r \in DOMAIN tests : ~tests[r].isRunning /\ tests[r].age > CleanupAge}
  <2>1. \A r \in S : tests[r].age > Skew
    BY <1>1, <1>2
  <2>2. QED
    BY <1>4, <2>1, DropStep DEF CleanupOrphanedTests
<1>5. CASE MarkOrphanedTests
  <2>1. /\ pc' = pc /\ req' = req /\ status' = status /\ loop' = "sweep"
        /\ sinceTick' = 0 /\ heard' = heard /\ arrivals' = arrivals
    BY <1>5 DEF MarkOrphanedTests, handlerVars
  <2>2. DOMAIN tests' = DOMAIN tests
        /\ tests' = [x \in DOMAIN tests' |-> tests'[x]]
    BY <1>5 DEF MarkOrphanedTests
  <2>3. ASSUME NEW r \in DOMAIN tests
        PROVE  /\ Sound(tests'[r])
               /\ tests'[r].age = tests[r].age
               /\ tests'[r].isComplete = tests[r].isComplete
               /\ tests'[r].info = tests[r].info
               /\ tests'[r].isRunning => tests[r].age <= OrphanAge
    <3>1. Sound(tests[r]) /\ tests[r] \in TestData
      BY <1>2 DEF IInv, TestsSound
    <3>2. CASE Silent(tests[r])
      <4>1. tests'[r] = [tests[r] EXCEPT !.isRunning = FALSE, !.error = "orphaned"]
        BY <1>5, <3>2 DEF MarkOrphanedTests
      <4>2. QED
        BY <3>1, <3>2, <4>1 DEF Sound, TestData, Silent
    <3>3. CASE ~Silent(tests[r])
      <4>1. tests'[r] = tests[r]
        BY <1>5, <3>3 DEF MarkOrphanedTests
      <4>2. tests[r].isRunning => ~(tests[r].age > OrphanAge)
        BY <3>1, <3>3 DEF Sound, Silent
      <4>3. QED
        BY <1>1, <1>2, <3>1, <4>1, <4>2
    <3>4. QED
      BY <3>2, <3>3
  <2>4. TestsSound'
    BY <2>2, <2>3 DEF TestsSound
  <2>5. TypeOK'
    <3>1. tests' \in [DOMAIN tests' -> TestData]
          /\ \A x \in DOMAIN tests' : Len(tests'[x].history) <= MaxHistory
      BY <2>2, <2>3 DEF Sound
    <3>2. 0 \in 0 .. TickPeriod
      BY TimesAssumption
    <3>3. QED
      BY <2>1, <2>2, <3>1, <3>2 DEF IInv, TypeOK
  <2>6. HandlersCoherent'
    BY <2>1 DEF IInv, HandlersCoherent
  <2>7. AckedIsRecent' /\ AckedIsStored'
    BY <2>1, <2>2, <2>3 DEF IInv, AckedIsRecent, AckedIsStored, Acked
  <2>8. RunningIsFresh'
    BY <1>1, <1>2, <2>1, <2>2, <2>3 DEF RunningIsFresh, Freshness
  <2>9. AgeTracksSilence'
    BY <2>1, <2>2, <2>3 DEF IInv, AgeTracksSilence
  <2>10. QED
    BY <2>4, <2>5, <2>6, <2>7, <2>8, <2>9 DEF IInv
<1>6. QED
  BY <1>3, <1>4, <1>5 DEF Maintain

LEMMA TimePassesStep ==
    ASSUME IInv, TimePasses
    PROVE  IInv'
<1>1. /\ Skew \in Nat /\ MaxAge \in Nat /\ OrphanAge \in Nat /\ TickPeriod \in Nat
      /\ OrphanAge + TickPeriod <= MaxAge /\ Skew + TickPeriod <= MaxAge
  BY TimesAssumption
<1>2. /\ pc' = pc /\ req' = req /\ status' = status /\ loop' = loop
      /\ sinceTick' = sinceTick + 1 /\ sinceTick' \in 0 .. TickPeriod
      /\ arrivals' \in 0 .. MaxArrivals
  BY <1>1, SizesAssumption DEF TimePasses, handlerVars, IInv, TypeOK
<1>3. DOMAIN tests' = DOMAIN tests
      /\ tests' = [x \in DOMAIN tests' |-> tests'[x]]
  BY DEF TimePasses
<1>4. ASSUME NEW a \in Age
      PROVE  Older(a) \in Age /\ Older(a) <= a + 1 /\ a <= Older(a)
  BY <1>1 DEF Age, AgeCap, Older
<1>5. ASSUME NEW r \in DOMAIN tests
      PROVE  /\ Sound(tests'[r])
             /\ tests'[r].age = Older(tests[r].age)
             /\ tests'[r].isRunning = tests[r].isRunning
             /\ tests[r].age \in Age
  <2>1. Sound(tests[r]) /\ tests[r] \in TestData /\ tests[r].age \in Age
    BY DEF IInv, TestsSound, Sound, TestData
  <2>2. tests'[r] = [tests[r] EXCEPT !.age = Older(@)]
    BY DEF TimePasses
  <2>3. Older(tests[r].age) \in Age
    BY <1>4, <2>1
  <2>4. QED
    BY <2>1, <2>2, <2>3 DEF Sound, TestData
<1>6. TestsSound'
  BY <1>3, <1>5 DEF TestsSound
<1>7. \A r \in Run : heard'[r] = Older(heard[r]) /\ heard[r] \in 0 .. AgeCap
  BY DEF TimePasses, IInv, TypeOK
<1>8. heard' \in [Run -> 0 .. AgeCap]
  BY <1>1, <1>7 DEF TimePasses, AgeCap, Older
<1>9. TypeOK'
  <2>1. tests' \in [DOMAIN tests' -> TestData]
        /\ \A x \in DOMAIN tests' : Len(tests'[x].history) <= MaxHistory
    BY <1>3, <1>5 DEF Sound
  <2>2. QED
    BY <1>2, <1>3, <1>8, <2>1 DEF IInv, TypeOK
<1>10. HandlersCoherent'
  BY <1>2 DEF IInv, HandlersCoherent
<1>11. AckedIsRecent' /\ AckedIsStored'
  BY <1>2 DEF TimePasses, AckedIsRecent, AckedIsStored, Acked
<1>12. RunningIsFresh'
  <2> SUFFICES ASSUME NEW r \in DOMAIN tests, tests[r].isRunning
               PROVE  tests'[r].age <= Freshness + sinceTick'
    BY <1>3, <1>5 DEF RunningIsFresh
  <2>1. tests[r].age <= Freshness + sinceTick
    BY DEF IInv, RunningIsFresh
  <2>2. tests'[r].age <= tests[r].age + 1 /\ tests[r].age \in Int /\ tests'[r].age \in Int
    BY <1>1, <1>4, <1>5 DEF Age
  <2>3. Freshness \in Int /\ sinceTick \in Int
    BY <1>1 DEF Freshness, IInv, TypeOK
  <2>4. QED
    BY <1>2, <2>1, <2>2, <2>3
<1>13. AgeTracksSilence'
  <2> SUFFICES ASSUME NEW r \in DOMAIN tests
               PROVE  tests'[r].age - heard'[r] \in -Skew .. Skew
    BY <1>3 DEF AgeTracksSilence
  <2>1. /\ tests[r].age \in Age /\ heard[r] \in 0 .. AgeCap
        /\ tests[r].age - heard[r] \in -Skew .. Skew
        /\ tests'[r].age = Older(tests[r].age) /\ heard'[r] = Older(heard[r])
    BY <1>5, <1>7 DEF IInv, AgeTracksSilence, TypeOK
  <2>2. QED
    BY <1>1, <2>1 DEF Age, AgeCap, Older
<1>14. QED
  BY <1>6, <1>9, <1>10, <1>11, <1>12, <1>13 DEF IInv

LEMMA RestartStep ==
    ASSUME IInv, Restart
    PROVE  IInv'
<1>1. DOMAIN tests' = {} /\ tests' = [r \in DOMAIN tests' |-> tests'[r]]
  BY DEF Restart
<1>2. 0 \in 0 .. TickPeriod
  BY TimesAssumption
<1>3. TypeOK'
  BY <1>1, <1>2 DEF Restart, IInv, TypeOK, Status
<1>4. QED
  BY <1>1, <1>3 DEF Restart, IInv, TestsSound, HandlersCoherent,
     AckedIsRecent, AckedIsStored, Acked, RunningIsFresh, AgeTracksSilence

LEMMA NextIInv == IInv /\ [Next]_vars => IInv'
<1> SUFFICES ASSUME IInv, [Next]_vars PROVE IInv'
  OBVIOUS
<1>1. CASE \E h \in Handler : \E q \in Request : Receive(h, q)
  BY <1>1, ReceiveStep
<1>2. CASE \E h \in Handler : Reject(h)
  BY <1>2, RejectStep
<1>3. CASE \E h \in Handler : Serve(h)
  BY <1>3, ServeStep
<1>4. CASE Maintain
  BY <1>4, MaintainStep
<1>5. CASE TimePasses
  BY <1>5, TimePassesStep
<1>6. CASE Restart
  BY <1>6, RestartStep
<1>7. CASE UNCHANGED vars
  BY <1>7 DEF vars, IInv, TypeOK, TestsSound, HandlersCoherent, AckedIsRecent,
     AckedIsStored, Acked, RunningIsFresh, AgeTracksSilence
<1>8. QED
  BY <1>1, <1>2, <1>3, <1>4, <1>5, <1>6, <1>7 DEF Next

THEOREM Invariance == Spec => []IInv
BY InitIInv, NextIInv, PTL DEF Spec

-----------------------------------------------------------------------------
(* Invariants of the specification.                                        *)

(* Every variable keeps its type and no history outgrows maxHistory.       *)
THEOREM TypeCorrect == Spec => []TypeOK
BY Invariance, PTL DEF IInv

LEMMA SoundCoherent == IInv => StatusCoherent /\ MetricsAreLatest
BY DEF IInv, TestsSound, Sound, StatusCoherent, MetricsAreLatest

(* IsRunning, IsComplete and Error of every stored test agree.             *)
THEOREM StatusCoherence == Spec => []StatusCoherent
BY Invariance, SoundCoherent, PTL

(* CurrentMetrics is the newest point of History, trimmed or not.          *)
THEOREM LatestMetrics == Spec => []MetricsAreLatest
BY Invariance, SoundCoherent, PTL

(* A request answered with 200 did take effect and still has it.           *)
THEOREM AcknowledgedIsStored == Spec => []AckedIsStored
BY Invariance, PTL DEF IInv

(* No test is shown as running for longer than a tick past its threshold.  *)
THEOREM BoundedStaleness == Spec => []RunningIsFresh
BY Invariance, PTL DEF IInv

(* LastUpdate tells the server's silence up to the error of the clocks.    *)
THEOREM SilenceMeasured == Spec => []AgeTracksSilence
BY Invariance, PTL DEF IInv

-----------------------------------------------------------------------------
(* What a step may do to a test: the four ways the store changes.          *)

(* The step serves request q.                                              *)
AcceptShape(q) == q \in Request /\ Accept(q)

LEMMA ServeShape ==
    ASSUME IInv, NEW h \in Handler, Serve(h)
    PROVE  UNCHANGED storeVars \/ AcceptShape(req[h])
<1>1. pc[h] # "idle" => req[h] \in Request
  BY DEF IInv, HandlersCoherent
<1>2. CASE HandleTestKeepalive(h)
  BY <1>1, <1>2 DEF HandleTestKeepalive, Accept, AcceptShape
<1>3. CASE HandleTestKeepaliveCreate(h)
  BY <1>1, <1>3 DEF HandleTestKeepaliveCreate, Accept, AcceptShape
<1>4. CASE HandleTestProgress(h)
  BY <1>1, <1>4 DEF HandleTestProgress, Accept, AcceptShape
<1>5. CASE HandleTestComplete(h)
  BY <1>1, <1>5 DEF HandleTestComplete, Accept, AcceptShape
<1>6. CASE Respond(h)
  BY <1>6 DEF Respond
<1>7. QED
  BY <1>2, <1>3, <1>4, <1>5, <1>6 DEF Serve

LEMMA NextShape ==
    ASSUME IInv, [Next]_vars
    PROVE  \/ UNCHANGED storeVars
           \/ \E q \in Request : Accept(q)
           \/ Maintain
           \/ TimePasses
           \/ Restart
<1>1. CASE \E h \in Handler : \E q \in Request : Receive(h, q)
  BY <1>1 DEF Receive
<1>2. CASE \E h \in Handler : Reject(h)
  BY <1>2 DEF Reject
<1>3. CASE \E h \in Handler : Serve(h)
  BY <1>3, ServeShape DEF AcceptShape
<1>4. CASE UNCHANGED vars
  BY <1>4 DEF vars, storeVars
<1>5. QED
  BY <1>1, <1>2, <1>3, <1>4 DEF Next

(* What a time step and a mark step leave of a test.                       *)
LEMMA TimePassesEffect ==
    ASSUME IInv, TimePasses
    PROVE  /\ DOMAIN tests' = DOMAIN tests
           /\ \A r \in DOMAIN tests :
                /\ tests'[r].isRunning = tests[r].isRunning
                /\ tests'[r].isComplete = tests[r].isComplete
                /\ tests'[r].error = tests[r].error
                /\ tests'[r].history = tests[r].history
                /\ tests'[r].info = tests[r].info
<1>1. DOMAIN tests' = DOMAIN tests
  BY DEF TimePasses
<1>2. ASSUME NEW r \in DOMAIN tests
      PROVE  /\ tests'[r].isRunning = tests[r].isRunning
             /\ tests'[r].isComplete = tests[r].isComplete
             /\ tests'[r].error = tests[r].error
             /\ tests'[r].history = tests[r].history
             /\ tests'[r].info = tests[r].info
  <2>1. tests[r] \in TestData
    BY AgeType DEF IInv
  <2>2. tests'[r] = [tests[r] EXCEPT !.age = Older(@)]
    BY DEF TimePasses
  <2>3. QED
    BY <2>1, <2>2 DEF TestData
<1>3. QED
  BY <1>1, <1>2

LEMMA MarkEffect ==
    ASSUME IInv, MarkOrphanedTests
    PROVE  /\ DOMAIN tests' = DOMAIN tests
           /\ \A r \in DOMAIN tests :
                \/ tests'[r] = tests[r]
                \/ /\ Silent(tests[r])
                   /\ ~tests'[r].isRunning
                   /\ ~tests'[r].isComplete
<1>1. DOMAIN tests' = DOMAIN tests
  BY DEF MarkOrphanedTests
<1>2. ASSUME NEW r \in DOMAIN tests, Silent(tests[r])
      PROVE  ~tests'[r].isRunning /\ ~tests'[r].isComplete
  <2>1. tests[r] \in TestData
    BY AgeType DEF IInv
  <2>2. tests'[r] = [tests[r] EXCEPT !.isRunning = FALSE, !.error = "orphaned"]
    BY <1>2 DEF MarkOrphanedTests
  <2>3. QED
    BY <1>2, <2>1, <2>2 DEF TestData, Silent
<1>3. ASSUME NEW r \in DOMAIN tests, ~Silent(tests[r])
      PROVE  tests'[r] = tests[r]
  BY <1>3 DEF MarkOrphanedTests
<1>4. QED
  BY <1>1, <1>2, <1>3

LEMMA CleanupEffect ==
    ASSUME IInv, Cleanup \/ CleanupOrphanedTests
    PROVE  /\ DOMAIN tests' \subseteq DOMAIN tests
           /\ \A r \in DOMAIN tests' : tests'[r] = tests[r]
           /\ \A r \in DOMAIN tests \ DOMAIN tests' :
                ~tests[r].isRunning /\ tests[r].age > CleanupAge
<1>1. CASE CleanupOrphanedTests
  <2> DEFINE S == {r \in DOMAIN tests : ~tests[r].isRunning /\ tests[r].age > CleanupAge}
  <2>1. /\ DOMAIN tests' = DOMAIN tests \ S
        /\ \A r \in DOMAIN tests' : tests'[r] = tests[r]
    BY <1>1, DropEffect DEF CleanupOrphanedTests, IInv
  <2>2. \A r \in S : ~tests[r].isRunning /\ tests[r].age > CleanupAge
    OBVIOUS
  <2> HIDE DEF S
  <2>3. QED
    BY <2>1, <2>2
<1>2. CASE Cleanup
  <2> DEFINE S == {r \in DOMAIN tests : tests[r].age > MaxAge}
  <2>1. /\ DOMAIN tests' = DOMAIN tests \ S
        /\ \A r \in DOMAIN tests' : tests'[r] = tests[r]
    BY <1>2, DropEffect DEF Cleanup, IInv
  <2>2. /\ MaxAge \in Nat /\ CleanupAge \in Nat /\ TickPeriod \in Nat
        /\ Freshness \in Nat /\ Freshness <= CleanupAge
        /\ CleanupAge + TickPeriod <= MaxAge
    BY TimesAssumption DEF Freshness
  <2>3. ASSUME NEW r \in S
        PROVE  ~tests[r].isRunning /\ tests[r].age > CleanupAge
    <3>1. tests[r].age \in Int /\ sinceTick = TickPeriod
      BY <1>2, AgeType DEF IInv, Cleanup
    <3>2. tests[r].age > Freshness + sinceTick
      BY <2>2, <3>1
    <3>3. ~(tests[r].age <= Freshness + sinceTick)
      BY <2>2, <3>1, <3>2
    <3>4. ~tests[r].isRunning
      BY <3>3 DEF IInv, RunningIsFresh
    <3>5. tests[r].age > CleanupAge
      BY <2>2, <3>1
    <3>6. QED
      BY <3>4, <3>5
  <2>4. QED
    BY <2>1, <2>3
<1>3. QED
  BY <1>1, <1>2

(* What an accepted request does to the phase of its test.                 *)
LEMMA AcceptPhase ==
    ASSUME TypeOK, TestsSound, NEW q \in Request, Accept(q)
    PROVE  \/ PhaseOf(q.run)' = PhaseOf(q.run)
           \/ PhaseOf(q.run) = "absent" /\ PhaseOf(q.run)' = "running"
           \/ PhaseOf(q.run) # "absent" /\ PhaseOf(q.run)' = "complete"
<1> DEFINE r == q.run
<1>1. r \in Run
  BY RequestType
<1>2. CASE CreateTest(q)
  <2> DEFINE t == [isRunning |-> TRUE, isComplete |-> FALSE, error |-> "",
                   age |-> q.stamp, info |-> q.info,
                   currentMetrics |-> NoMetrics, history |-> <<>>]
  <2>1. Put(r, t) /\ r \notin DOMAIN tests /\ t.isRunning /\ ~t.isComplete
    BY <1>2 DEF CreateTest
  <2> HIDE DEF t
  <2>2. tests'[r] = t /\ r \in DOMAIN tests'
    BY <1>1, <2>1, PutEffect
  <2>3. QED
    BY <2>1, <2>2 DEF PhaseOf
<1>3. CASE UpdateTestKeepalive(q)
  <2> DEFINE t == [tests[r] EXCEPT !.age = q.stamp, !.info = @ \cup q.info]
  <2>1. Put(r, t) /\ r \in DOMAIN tests
    BY <1>3 DEF UpdateTestKeepalive
  <2>2. t.isRunning = tests[r].isRunning /\ t.isComplete = tests[r].isComplete
    BY <2>1, AgeType DEF TestData
  <2>3. tests'[r] = t /\ r \in DOMAIN tests'
    BY <1>1, <2>1, PutEffect
  <2>4. QED
    BY <2>1, <2>2, <2>3 DEF PhaseOf
<1>4. CASE UpdateProgress(q)
  <2> DEFINE t == [tests[r] EXCEPT
                     !.age = 0, !.currentMetrics = q.metrics,
                     !.history = TrimHistory(Append(@, q.metrics))]
  <2>1. Put(r, t) /\ r \in DOMAIN tests
    BY <1>4 DEF UpdateProgress
  <2>2. t.isRunning = tests[r].isRunning /\ t.isComplete = tests[r].isComplete
    BY <2>1, AgeType DEF TestData
  <2>3. tests'[r] = t /\ r \in DOMAIN tests'
    BY <1>1, <2>1, PutEffect
  <2>4. QED
    BY <2>1, <2>2, <2>3 DEF PhaseOf
<1>5. CASE CompleteTest(q)
  <2> DEFINE t == [tests[r] EXCEPT
                     !.age = q.stamp, !.isRunning = FALSE,
                     !.isComplete = TRUE, !.error = q.error]
  <2>1. Put(r, t) /\ r \in DOMAIN tests
    BY <1>5 DEF CompleteTest
  <2>2. t.isComplete
    BY <2>1, AgeType DEF TestData
  <2>3. tests'[r] = t /\ r \in DOMAIN tests'
    BY <1>1, <2>1, PutEffect
  <2>4. QED
    BY <2>1, <2>2, <2>3 DEF PhaseOf
<1>6. QED
  BY <1>2, <1>3, <1>4, <1>5 DEF Accept

-----------------------------------------------------------------------------
(* Action properties.                                                      *)

(* Nothing reopens a completed test or adds to it.                         *)
THEOREM CompletionFinal == Spec => CompletedIsFinal
<1> DEFINE P == \A r \in DOMAIN tests \cap DOMAIN tests' :
                  tests[r].isComplete =>
                    /\ tests'[r].isComplete
                    /\ tests'[r].history = tests[r].history
                    /\ tests'[r].info = tests[r].info
<1>1. ASSUME IInv, [Next]_vars PROVE P
  <2>1. CASE UNCHANGED storeVars
    BY <2>1 DEF storeVars
  <2>2. CASE \E q \in Request : Accept(q)
    <3>1. PICK q \in Request : Accept(q)
      BY <2>2
    <3>2. /\ \A x \in DOMAIN tests \ {q.run} : tests'[x] = tests[x]
          /\ q.run \in DOMAIN tests =>
               (tests[q.run].isComplete =>
                  /\ tests'[q.run].isComplete
                  /\ tests'[q.run].history = tests[q.run].history
                  /\ tests'[q.run].info = tests[q.run].info)
      BY <1>1, <3>1, AcceptEffect DEF IInv
    <3>3. QED
      BY <3>2
  <2>3. CASE Maintain
    <3>1. CASE MarkOrphanedTests
      BY <1>1, <3>1, MarkEffect DEF Silent
    <3>2. CASE Cleanup \/ CleanupOrphanedTests
      BY <1>1, <3>2, CleanupEffect
    <3>3. QED
      BY <2>3, <3>1, <3>2 DEF Maintain
  <2>4. CASE TimePasses
    BY <1>1, <2>4, TimePassesEffect
  <2>5. CASE Restart
    BY <2>5 DEF Restart
  <2>6. QED
    BY <1>1, <2>1, <2>2, <2>3, <2>4, <2>5, NextShape
<1>2. QED
  BY <1>1, Invariance, PTL DEF Spec, CompletedIsFinal

(* Maintenance removes nothing that was heard of within CleanupAge - Skew. *)
THEOREM RemovalLate == Spec => NoEarlyRemoval
<1> DEFINE P == ~Restart => \A r \in DOMAIN tests \ DOMAIN tests' :
                                 heard[r] > CleanupAge - Skew
<1>1. ASSUME IInv, [Next]_vars PROVE P
  <2> SUFFICES ASSUME ~Restart, NEW r \in DOMAIN tests, r \notin DOMAIN tests'
               PROVE  heard[r] > CleanupAge - Skew
    OBVIOUS
  <2>1. CASE UNCHANGED storeVars
    BY <2>1 DEF storeVars
  <2>2. CASE \E q \in Request : Accept(q)
    BY <1>1, <2>2, AcceptEffect DEF IInv
  <2>3. CASE MarkOrphanedTests
    BY <1>1, <2>3, MarkEffect
  <2>4. CASE TimePasses
    BY <1>1, <2>4, TimePassesEffect
  <2>5. CASE Cleanup \/ CleanupOrphanedTests
    <3>1. tests[r].age > CleanupAge
      BY <1>1, <2>5, CleanupEffect
    <3>2. tests[r].age \in Int /\ heard[r] \in Int /\ Skew \in Int /\ CleanupAge \in Int
      BY <1>1, AgeType, TimesAssumption DEF IInv, TypeOK, AgeCap
    <3>3. tests[r].age - heard[r] <= Skew
      BY <1>1, <3>2 DEF IInv, AgeTracksSilence
    <3>4. QED
      BY <3>1, <3>2, <3>3
  <2>6. QED
    BY <1>1, <2>1, <2>2, <2>3, <2>4, <2>5, NextShape DEF Maintain
<1>2. QED
  BY <1>1, Invariance, PTL DEF Spec, NoEarlyRemoval

(* No run is given up on that was heard of within OrphanAge - Skew.        *)
THEOREM OrphanedLate == Spec => OrphanedAfterSilence
<1>1. ASSUME IInv, [Next]_vars, NEW r \in Run, Orphans(r)
      PROVE  heard[r] > OrphanAge - Skew
  <2>1. /\ r \in DOMAIN tests /\ r \in DOMAIN tests'
        /\ tests[r].isRunning /\ tests'[r].error = "orphaned"
        /\ tests[r].error = ""
    BY <1>1 DEF Orphans, IInv, TestsSound, Sound
  <2>2. tests'[r] # tests[r] /\ tests'[r].error # tests[r].error
    BY <2>1
  <2>3. CASE UNCHANGED storeVars
    BY <2>2, <2>3 DEF storeVars
  <2>4. CASE \E q \in Request : Accept(q)
    <3>1. PICK q \in Request : Accept(q)
      BY <2>4
    <3>2. CASE r = q.run
      <4>1. ~(tests'[r].error = "orphaned" /\ tests'[r].isRunning)
            /\ ~(tests'[r].error = "orphaned" /\ tests'[r].isComplete)
        BY <1>1, <3>1, <3>2, AcceptEffect DEF IInv, Sound
      <4>2. PhaseOf(r) = "running" /\ PhaseOf(r)' = "orphaned"
        BY <1>1, <2>1, <4>1 DEF PhaseOf, IInv, TestsSound, Sound
      <4>3. QED
        BY <1>1, <3>1, <3>2, <4>2, AcceptPhase DEF IInv
    <3>3. CASE r # q.run
      BY <1>1, <2>1, <2>2, <3>1, <3>3, AcceptEffect DEF IInv
    <3>4. QED
      BY <3>2, <3>3
  <2>5. CASE Cleanup \/ CleanupOrphanedTests
    BY <1>1, <2>1, <2>2, <2>5, CleanupEffect
  <2>6. CASE TimePasses
    BY <1>1, <2>1, <2>2, <2>6, TimePassesEffect
  <2>7. CASE Restart
    BY <2>1, <2>7 DEF Restart
  <2>8. CASE MarkOrphanedTests
    <3>1. tests[r].age > OrphanAge
      BY <1>1, <2>1, <2>2, <2>8, MarkEffect DEF Silent
    <3>2. tests[r].age \in Int
      BY <1>1, <2>1, AgeType DEF IInv
    <3>3. heard[r] \in 0 .. AgeCap /\ Skew \in Int /\ OrphanAge \in Int /\ MaxAge \in Int
      BY <1>1, TimesAssumption DEF IInv, TypeOK
    <3>4. tests[r].age - heard[r] \in -Skew .. Skew
      BY <1>1, <2>1 DEF IInv, AgeTracksSilence
    <3>5. QED
      BY <3>1, <3>2, <3>3, <3>4 DEF AgeCap
  <2>9. QED
    BY <1>1, <2>3, <2>4, <2>5, <2>6, <2>7, <2>8, NextShape DEF Maintain
<1>2. IInv /\ [Next]_vars => \A r \in Run : Orphans(r) => heard[r] > OrphanAge - Skew
  BY <1>1
<1>3. QED
  BY <1>2, Invariance, PTL DEF Spec, OrphanedAfterSilence

-----------------------------------------------------------------------------
(* Refinement.                                                             *)

(* The store implements TestLifecycle: in particular a running test never  *)
(* vanishes without having been given up on or having reported a result.   *)
THEOREM LifecycleImplemented == Spec => LifecycleSpec
<1> DEFINE phi == [r \in Run |-> PhaseOf(r)]
<1>1. Init => Lifecycle!Init
  BY DEF Init, NewStore, Lifecycle!Init, PhaseOf
<1>2. ASSUME IInv, [Next]_vars PROVE [Lifecycle!Next]_phi
  <2>0. DOMAIN tests \subseteq Run /\ TestsSound
    BY <1>2 DEF IInv, TypeOK
  <2>1. CASE UNCHANGED storeVars
    BY <2>1 DEF storeVars, PhaseOf
  <2>2. CASE \E q \in Request : Accept(q)
    <3>1. PICK q \in Request : Accept(q)
      BY <2>2
    <3> DEFINE r == q.run
    <3>2. r \in Run
      BY RequestType
    <3>3. /\ DOMAIN tests' = DOMAIN tests \cup {r}
          /\ \A x \in DOMAIN tests \ {r} : tests'[x] = tests[x]
      BY <1>2, <3>1, AcceptEffect DEF IInv
    <3>4. \A x \in Run \ {r} : PhaseOf(x)' = PhaseOf(x)
      BY <3>3 DEF PhaseOf
    <3>5. CASE PhaseOf(r)' = PhaseOf(r)
      BY <3>4, <3>5
    <3>6. CASE PhaseOf(r) = "absent" /\ PhaseOf(r)' = "running"
      <4>1. Lifecycle!Register(r)
        BY <3>2, <3>4, <3>6 DEF Lifecycle!Register, Lifecycle!MoveTo
      <4>2. QED
        BY <3>2, <4>1 DEF Lifecycle!Next
    <3>7. CASE PhaseOf(r) # "absent" /\ PhaseOf(r)' = "complete"
      <4>1. Lifecycle!Complete(r)
        BY <3>2, <3>4, <3>7 DEF Lifecycle!Complete, Lifecycle!MoveTo
      <4>2. QED
        BY <3>2, <4>1 DEF Lifecycle!Next
    <3>8. \/ PhaseOf(r)' = PhaseOf(r)
          \/ PhaseOf(r) = "absent" /\ PhaseOf(r)' = "running"
          \/ PhaseOf(r) # "absent" /\ PhaseOf(r)' = "complete"
      BY <1>2, <3>1, AcceptPhase DEF IInv
    <3>9. QED
      BY <3>5, <3>6, <3>7, <3>8
  <2>3. CASE MarkOrphanedTests
    <3> DEFINE S == {r \in Run : PhaseOf(r) = "running" /\ PhaseOf(r)' = "orphaned"}
    <3>1. \A r \in Run \ S : PhaseOf(r)' = PhaseOf(r)
      BY <1>2, <2>0, <2>3, MarkEffect DEF PhaseOf, Silent
    <3>2. Lifecycle!GiveUpOn(S)
      BY <3>1 DEF Lifecycle!GiveUpOn, Lifecycle!MoveTo
    <3>3. QED
      BY <3>2 DEF Lifecycle!Next
  <2>4. CASE Cleanup \/ CleanupOrphanedTests
    <3> DEFINE S == DOMAIN tests \ DOMAIN tests'
    <3>1. \A r \in Run \ S : PhaseOf(r)' = PhaseOf(r)
      BY <1>2, <2>4, CleanupEffect DEF PhaseOf
    <3>2. \A r \in S : PhaseOf(r) \in {"orphaned", "complete"} /\ PhaseOf(r)' = "absent"
      BY <1>2, <2>4, CleanupEffect DEF PhaseOf
    <3>3. Lifecycle!Forget(S)
      BY <3>1, <3>2, <2>0 DEF Lifecycle!Forget, Lifecycle!MoveTo
    <3>4. QED
      BY <3>3, <2>0 DEF Lifecycle!Next
  <2>5. CASE TimePasses
    BY <1>2, <2>5, TimePassesEffect DEF PhaseOf
  <2>6. CASE Restart
    <3>1. \A r \in Run : PhaseOf(r)' = "absent"
      BY <2>6 DEF Restart, PhaseOf
    <3>2. Lifecycle!ServerRestart
      BY <3>1 DEF Lifecycle!ServerRestart, Lifecycle!MoveTo
    <3>3. QED
      BY <3>2 DEF Lifecycle!Next
  <2>7. QED
    BY <1>2, <2>1, <2>2, <2>3, <2>4, <2>5, <2>6, NextShape DEF Maintain
<1>3. QED
  BY <1>1, <1>2, Invariance, PTL DEF Spec, Lifecycle!Spec, LifecycleSpec

=============================================================================
