----------------------------- MODULE LiveProofs -----------------------------
(***************************************************************************)
(* The live panel, for any number of endpoints, servers, runs, tests,      *)
(* points and requests in flight.                                          *)
(*                                                                         *)
(* First, a row has the tests of its own server.  The invariant is         *)
(* inductive only with what each fetchData holds: its answer is a list of  *)
(* the server it asked, which is the one it writes into the row            *)
(* (OwnFetch).  Positions play no part: that two functions write the same  *)
(* one, or one beyond the array, does no harm.                             *)
(*                                                                         *)
(* That a spinner is served needs nothing of the functions in flight: every *)
(* commit of endpointData starts one more that asks for every flagged row  *)
(* up to the first hole (StartedServes), the least position first.         *)
(*                                                                         *)
(* Then, the chart of an expanded test never loses a point.  The first     *)
(* answer REPLACES the history, so the proof must show that it finds an    *)
(* empty one: a test has at most one first request in flight (OneFirst),   *)
(* its entry says "loading" until then, and only tests with an answer are  *)
(* polled (AsksFit, PollsFit).                                             *)
(***************************************************************************)
EXTENDS LiveTests, LiveDetails, ProgressChartsProofs

(* The positions of an array: some of 1..N.                                *)
Placed(rs) == \E N \in Nat : DOMAIN rs \subseteq 1..N

OwnRow(r) ==
    r \in [url : Url, tests : SUBSET SummaryOf(r.url), loading : BOOLEAN,
           refreshing : BOOLEAN, error : BOOLEAN]

OwnFetch(f) ==
    /\ f \in [todo : {f.todo}, at : DOMAIN f.todo,
              answer : {Nothing, Failed} \cup SUBSET SummaryOf(f.todo[f.at].url)]
    /\ Placed(f.todo)
    /\ \A i \in DOMAIN f.todo : f.todo[i].url \in Url

OwnRows(rs)    == Placed(rs) /\ \A i \in DOMAIN rs : OwnRow(rs[i])
OwnFetches(fs) == \E S : fs \in Seq(S) /\ \A f \in S : OwnFetch(f)

LiveInv == OwnRows(rows) /\ OwnFetches(fetches) /\ endpoints \in EndpointList

-----------------------------------------------------------------------------
(* Least and greatest numbers.                                             *)

(* A set of naturals has a least element, and a bounded one a greatest.    *)
LEMMA LeastIs ==
    ASSUME NEW S, S \subseteq Nat, S # {}
    PROVE  Least(S) \in S /\ \A m \in S : Least(S) <= m
<1>1. \E x \in S : \A y \in S : x <= y
  BY LeastExists
<1>2. QED
  BY <1>1 DEF Least

LEMMA MaxIs ==
    ASSUME NEW S, NEW N \in Nat, S \subseteq 1..N, S # {}
    PROVE  Max(S) \in S /\ \A m \in S : m <= Max(S)
<1> DEFINE B == {n \in Nat : \A m \in S : m <= n}
<1>1. N \in B /\ B \subseteq Nat
  OBVIOUS
<1>2. Least(B) \in B /\ \A m \in B : Least(B) <= m
  BY <1>1, LeastIs
<1>3. Least(B) \in S
  <2> SUFFICES ASSUME Least(B) \notin S PROVE FALSE
    OBVIOUS
  <2>0. Least(B) \in Nat /\ \A m \in S : m <= Least(B)
    BY <1>2
  <2>1. Least(B) \in Nat /\ Least(B) # 0 /\ \A m \in S : m < Least(B)
    <3> DEFINE b == Least(B)
    <3> HIDE DEF B, b
    <3>1. b \in Nat /\ (\A m \in S : m <= b) /\ b \notin S
      BY <2>0 DEF b
    <3>2. \A m \in S : m \in Nat /\ m # b /\ m > 0
      BY <3>1
    <3>3. \A m \in S : m < b
      BY <3>1, <3>2
    <3>4. b # 0
      <4>1. PICK m \in S : TRUE
        OBVIOUS
      <4>2. QED
        BY <3>1, <3>2, <3>3, <4>1
    <3>5. QED
      BY <3>1, <3>3, <3>4 DEF b
  <2>2. Least(B) - 1 \in B
    BY <2>1
  <2>3. QED
    BY <1>2, <2>1, <2>2
<1>4. \A m \in S : m <= Least(B)
  BY <1>2
<1> HIDE DEF B
<1>5. \E x \in S : \A y \in S : x >= y
  BY <1>3, <1>4
<1>6. Max(S) \in S /\ \A y \in S : Max(S) >= y
  BY <1>5 DEF Max
<1>7. QED
  BY <1>6

-----------------------------------------------------------------------------
(* Sequences of fetchData functions. *)

LEMMA OwnSingle ==
    ASSUME NEW f, OwnFetch(f)
    PROVE  OwnFetches(<<f>>)
<1> DEFINE S == {f}
<1>1. <<f>> \in Seq(S) /\ \A g \in S : OwnFetch(g)
  OBVIOUS
<1> HIDE DEF S
<1>2. QED
  BY <1>1 DEF OwnFetches

LEMMA OwnNone == OwnFetches(<<>>)
<1> DEFINE S == {}
<1>1. <<>> \in Seq(S) /\ \A f \in S : OwnFetch(f)
  OBVIOUS
<1> HIDE DEF S
<1>2. QED
  BY <1>1 DEF OwnFetches

LEMMA OwnConcat ==
    ASSUME NEW s, NEW t, OwnFetches(s), OwnFetches(t)
    PROVE  OwnFetches(s \o t)
<1>1. PICK S : s \in Seq(S) /\ \A f \in S : OwnFetch(f)
  BY DEF OwnFetches
<1>2. PICK T : t \in Seq(T) /\ \A f \in T : OwnFetch(f)
  BY DEF OwnFetches
<1>3. s \in Seq(S \cup T) /\ t \in Seq(S \cup T)
  BY <1>1, <1>2
<1>4. s \o t \in Seq(S \cup T)
  BY <1>3, ConcatProperties
<1>5. QED
  BY <1>1, <1>2, <1>4 DEF OwnFetches

LEMMA OwnSubSeq ==
    ASSUME NEW s, OwnFetches(s), NEW n \in DOMAIN s
    PROVE  /\ OwnFetch(s[n])
           /\ OwnFetches(SubSeq(s, 1, n - 1)) /\ OwnFetches(SubSeq(s, n + 1, Len(s)))
<1>1. PICK S : s \in Seq(S) /\ \A f \in S : OwnFetch(f)
  BY DEF OwnFetches
<1>2. n \in 1..Len(s) /\ Len(s) \in Nat /\ \A i \in 1..Len(s) : s[i] \in S
  BY <1>1
<1>3. SubSeq(s, 1, n - 1) \in Seq(S) /\ SubSeq(s, n + 1, Len(s)) \in Seq(S)
  BY <1>2, SubSeqProperties
<1>4. QED
  BY <1>1, <1>2, <1>3 DEF OwnFetches

LEMMA OwnReplace ==
    ASSUME NEW s, OwnFetches(s), NEW n \in DOMAIN s, NEW f, OwnFetch(f)
    PROVE  OwnFetches([s EXCEPT ![n] = f])
<1>1. PICK S : s \in Seq(S) /\ \A g \in S : OwnFetch(g)
  BY DEF OwnFetches
<1>2. [s EXCEPT ![n] = f] \in Seq(S \cup {f})
  BY <1>1
<1>3. QED
  BY <1>1, <1>2 DEF OwnFetches

-----------------------------------------------------------------------------
(* The helpers of the model. *)

(* Where fetchData stops, if it does: at a position it captured.           *)
LEMMA NextAskIs ==
    ASSUME NEW todo, Placed(todo), NEW from, NextAsk(todo, from) # 0
    PROVE  NextAsk(todo, from) \in DOMAIN todo
BY DEF NextAsk

(* The effect of a commit starts at most one fetchData, without an answer. *)
LEMMA StartedByOwn ==
    ASSUME NEW rs, OwnRows(rs) PROVE OwnFetches(StartedBy(rs))
<1> DEFINE todo == [i \in DOMAIN rs |-> [url |-> rs[i].url, flagged |-> Flagged(rs[i])]]
           at   == NextAsk(todo, 1)
           f    == [todo |-> todo, at |-> at, answer |-> Nothing]
<1>1. CASE at = 0
  BY <1>1, OwnNone DEF StartedBy
<1>2. CASE at # 0
  <2>1. StartedBy(rs) = <<f>>
    BY <1>2 DEF StartedBy
  <2>2. Placed(todo) /\ \A i \in DOMAIN todo : todo[i].url \in Url
    BY DEF OwnRows, OwnRow, Placed
  <2> HIDE DEF todo
  <2>3. at \in DOMAIN todo
    BY <1>2, <2>2, NextAskIs
  <2> HIDE DEF at
  <2>4. OwnFetch(f)
    BY <2>2, <2>3 DEF OwnFetch
  <2> HIDE DEF f
  <2>5. QED
    BY <2>1, <2>4, OwnSingle
<1>3. QED
  BY <1>1, <1>2

LEMMA ContinuedOwn ==
    ASSUME NEW f, OwnFetch(f) PROVE OwnFetches(Continued(f))
<1> DEFINE at == NextAsk(f.todo, f.at + 1)
           g  == [f EXCEPT !.at = at, !.answer = Nothing]
<1>1. CASE at = 0
  BY <1>1, OwnNone DEF Continued
<1>2. CASE at # 0
  <2>1. Continued(f) = <<g>>
    BY <1>2 DEF Continued
  <2>2. at \in DOMAIN f.todo
    BY <1>2, NextAskIs DEF OwnFetch
  <2> HIDE DEF at
  <2>3. g \in [todo : {f.todo}, at : {at}, answer : {Nothing}]
    BY DEF OwnFetch
  <2> HIDE DEF g
  <2>4. g.todo = f.todo /\ g.at = at /\ g.answer = Nothing
    BY <2>3
  <2>5. OwnFetch(g)
    BY <2>2, <2>3, <2>4 DEF OwnFetch
  <2>6. QED
    BY <2>1, <2>5, OwnSingle
<1>3. QED
  BY <1>1, <1>2

(* The rows of a configuration are those of some of its endpoints.         *)
LEMMA EnabledRowsOwn ==
    ASSUME NEW es \in EndpointList PROVE OwnRows(EnabledRows(es))
<1> DEFINE on     == {i \in DOMAIN es : es[i].enabled}
           before == {p \in on \X on : p[1] < p[2]}
           nth(n) == CHOOSE i \in on : Cardinality({j \in on : j < i}) = n - 1
           N      == Cardinality(on)
<1>1. /\ DOMAIN es = 1..Len(es) /\ Len(es) \in Nat
      /\ \A i \in DOMAIN es : es[i].url \in Url
  <2> DEFINE E == [url : Url, enabled : BOOLEAN]
  <2>1. es \in Seq(E) /\ \A e \in E : e.url \in Url
    BY LiveAssumption
  <2> HIDE DEF E
  <2>2. QED
    BY <2>1
<1>2. IsFiniteSet(on) /\ on \subseteq Nat /\ N \in Nat
  <2>1. IsFiniteSet(1..Len(es)) /\ on \in SUBSET (1..Len(es))
    BY <1>1, FS_Interval
  <2> HIDE DEF on
  <2>2. IsFiniteSet(on)
    BY <2>1, FS_Subset, Zenon
  <2>3. QED
    BY <1>1, <2>1, <2>2, FS_CardinalityType
<1>3. \A i \in on : es[i].url \in Url
  BY <1>1
<1> HIDE DEF on
<1>4. \A k \in 0..(N - 1) : \E i \in on : Cardinality(Below(on, before, i)) = k
  <2>1. Orders(before, on)
    BY <1>2 DEF Orders
  <2> HIDE DEF before
  <2>2. QED
    BY <1>2, <2>1, RankCovers
<1>5. \A i \in on : Below(on, before, i) = {j \in on : j < i}
  BY DEF Below
<1> HIDE DEF before, N
<1>6. \A n \in 1..N : nth(n) \in on
  <2> SUFFICES ASSUME NEW n \in 1..N PROVE nth(n) \in on
    OBVIOUS
  <2>1. n - 1 \in 0..(N - 1)
    BY <1>2
  <2>2. \E i \in on : Cardinality({j \in on : j < i}) = n - 1
    BY <1>4, <1>5, <2>1
  <2>3. QED
    BY <2>2
<1> HIDE DEF nth
<1>7. EnabledRows(es) = [n \in 1..N |-> NewRow(es[nth(n)])]
  BY DEF EnabledRows, on, N, nth
<1>8. \A n \in 1..N : OwnRow(NewRow(es[nth(n)]))
  BY <1>3, <1>6 DEF OwnRow, NewRow
<1>9. DOMAIN EnabledRows(es) = 1..N /\ \A n \in 1..N : OwnRow(EnabledRows(es)[n])
  BY <1>7, <1>8
<1>10. N \in Nat
  BY <1>2 DEF N
<1>11. QED
  BY <1>9, <1>10 DEF OwnRows, Placed

LEMMA SetRowsOwn ==
    ASSUME NEW rs, NEW running, OwnRows(rs), OwnFetches(running), SetRows(rs, running),
           endpoints' \in EndpointList
    PROVE  LiveInv'
<1>1. rows' = rs /\ fetches' = running \o StartedBy(rs)
  BY DEF SetRows
<1>2. OwnFetches(fetches')
  BY <1>1, StartedByOwn, OwnConcat
<1>3. QED
  BY <1>1, <1>2 DEF LiveInv

(* A panel that is gone has no rows and asks nobody.                       *)
LEMMA UnmountedOwn ==
    ASSUME Unmounted, endpoints' \in EndpointList
    PROVE  LiveInv'
<1>1. rows' = <<>> /\ fetches' = <<>>
  BY DEF Unmounted
<1>2. OwnRows(<<>>)
  <2>1. DOMAIN <<>> \subseteq 1..0
    OBVIOUS
  <2>2. Placed(<<>>)
    BY <2>1 DEF Placed
  <2>3. QED
    BY <2>1, <2>2 DEF OwnRows
<1>3. OwnFetches(<<>>)
  BY OwnNone
<1>4. QED
  BY <1>1, <1>2, <1>3 DEF LiveInv

-----------------------------------------------------------------------------
(* The invariant. *)

LEMMA LiveInvInit == LiveInit => LiveInv
<1> SUFFICES ASSUME LiveInit PROVE LiveInv
  OBVIOUS
<1>1. PICK es \in EndpointList : /\ rows = EnabledRows(es) /\ endpoints = es
                                 /\ fetches = StartedBy(EnabledRows(es))
  BY DEF LiveInit, LiveMounted
<1>2. QED
  BY <1>1, EnabledRowsOwn, StartedByOwn DEF LiveInv

LEMMA LiveInvListAnswer ==
    ASSUME LiveInv, NEW n \in DOMAIN fetches, ListAnswer(n)
    PROVE  LiveInv'
<1> DEFINE f    == fetches[n]
           u    == f.todo[f.at].url
<1>1. PICK delivered \in SyncoorOutcomes :
          fetches' = [fetches EXCEPT ![n].answer = IF delivered THEN Summaries(u) ELSE Failed]
  BY DEF ListAnswer
<1> DEFINE reply == IF delivered THEN Summaries(u) ELSE Failed
           g     == [f EXCEPT !.answer = reply]
<1>2. reply \in {Nothing, Failed} \cup SUBSET SummaryOf(u)
  BY DEF Summaries
<1>3. OwnFetch(f)
  BY OwnSubSeq DEF LiveInv
<1>4. OwnFetch(g)
  <2> HIDE DEF reply
  <2>1. g.answer = reply /\ g.todo = f.todo /\ g.at = f.at
        /\ g \in [todo : {g.todo}, at : DOMAIN g.todo, answer : {g.answer}]
    BY <1>3 DEF OwnFetch
  <2>2. QED
    BY <1>2, <1>3, <2>1 DEF OwnFetch
<1>5. fetches' = [fetches EXCEPT ![n] = g]
  BY <1>1
<1> HIDE DEF g
<1>6. OwnFetches(fetches')
  BY <1>4, <1>5, OwnReplace DEF LiveInv
<1>7. rows' = rows /\ endpoints' = endpoints
  BY DEF ListAnswer
<1>8. QED
  BY <1>6, <1>7 DEF LiveInv

LEMMA ListAppliedCommits ==
    ASSUME LiveInv, NEW n \in DOMAIN fetches, ListApplied(n), ~Unmounted
    PROVE  \E rs, running : OwnRows(rs) /\ OwnFetches(running) /\ SetRows(rs, running)
<1> DEFINE f  == fetches[n]
           rs == [i \in DOMAIN rows \cup {f.at} |-> IF i = f.at THEN RowFrom(f) ELSE rows[i]]
           a  == SubSeq(fetches, 1, n - 1)
           b  == SubSeq(fetches, n + 1, Len(fetches))
<1>1. f.answer # Nothing /\ SetRows(rs, a \o Continued(f) \o b)
  BY DEF ListApplied
<1>2. OwnFetch(f) /\ OwnFetches(a) /\ OwnFetches(b)
  BY OwnSubSeq DEF LiveInv
<1> HIDE DEF f, a, b
<1>3. OwnFetches(a \o Continued(f) \o b)
  <2>1. OwnFetches(a \o Continued(f))
    BY <1>2, ContinuedOwn, OwnConcat
  <2>2. QED
    BY <1>2, <2>1, OwnConcat
<1>4. OwnRow(RowFrom(f))
  <2>1. /\ f.answer # Failed => f.answer \in SUBSET SummaryOf(f.todo[f.at].url)
        /\ f.todo[f.at].url \in Url
    BY <1>1, <1>2 DEF OwnFetch
  <2>2. QED
    BY <2>1 DEF OwnRow, RowFrom
<1>5. OwnRows(rs)
  <2>1. PICK N \in Nat : DOMAIN rows \subseteq 1..N
    BY DEF LiveInv, OwnRows, Placed
  <2>2. PICK M \in Nat : f.at \in 1..M
    BY <1>2 DEF OwnFetch, Placed
  <2>3. DOMAIN rs \subseteq 1..(N + M)
    BY <2>1, <2>2
  <2>4. Placed(rs)
    BY <2>3 DEF Placed
  <2>5. QED
    BY <1>4, <2>4 DEF LiveInv, OwnRows
<1> HIDE DEF rs
<1>6. QED
  BY <1>1, <1>3, <1>5

LEMMA RefreshTickCommits ==
    ASSUME LiveInv, RefreshTick
    PROVE  \E rs : OwnRows(rs) /\ SetRows(rs, fetches)
<1> DEFINE rs == [i \in DOMAIN rows |-> [rows[i] EXCEPT !.refreshing = TRUE, !.error = FALSE]]
<1>1. SetRows(rs, fetches)
  BY DEF RefreshTick
<1>2. ASSUME NEW r, OwnRow(r) PROVE OwnRow([r EXCEPT !.refreshing = TRUE, !.error = FALSE])
  <2> DEFINE s == [r EXCEPT !.refreshing = TRUE, !.error = FALSE]
  <2>1. s \in [url : {r.url}, tests : {r.tests}, loading : {r.loading},
               refreshing : {TRUE}, error : {FALSE}]
    BY <1>2 DEF OwnRow
  <2> HIDE DEF s
  <2>2. s.url = r.url /\ s.tests = r.tests /\ s.loading = r.loading
    BY <2>1
  <2>3. OwnRow(s)
    BY <1>2, <2>1, <2>2 DEF OwnRow
  <2>4. QED
    BY <2>3 DEF s
<1>3. OwnRows(rs)
  BY <1>2 DEF LiveInv, OwnRows, Placed
<1> HIDE DEF rs
<1>4. QED
  BY <1>1, <1>3

LEMMA TryAgainCommits ==
    ASSUME LiveInv, TryAgain
    PROVE  \E rs : OwnRows(rs) /\ SetRows(rs, fetches)
<1>1. SetRows(EnabledRows(endpoints), fetches)
  BY DEF TryAgain
<1>2. QED
  BY <1>1, EnabledRowsOwn DEF LiveInv

LEMMA LiveInvStep == LiveInv /\ [LiveNext]_liveVars => LiveInv'
<1> SUFFICES ASSUME LiveInv, [LiveNext]_liveVars PROVE LiveInv'
  OBVIOUS
<1>1. endpoints' \in EndpointList
  BY DEF LiveInv, LiveNext, ServerStep, ConfigChanged, ListAnswer, ListApplied, TryAgain,
         RefreshTick, ChangePage, ChangePageSize, TabsDropSearch, liveVars
<1>2. CASE ServerStep \/ (\E i \in DOMAIN rows : ChangePage(i) \/ ChangePageSize(i))
           \/ TabsDropSearch \/ UNCHANGED liveVars
  <2>1. UNCHANGED <<rows, fetches>>
    BY <1>2 DEF ServerStep, ChangePage, ChangePageSize, TabsDropSearch, liveVars
  <2>2. QED
    BY <1>1, <2>1 DEF LiveInv
<1>3. CASE ConfigChanged
  <2>1. Unmounted \/ \E es \in EndpointList : SetRows(EnabledRows(es), fetches)
    BY <1>3 DEF ConfigChanged
  <2>2. QED
    BY <1>1, <2>1, UnmountedOwn, EnabledRowsOwn, SetRowsOwn DEF LiveInv
<1>4. CASE \E n \in DOMAIN fetches : ListAnswer(n) \/ ListApplied(n)
  BY <1>1, <1>4, LiveInvListAnswer, ListAppliedCommits, UnmountedOwn, SetRowsOwn
<1>5. CASE RefreshTick
  BY <1>1, <1>5, RefreshTickCommits, SetRowsOwn DEF LiveInv
<1>6. CASE TryAgain
  BY <1>1, <1>6, TryAgainCommits, SetRowsOwn DEF LiveInv
<1>7. QED
  BY <1>2, <1>3, <1>4, <1>5, <1>6 DEF LiveNext

-----------------------------------------------------------------------------
(* The theorem. *)

(* A row never shows the tests of one server under the address of another, *)
(* in whatever order overlapping fetchData functions write their rows.     *)
THEOREM RowsOwnTestsHolds == LiveSpec => []RowsOwnTests
<1>1. LiveInv => RowsOwnTests
  BY DEF LiveInv, OwnRows, OwnRow, RowsOwnTests
<1>2. QED
  BY <1>1, LiveInvInit, LiveInvStep, PTL DEF LiveSpec

-----------------------------------------------------------------------------
(* The spinners. *)

(* f is going to ask for position i, which has row.                        *)
AsksFor(f, i, row) ==
    /\ f.at <= i /\ f.at..i \subseteq DOMAIN f.todo
    /\ f.todo[i] = [url |-> row.url, flagged |-> TRUE]

(* The fetchData a commit starts asks for the flagged rows before a hole.  *)
LEMMA StartedServes ==
    ASSUME NEW rs, OwnRows(rs),
           NEW i \in DOMAIN rs, Flagged(rs[i]), 1..i \subseteq DOMAIN rs
    PROVE  \E f : StartedBy(rs) = <<f>> /\ AsksFor(f, i, rs[i])
<1> DEFINE todo   == [k \in DOMAIN rs |-> [url |-> rs[k].url, flagged |-> Flagged(rs[k])]]
           at     == NextAsk(todo, 1)
           f      == [todo |-> todo, at |-> at, answer |-> Nothing]
           length == Max(DOMAIN todo)
           stops  == {k \in 1..length : k \in DOMAIN todo => todo[k].flagged}
<1>1. DOMAIN todo = DOMAIN rs /\ todo[i] = [url |-> rs[i].url, flagged |-> TRUE]
  OBVIOUS
<1>2. PICK N \in Nat : DOMAIN todo \subseteq 1..N
  BY DEF OwnRows, Placed
<1> HIDE DEF todo
<1>3. i \in 1..N /\ i \in Nat /\ DOMAIN todo # {}
  BY <1>1, <1>2
<1>4. length \in DOMAIN todo /\ i <= length
  BY <1>1, <1>2, <1>3, MaxIs
<1>5. length \in Nat
  BY <1>2, <1>4
<1>6. at = IF stops = {} \/ Least(stops) \notin DOMAIN todo THEN 0 ELSE Least(stops)
  BY <1>3 DEF NextAsk, LengthOf
<1> HIDE DEF length
<1>7. stops \subseteq Nat /\ i \in stops
  BY <1>1, <1>3, <1>4, <1>5
<1>8. Least(stops) \in stops /\ Least(stops) <= i
  BY <1>7, LeastIs
<1>9. Least(stops) \in 1..i
  BY <1>3, <1>5, <1>8
<1> HIDE DEF stops
<1>10. at = Least(stops) /\ at \in 1..i
  BY <1>1, <1>6, <1>7, <1>9
<1>11. at # 0 /\ at..i \subseteq DOMAIN todo
  BY <1>1, <1>3, <1>10
<1>12. StartedBy(rs) = <<f>>
  BY <1>11 DEF StartedBy, todo
<1> HIDE DEF at
<1>13. AsksFor(f, i, rs[i])
  BY <1>1, <1>3, <1>10, <1>11 DEF AsksFor
<1>14. QED
  BY <1>12, <1>13

LEMMA SetRowsServes ==
    ASSUME NEW rs, NEW running, OwnRows(rs), OwnFetches(running), SetRows(rs, running)
    PROVE  RefreshIsServed'
<1>1. rows' = rs /\ fetches' = running \o StartedBy(rs)
  BY DEF SetRows
<1>2. ASSUME NEW i \in DOMAIN rs, Flagged(rs[i]), 1..i \subseteq DOMAIN rs
      PROVE  \E n \in DOMAIN fetches' : AsksFor(fetches'[n], i, rs[i])
  <2>1. PICK f : StartedBy(rs) = <<f>> /\ AsksFor(f, i, rs[i])
    BY <1>2, StartedServes
  <2>2. PICK S : running \in Seq(S)
    BY DEF OwnFetches
  <2> DEFINE n == Len(running) + 1
             T == S \cup {f}
  <2>3. running \in Seq(T) /\ <<f>> \in Seq(T) /\ Len(<<f>>) = 1 /\ <<f>>[1] = f
    BY <2>2
  <2> HIDE DEF T
  <2>4. /\ Len(running \o <<f>>) = n /\ n \in 1..n
        /\ DOMAIN (running \o <<f>>) = 1..n /\ (running \o <<f>>)[n] = f
    BY <2>3, ConcatProperties
  <2>5. QED
    BY <1>1, <2>1, <2>4
<1>3. QED
  BY <1>1, <1>2 DEF RefreshIsServed, AsksFor

LEMMA UnmountedServes ==
    ASSUME Unmounted
    PROVE  RefreshIsServed'
<1>1. DOMAIN rows' = {}
  BY DEF Unmounted
<1>2. QED
  BY <1>1 DEF RefreshIsServed

LEMMA RefreshServedInit == LiveInit => RefreshIsServed
<1> SUFFICES ASSUME LiveInit, NEW i \in DOMAIN rows, Flagged(rows[i]), 1..i \subseteq DOMAIN rows
             PROVE  \E n \in DOMAIN fetches : AsksFor(fetches[n], i, rows[i])
  BY DEF RefreshIsServed, AsksFor
<1>1. PICK es \in EndpointList : rows = EnabledRows(es) /\ fetches = StartedBy(EnabledRows(es))
  BY DEF LiveInit, LiveMounted
<1>2. OwnRows(rows)
  BY <1>1, EnabledRowsOwn
<1>3. PICK f : fetches = <<f>> /\ AsksFor(f, i, rows[i])
  BY <1>1, <1>2, StartedServes
<1>4. 1 \in DOMAIN fetches /\ fetches[1] = f
  BY <1>3
<1>5. QED
  BY <1>3, <1>4

(* An answer leaves what a function asks for; the other steps that touch   *)
(* the rows commit them.                                                   *)
LEMMA RefreshServedStep ==
    ASSUME LiveInv, RefreshIsServed, [LiveNext]_liveVars
    PROVE  RefreshIsServed'
<1>1. CASE UNCHANGED <<rows, fetches>>
  BY <1>1 DEF RefreshIsServed
<1>2. CASE ServerStep \/ (\E i \in DOMAIN rows : ChangePage(i) \/ ChangePageSize(i))
           \/ TabsDropSearch \/ UNCHANGED liveVars
  BY <1>1, <1>2 DEF ServerStep, ChangePage, ChangePageSize, TabsDropSearch, liveVars
<1>3. CASE ConfigChanged
  <2>1. Unmounted \/ \E es \in EndpointList : SetRows(EnabledRows(es), fetches)
    BY <1>3 DEF ConfigChanged
  <2>2. QED
    BY <2>1, UnmountedServes, EnabledRowsOwn, SetRowsServes DEF LiveInv
<1>4. ASSUME NEW n \in DOMAIN fetches, ListAnswer(n) PROVE RefreshIsServed'
  <2>1. PICK answer : fetches' = [fetches EXCEPT ![n].answer = answer]
    BY <1>4 DEF ListAnswer
  <2>2. rows' = rows /\ DOMAIN fetches' = DOMAIN fetches
    BY <1>4, <2>1 DEF ListAnswer
  <2>3. OwnFetch(fetches[n])
    BY OwnSubSeq DEF LiveInv
  <2>4. fetches'[n].at = fetches[n].at /\ fetches'[n].todo = fetches[n].todo
    BY <2>1, <2>3 DEF OwnFetch
  <2>5. \A m \in DOMAIN fetches : /\ fetches'[m].at = fetches[m].at
                                  /\ fetches'[m].todo = fetches[m].todo
    BY <2>1, <2>4
  <2>6. QED
    BY <2>2, <2>5 DEF RefreshIsServed
<1>5. ASSUME NEW n \in DOMAIN fetches, ListApplied(n) PROVE RefreshIsServed'
  <2>1. Unmounted \/ \E rs, running : OwnRows(rs) /\ OwnFetches(running) /\ SetRows(rs, running)
    BY <1>5, ListAppliedCommits
  <2>2. QED
    BY <2>1, UnmountedServes, SetRowsServes
<1>6. CASE RefreshTick
  <2>1. PICK rs : OwnRows(rs) /\ SetRows(rs, fetches)
    BY <1>6, RefreshTickCommits
  <2>2. QED
    BY <2>1, SetRowsServes DEF LiveInv
<1>7. CASE TryAgain
  <2>1. PICK rs : OwnRows(rs) /\ SetRows(rs, fetches)
    BY <1>7, TryAgainCommits
  <2>2. QED
    BY <2>1, SetRowsServes DEF LiveInv
<1>8. QED
  BY <1>2, <1>3, <1>4, <1>5, <1>6, <1>7 DEF LiveNext

(* What says "loading" or "refreshing" is going to be asked for, however   *)
(* the functions of earlier commits overlap and whatever they write.       *)
THEOREM RefreshIsServedHolds == LiveSpec => []RefreshIsServed
<1>1. LiveInv /\ RefreshIsServed /\ [LiveNext]_liveVars => RefreshIsServed'
  BY RefreshServedStep
<1>2. QED
  BY <1>1, LiveInvInit, LiveInvStep, RefreshServedInit, PTL DEF LiveSpec

-----------------------------------------------------------------------------
(* The pages of the tables. *)

(* A quotient, and the number of pages: none when nothing is listed.       *)
LEMMA DivIs ==
    ASSUME NEW a \in Nat, NEW d \in Nat \ {0}
    PROVE  a \div d \in Nat /\ d * (a \div d) <= a /\ a < d * (a \div d) + d
<1>1. a = d * (a \div d) + (a % d) /\ a % d \in 0..(d - 1) /\ a \div d \in Int
  OBVIOUS
<1>2. d * (a \div d) \in Int /\ a % d \in Int
  BY <1>1
<1>3. d * (a \div d) <= a /\ a < d * (a \div d) + d
  BY <1>1, <1>2
<1>4. a \div d \in Nat
  <2> SUFFICES ASSUME a \div d < 0 PROVE FALSE
    BY <1>1
  <2> DEFINE q == a \div d
  <2>1. q \in Int /\ q <= -1
    BY <1>1
  <2> HIDE DEF q
  <2>2. d * q <= -d
    BY <2>1
  <2>3. QED
    BY <1>3, <2>1, <2>2 DEF q
<1>5. QED
  BY <1>3, <1>4

LEMMA TotalPagesIs ==
    ASSUME NEW n \in Nat, NEW size \in Nat \ {0}
    PROVE  TotalPages(n, size) \in Nat /\ (TotalPages(n, size) >= 1 <=> n >= 1)
<1> DEFINE q == TotalPages(n, size)
           a == n + size - 1
<1>1. a \in Nat
  OBVIOUS
<1>2. q = a \div size
  BY DEF TotalPages
<1> HIDE DEF a
<1>3. q \in Nat /\ size * q <= a /\ a < size * q + size
  BY <1>1, <1>2, DivIs
<1>4. q = 0 => a < size
  BY <1>3
<1>5. q >= 1 => size <= size * q
  BY <1>3
<1>6. QED
  BY <1>3, <1>4, <1>5 DEF a

LEMMA LeastPageSize == Least(PageSize) \in PageSize /\ Least(PageSize) \in Nat \ {0}
BY LeastIs, LiveAssumption

(* What the invariant does not say of the rest of the panel.               *)
PanelOK ==
    /\ tests \in [Url -> [Run -> Status]] /\ events \in 0..MaxEvents
    /\ active \in BOOLEAN /\ crashed \in BOOLEAN
    /\ pages \in [Url -> Nat \ {0}] /\ perPage \in PageSize

LEMMA LiveTypes ==
    ASSUME LiveInv, PanelOK PROVE LiveTypeOK
<1>1. DOMAIN rows \subseteq Nat \ {0}
  BY DEF LiveInv, OwnRows, Placed
<1>2. ASSUME NEW i \in DOMAIN rows
      PROVE  rows[i] \in [url : Url, tests : SUBSET UNION {SummaryOf(u) : u \in Url},
                         loading : BOOLEAN, refreshing : BOOLEAN, error : BOOLEAN]
  <2>1. OwnRow(rows[i])
    BY DEF LiveInv, OwnRows
  <2>2. rows[i].url \in Url /\ rows[i].tests \subseteq SummaryOf(rows[i].url)
    BY <2>1 DEF OwnRow
  <2>3. rows[i].tests \subseteq UNION {SummaryOf(u) : u \in Url}
    BY <2>2
  <2> DEFINE all == UNION {SummaryOf(u) : u \in Url}
  <2> HIDE DEF all
  <2>4. rows[i].tests \in SUBSET all
    BY <2>3 DEF all
  <2>5. rows[i] \in [url : Url, tests : SUBSET all,
                    loading : BOOLEAN, refreshing : BOOLEAN, error : BOOLEAN]
    BY <2>1, <2>4 DEF OwnRow
  <2>6. QED
    BY <2>5 DEF all
<1>3. ASSUME NEW n \in DOMAIN fetches PROVE fetches[n].at \in DOMAIN fetches[n].todo
  <2>1. OwnFetch(fetches[n])
    BY OwnSubSeq DEF LiveInv
  <2>2. QED
    BY <2>1 DEF OwnFetch
<1>4. QED
  BY <1>1, <1>2, <1>3 DEF LiveTypeOK, PanelOK, LiveInv

LEMMA PanelInit == LiveInit => PanelOK
<1> SUFFICES ASSUME LiveInit PROVE PanelOK
  OBVIOUS
<1>1. PICK es \in EndpointList, act \in BOOLEAN : LiveMounted(es, act)
  BY DEF LiveInit
<1>2. pages \in [Url -> Nat \ {0}]
  BY <1>1 DEF LiveMounted
<1>3. perPage \in PageSize /\ active \in BOOLEAN /\ crashed \in BOOLEAN
  BY <1>1, LeastPageSize DEF LiveMounted
<1>4. tests \in [Url -> [Run -> Status]]
  BY DEF LiveInit, Status
<1>5. events \in 0..MaxEvents
  BY LiveAssumption DEF LiveInit
<1>6. QED
  BY <1>2, <1>3, <1>4, <1>5 DEF PanelOK

LEMMA PanelStep ==
    ASSUME LiveInv, PanelOK, [LiveNext]_liveVars
    PROVE  PanelOK'
<1>1. UNCHANGED <<pages, perPage>> \/ Unmounted =>
          pages' \in [Url -> Nat \ {0}] /\ perPage' \in PageSize
  BY LeastPageSize DEF PanelOK, Unmounted
<1>2. events' = events \/ Event => events' \in 0..MaxEvents
  BY LiveAssumption DEF PanelOK, Event
<1>3. /\ tests' = tests => tests' \in [Url -> [Run -> Status]]
      /\ active' = active => active' \in BOOLEAN
      /\ crashed' = crashed => crashed' \in BOOLEAN
  BY DEF PanelOK
<1>4. CASE ServerStep
  <2>1. PICK u \in Url, r \in Run, st \in Status : tests' = [tests EXCEPT ![u][r] = st]
    BY <1>4, LiveAssumption DEF ServerStep
  <2>2. tests' \in [Url -> [Run -> Status]]
    BY <2>1 DEF PanelOK
  <2>3. QED
    BY <1>1, <1>2, <1>3, <1>4, <2>2 DEF ServerStep, PanelOK
<1>5. CASE ConfigChanged
  BY <1>1, <1>2, <1>3, <1>5 DEF ConfigChanged, PanelOK
<1>6. CASE \E n \in DOMAIN fetches : ListAnswer(n) \/ ListApplied(n)
  BY <1>1, <1>2, <1>3, <1>6 DEF ListAnswer, ListApplied, PanelOK
<1>7. CASE RefreshTick \/ TryAgain \/ TabsDropSearch \/ UNCHANGED liveVars
  BY <1>1, <1>2, <1>3, <1>7 DEF RefreshTick, TryAgain, TabsDropSearch, liveVars, PanelOK
<1>8. ASSUME NEW i \in DOMAIN rows, ChangePage(i) PROVE PanelOK'
  <2>1. PICK p \in {pages[rows[i].url] - 1, pages[rows[i].url] + 1} :
            /\ pages[rows[i].url] = 1 => p # pages[rows[i].url] - 1
            /\ pages' = [pages EXCEPT ![rows[i].url] = p]
    BY <1>8 DEF ChangePage
  <2>2. rows[i].url \in Url
    BY DEF LiveInv, OwnRows, OwnRow
  <2>3. pages[rows[i].url] \in Nat \ {0}
    BY <2>2 DEF PanelOK
  <2>4. p \in Nat \ {0}
    BY <2>1, <2>3
  <2>5. pages' \in [Url -> Nat \ {0}]
    BY <2>1, <2>4 DEF PanelOK
  <2>6. QED
    BY <1>2, <1>3, <1>8, <2>5 DEF ChangePage, PanelOK
<1>9. ASSUME NEW i \in DOMAIN rows, ChangePageSize(i) PROVE PanelOK'
  BY <1>2, <1>3, <1>9 DEF ChangePageSize, PanelOK
<1>10. QED
  BY <1>4, <1>5, <1>6, <1>7, <1>8, <1>9 DEF LiveNext

(* The live panel's state has its types.                                   *)
THEOREM LiveTypeOKHolds == LiveSpec => []LiveTypeOK
<1>1. LiveInv /\ PanelOK /\ [LiveNext]_liveVars => PanelOK'
  BY PanelStep
<1>2. LiveInv /\ PanelOK => LiveTypeOK
  BY LiveTypes
<1>3. QED
  BY <1>1, <1>2, LiveInvInit, LiveInvStep, PanelInit, PTL DEF LiveSpec

(* What a table lists can be counted.                                      *)
LEMMA ListedCounts ==
    ASSUME LiveTypeOK, LiveInv, NEW i \in DOMAIN rows
    PROVE  Cardinality(Listed(rows[i])) \in Nat
<1> DEFINE T == [run : RunsOf[rows[i].url], status : Status \ {"absent"}]
           P == RunsOf[rows[i].url] \X (Status \ {"absent"})
           f == [t \in T |-> <<t.run, t.status>>]
<1>1. rows[i].url \in Url /\ rows[i].tests \subseteq T
  BY DEF LiveInv, OwnRows, OwnRow, SummaryOf
<1>2. RunsOf[rows[i].url] \in SUBSET Run /\ IsFiniteSet(Run)
  BY <1>1, LiveAssumption
<1>3. IsFiniteSet(RunsOf[rows[i].url])
  BY <1>2, FS_Subset, Zenon
<1>4. IsFiniteSet(Status \ {"absent"})
  <2>1. Status \ {"absent"} = ({"running"} \cup {"complete"}) \cup {"failed"}
    BY DEF Status
  <2>2. IsFiniteSet({"running"})
    BY FS_Singleton
  <2>3. IsFiniteSet({"running"} \cup {"complete"})
    BY <2>2, FS_AddElement, Zenon
  <2>4. IsFiniteSet(({"running"} \cup {"complete"}) \cup {"failed"})
    BY <2>3, FS_AddElement, Zenon
  <2>5. QED
    BY <2>1, <2>4
<1>5. IsFiniteSet(P)
  BY <1>3, <1>4, FS_Product
<1>6. f \in [T -> P] /\ \A t, u \in T : f[t] = f[u] => t = u
  OBVIOUS
<1> HIDE DEF f, T, P
<1>7. f \in Injection(T, P)
  BY <1>6 DEF Injection, IsInjective
<1>8. IsFiniteSet(T)
  BY <1>5, <1>7, FS_Injection
<1>9. Listed(rows[i]) \in SUBSET T
  BY <1>1 DEF Listed
<1>10. QED
  BY <1>8, <1>9, FS_Subset, FS_CardinalityType

LEMMA PageInRangeKept ==
    ASSUME LiveTypeOK, LiveInv, LiveTypeOK', [LiveNext]_liveVars, NEW i \in DOMAIN rows,
           rows' = rows, active' = active, OnlyRowOf(i), PageInRange(i)
    PROVE  PageInRange(i)'
<1> DEFINE n == Cardinality(Listed(rows[i]))
           u == rows[i].url
<1>1. n \in Nat /\ n' = n /\ u \in Url
  BY ListedCounts DEF LiveTypeOK, Listed
<1>2. perPage \in Nat \ {0} /\ perPage' \in Nat \ {0} /\ pages[u] \in Nat \ {0}
  BY <1>1, LiveAssumption DEF LiveTypeOK
<1>3. /\ TotalPages(n, perPage) \in Nat /\ (TotalPages(n, perPage) >= 1 <=> n >= 1)
      /\ TotalPages(n, perPage') \in Nat /\ (TotalPages(n, perPage') >= 1 <=> n >= 1)
  BY <1>1, <1>2, TotalPagesIs
<1>4. pages[u] <= TotalPages(n, perPage) /\ n >= 1
  BY <1>1, <1>2, <1>3 DEF PageInRange
<1>5. PageInRange(i)' <=> pages'[u] <= TotalPages(n, perPage')
  BY <1>1 DEF PageInRange
<1>6. CASE UNCHANGED <<pages, perPage>>
  BY <1>4, <1>5, <1>6
<1>7. ASSUME NEW j \in DOMAIN rows, ChangePage(j) PROVE PageInRange(i)'
  <2>1. CASE rows[j].url = u
    <3>1. j = i
      BY <2>1 DEF OnlyRowOf
    <3>2. PICK p \in {pages[u] - 1, pages[u] + 1} :
              /\ pages[u] = TotalPages(n, perPage) => p # pages[u] + 1
              /\ pages' = [pages EXCEPT ![u] = p]
      BY <1>7, <3>1 DEF ChangePage
    <3>3. pages'[u] = p /\ perPage' = perPage
      BY <1>1, <1>7, <3>2 DEF LiveTypeOK, ChangePage
    <3> HIDE DEF n, u
    <3>4. p <= TotalPages(n, perPage)
      BY <1>2, <1>3, <1>4, <3>2
    <3>5. QED
      BY <1>5, <3>3, <3>4
  <2>2. CASE rows[j].url # u
    <3>1. pages'[u] = pages[u] /\ perPage' = perPage
      BY <1>1, <1>7, <2>2 DEF LiveTypeOK, ChangePage
    <3>2. QED
      BY <1>4, <1>5, <3>1
  <2>3. QED
    BY <2>1, <2>2
<1>8. ASSUME NEW j \in DOMAIN rows, ChangePageSize(j) PROVE PageInRange(i)'
  BY <1>1, <1>3, <1>4, <1>5, <1>8 DEF ChangePageSize
<1>9. CASE UNCHANGED liveVars
  BY <1>6, <1>9 DEF liveVars
<1>10. ~Unmounted
  BY DEF Unmounted
<1>11. QED
  BY <1>6, <1>7, <1>8, <1>9, <1>10
     DEF LiveNext, ServerStep, ConfigChanged, ListAnswer, ListApplied, TryAgain, RefreshTick,
         TabsDropSearch

(* No click on a pager or a page size leads to an empty page.              *)
THEOREM LivePagesStayInRangeHolds == LiveSpec => LivePagesStayInRange
<1>1. LiveTypeOK /\ LiveInv /\ LiveTypeOK' /\ [LiveNext]_liveVars =>
          [\A i \in DOMAIN rows :
              (/\ rows' = rows /\ active' = active
               /\ ShowsTable(rows[i]) /\ OnlyRowOf(i) /\ PageInRange(i))
                  => PageInRange(i)']_liveVars
  BY PageInRangeKept
<1>2. LiveSpec => []LiveInv
  BY LiveInvInit, LiveInvStep, PTL DEF LiveSpec
<1>3. QED
  BY <1>1, <1>2, LiveTypeOKHolds, PTL DEF LiveSpec, LivePagesStayInRange

-----------------------------------------------------------------------------
(* Expanded tests. *)

Row   == [test : Test, running : BOOLEAN]
Entry == [state : {"loading", "data", "error"}, points : SUBSET (1..MaxPoint)]
Ask   == [test : Test, kind : {"initial", "poll"},
          answer : {None, Refused} \cup SUBSET (1..MaxPoint)]

Entries(dt) == DOMAIN dt \subseteq Test /\ \A t \in DOMAIN dt : dt[t] \in Entry
TableRows(tb)    == \A n \in DOMAIN tb : tb[n] \in Row

AsksFit(as, dt) ==
    \A a \in as :
        /\ a \in Ask /\ a.test \in DOMAIN dt
        /\ a.kind = "initial" => dt[a.test].state = "loading" /\ dt[a.test].points = {}
        /\ a.kind = "poll" => dt[a.test].state = "data"

OneFirst(as) ==
    \A a, b \in as : a.kind = "initial" /\ b.kind = "initial" /\ a.test = b.test => a = b

PollsFit(ps, dt) == \A t \in ps : t \in DOMAIN dt /\ dt[t].state = "data"

DetailsInv ==
    /\ runs \in [Test -> RunState]
    /\ expandAll \in BOOLEAN
    /\ TableRows(table) /\ Entries(details)
    /\ expanded \subseteq DOMAIN details /\ polling \subseteq expanded
    /\ AsksFit(asks, details) /\ OneFirst(asks) /\ PollsFit(polling, details)

\* dt has every point that dtOld has.
Grown(dtOld, dt) ==
    \A t \in DOMAIN dtOld : t \in DOMAIN dt /\ dtOld[t].points \subseteq dt[t].points

-----------------------------------------------------------------------------

(* A commit keeps the invariant when what it commits fits, and adds to the *)
(* details only tests that had none.                                       *)
LEMMA CommitKeeps ==
    ASSUME DetailsInv, UNCHANGED runs, expandAll' \in BOOLEAN,
           NEW tb, NEW changed, NEW ex, NEW dt, NEW as,
           TableRows(tb), Entries(dt), ex \subseteq DOMAIN dt,
           AsksFit(as, dt), OneFirst(as), PollsFit(polling, dt),
           Grown(details, dt),
           CommitTable(tb, changed, ex, dt, as)
    PROVE  DetailsInv' /\ Grown(details, details')
<1> DEFINE auto  == {tb[n].test : n \in {m \in DOMAIN tb : expandAll /\ tb[m].running}}
           fresh == (auto \ ex) \ DOMAIN dt
           new   == [test : fresh, kind : {"initial"}, answer : {None}]
<1>1. /\ table' = tb /\ expanded' = ex \cup auto
      /\ details' = [t \in DOMAIN dt \cup fresh |-> IF t \in fresh THEN Loading ELSE dt[t]]
      /\ asks' = as \cup new
      /\ polling' = PollingAfter(tb, changed, expanded', details')
  BY DEF CommitTable
<1>2. auto \subseteq Test
  BY DEF TableRows, Row
<1>3. /\ fresh \subseteq Test /\ \A t \in fresh : t \notin DOMAIN dt
      /\ auto \subseteq ex \cup fresh \cup DOMAIN dt
  BY <1>2
<1> HIDE DEF auto, fresh
<1>4. /\ DOMAIN details' = DOMAIN dt \cup fresh
      /\ \A t \in DOMAIN dt : details'[t] = dt[t]
      /\ \A t \in fresh : details'[t] = Loading
  BY <1>1, <1>3
<1>5. Loading \in Entry /\ Loading.state = "loading" /\ Loading.points = {}
  BY DEF Loading, Entry
<1>6. Entries(details')
  BY <1>3, <1>4, <1>5 DEF Entries
<1>7. expanded' \subseteq DOMAIN details'
  BY <1>1, <1>3, <1>4
<1>8. \A a \in new : a \in Ask /\ a.test \in fresh /\ a.kind = "initial" /\ a.answer = None
  BY <1>3 DEF Ask
<1>9. \A a, b \in new : a.test = b.test => a = b
  OBVIOUS
<1> HIDE DEF new
<1>10. AsksFit(asks', details')
  <2>1. ASSUME NEW a \in as
        PROVE  /\ a \in Ask /\ a.test \in DOMAIN details'
               /\ details'[a.test] = dt[a.test]
    BY <1>4 DEF AsksFit
  <2>2. ASSUME NEW a \in new
        PROVE  a \in Ask /\ a.test \in DOMAIN details' /\ details'[a.test] = Loading
    BY <1>4, <1>8
  <2>3. QED
    BY <1>1, <1>5, <1>8, <2>1, <2>2 DEF AsksFit
<1>11. OneFirst(asks')
  <2>1. \A a \in as, b \in new : a.test # b.test
    BY <1>3, <1>8 DEF AsksFit
  <2>2. QED
    BY <1>1, <1>9, <2>1 DEF OneFirst
<1>12. polling' \subseteq expanded' /\ PollsFit(polling', details')
  <2>1. ASSUME NEW t \in polling'
        PROVE  t \in expanded' /\ t \in DOMAIN details' /\ details'[t].state = "data"
    <3>1. t \in expanded'
      BY <1>1 DEF PollingAfter
    <3>2. t \in polling \/ (t \in DOMAIN details' /\ details'[t].state = "data")
      BY <1>1 DEF PollingAfter
    <3>3. t \in polling => t \in DOMAIN dt /\ dt[t].state = "data"
      BY DEF PollsFit
    <3>4. QED
      BY <1>4, <3>1, <3>2, <3>3
  <2>2. QED
    BY <2>1 DEF PollsFit
<1>13. Grown(details, details')
  BY <1>4 DEF Grown
<1>14. DetailsInv'
  BY <1>1, <1>6, <1>7, <1>10, <1>11, <1>12 DEF DetailsInv
<1>15. QED
  BY <1>13, <1>14

(* What the server does: its runs stay runs.                               *)
LEMMA ServerKeepsType ==
    ASSUME runs \in [Test -> RunState], NEW t \in Test,
           Keepalive(t) \/ Progress(t) \/ Finish(t)
    PROVE  runs' \in [Test -> RunState] /\ UNCHANGED <<asks, pageVars>>
<1>1. ASSUME NEW r \in RunState, SetRun(t, r)
      PROVE  runs' \in [Test -> RunState] /\ UNCHANGED <<asks, pageVars>>
  BY <1>1 DEF SetRun
<1>2. runs[t] \in RunState
  OBVIOUS
<1>3. CASE Keepalive(t)
  <2>1. [runs[t] EXCEPT !.known = TRUE, !.running = TRUE] \in RunState
    BY <1>2 DEF RunState
  <2>2. QED
    BY <1>1, <1>3, <2>1 DEF Keepalive
<1>4. CASE Progress(t)
  <2> DEFINE p == runs[t].last + 1
             s == {q \in runs[t].points \cup {p} : q + MaxHistory > p}
             r == [runs[t] EXCEPT !.last = p, !.points = s]
  <2>1. p \in 1..MaxPoint
    BY <1>2, <1>4, DetailsAssumption DEF Progress, RunState
  <2>2. s \subseteq 1..MaxPoint
    BY <1>2, <2>1 DEF RunState
  <2>3. SetRun(t, r)
    BY <1>4 DEF Progress
  <2> HIDE DEF p, s
  <2>4. r \in RunState
    <3>1. runs[t] \in [known : BOOLEAN, running : BOOLEAN, last : 0..MaxPoint,
                       points : SUBSET (1..MaxPoint)]
      BY <1>2 DEF RunState
    <3>2. p \in 0..MaxPoint /\ s \in SUBSET (1..MaxPoint)
      BY <2>1, <2>2
    <3>3. r \in [known : BOOLEAN, running : BOOLEAN, last : 0..MaxPoint,
                 points : SUBSET (1..MaxPoint)]
      BY <3>1, <3>2
    <3>4. QED
      BY <3>3 DEF RunState
  <2>5. QED
    BY <1>1, <2>3, <2>4
<1>5. CASE Finish(t)
  <2>1. [runs[t] EXCEPT !.running = FALSE] \in RunState
    BY <1>2 DEF RunState
  <2>2. QED
    BY <1>1, <1>5, <2>1 DEF Finish
<1>6. QED
  BY <1>3, <1>4, <1>5

-----------------------------------------------------------------------------
(* The requests. *)

(* The table is displayed, or changes, with the details that are there.    *)
LEMMA CommitSameDetails ==
    ASSUME DetailsInv, UNCHANGED <<runs, expandAll>>,
           NEW tb, NEW changed, NEW ex, TableRows(tb), ex \subseteq DOMAIN details,
           CommitTable(tb, changed, ex, details, asks)
    PROVE  DetailsInv' /\ Grown(details, details')
<1>1. Grown(details, details)
  BY DEF Grown
<1>2. /\ Entries(details) /\ AsksFit(asks, details) /\ OneFirst(asks)
      /\ PollsFit(polling, details) /\ expandAll' \in BOOLEAN
  BY DEF DetailsInv
<1>3. QED
  BY <1>1, <1>2, CommitKeeps

LEMMA TableCommitKeeps ==
    ASSUME DetailsInv, TableCommit
    PROVE  DetailsInv' /\ Grown(details, details')
<1>1. PICK S \in SUBSET Test : \E order \in SetToSeqs(S), flags \in [S -> BOOLEAN],
          changed \in BOOLEAN :
             CommitTable([n \in DOMAIN order |->
                             [test |-> order[n], running |-> flags[order[n]]]],
                         changed, expanded, details, asks)
  BY DEF TableCommit
<1>2. PICK order \in SetToSeqs(S), flags \in [S -> BOOLEAN], changed \in BOOLEAN :
             CommitTable([n \in DOMAIN order |->
                             [test |-> order[n], running |-> flags[order[n]]]],
                         changed, expanded, details, asks)
  BY <1>1
<1> DEFINE tb == [n \in DOMAIN order |-> [test |-> order[n], running |-> flags[order[n]]]]
<1>3. \A n \in DOMAIN order : order[n] \in S
  BY DEF SetToSeqs
<1>4. TableRows(tb)
  BY <1>3 DEF TableRows, Row
<1>5. CommitTable(tb, changed, expanded, details, asks)
  BY <1>2
<1> HIDE DEF tb
<1>6. QED
  BY <1>4, <1>5, CommitSameDetails DEF TableCommit, DetailsInv

LEMMA ToggleKeeps ==
    ASSUME DetailsInv, NEW t \in Shown(table), Toggle(t)
    PROVE  DetailsInv' /\ Grown(details, details')
<1>1. t \in Test
  BY DEF Shown, DetailsInv, TableRows, Row
<1>2. TableRows(table) /\ expanded \subseteq DOMAIN details
  BY DEF DetailsInv
<1>3. CASE t \in expanded \/ t \in DOMAIN details
  BY <1>2, <1>3, CommitSameDetails DEF Toggle
<1>4. CASE t \notin expanded /\ t \notin DOMAIN details
  <2> DEFINE dt == [u \in DOMAIN details \cup {t} |-> IF u = t THEN Loading ELSE details[u]]
             a  == [test |-> t, kind |-> "initial", answer |-> None]
             as == asks \cup {a}
             ex == expanded \cup {t}
  <2>1. CommitTable(table, FALSE, ex, dt, as)
    BY <1>4 DEF Toggle
  <2>2. /\ DOMAIN dt = DOMAIN details \cup {t} /\ dt[t] = Loading
        /\ \A u \in DOMAIN details : dt[u] = details[u]
    BY <1>4
  <2>3. a \in Ask /\ a.test = t /\ a.kind = "initial"
    BY <1>1 DEF Ask
  <2> HIDE DEF a, dt
  <2>4. Loading \in Entry /\ Loading.state = "loading" /\ Loading.points = {}
    BY DEF Loading, Entry
  <2>5. Entries(dt)
    BY <1>1, <2>2, <2>4 DEF DetailsInv, Entries
  <2>6. AsksFit(as, dt)
    BY <2>2, <2>3, <2>4 DEF DetailsInv, AsksFit
  <2>7. OneFirst(as)
    BY <1>4, <2>3 DEF DetailsInv, OneFirst, AsksFit
  <2>8. PollsFit(polling, dt)
    BY <2>2 DEF DetailsInv, PollsFit
  <2>9. ex \subseteq DOMAIN dt /\ Grown(details, dt)
    BY <1>2, <2>2 DEF Grown
  <2>10. UNCHANGED runs /\ expandAll' \in BOOLEAN
    BY DEF Toggle, DetailsInv
  <2> HIDE DEF as, ex
  <2>11. QED
    BY <1>2, <2>1, <2>5, <2>6, <2>7, <2>8, <2>9, <2>10, CommitKeeps
<1>5. QED
  BY <1>3, <1>4

LEMMA PollKeeps ==
    ASSUME DetailsInv, NEW t \in polling, Poll(t)
    PROVE  DetailsInv' /\ Grown(details, details')
<1> DEFINE a == [test |-> t, kind |-> "poll", answer |-> None]
<1>1. asks' = asks \cup {a}
      /\ UNCHANGED <<runs, table, expandAll, expanded, details, polling>>
  BY DEF Poll, pageVars
<1>2. t \in DOMAIN details /\ details[t].state = "data" /\ t \in Test
  BY DEF DetailsInv, PollsFit, Entries
<1>3. a \in Ask /\ a.test = t /\ a.kind = "poll"
  BY <1>2 DEF Ask
<1> HIDE DEF a
<1>4. AsksFit(asks', details') /\ OneFirst(asks')
  BY <1>1, <1>2, <1>3 DEF DetailsInv, AsksFit, OneFirst
<1>5. QED
  BY <1>1, <1>4 DEF DetailsInv, Grown, TableRows, Entries, PollsFit

(* An answer is a set of points the server knew.                           *)
LEMMA DetailAnswerKeeps ==
    ASSUME DetailsInv, NEW a \in asks, DetailAnswer(a)
    PROVE  DetailsInv' /\ Grown(details, details')
<1>1. PICK delivered \in SyncoorOutcomes :
          asks' = (asks \ {a}) \cup {[a EXCEPT !.answer =
              IF delivered /\ runs[a.test].known THEN runs[a.test].points ELSE Refused]}
  BY DEF DetailAnswer
<1> DEFINE answer == IF delivered /\ runs[a.test].known THEN runs[a.test].points ELSE Refused
           b      == [a EXCEPT !.answer = answer]
<1>2. UNCHANGED <<runs, table, expandAll, expanded, details, polling>>
  BY DEF DetailAnswer, pageVars
<1>3. a \in Ask
  BY DEF DetailsInv, AsksFit
<1>4. answer \in {None, Refused} \cup SUBSET (1..MaxPoint)
  <2>1. runs[a.test] \in RunState
    BY <1>3 DEF DetailsInv, Ask
  <2>2. runs[a.test].points \subseteq 1..MaxPoint
    BY <2>1 DEF RunState
  <2>3. QED
    BY <2>2
<1>5. asks' = (asks \ {a}) \cup {b}
  BY <1>1
<1> HIDE DEF answer
<1>6. b \in Ask /\ b.test = a.test /\ b.kind = a.kind
  BY <1>3, <1>4 DEF Ask
<1> HIDE DEF b
<1>7. AsksFit(asks', details') /\ OneFirst(asks')
  BY <1>2, <1>5, <1>6 DEF DetailsInv, AsksFit, OneFirst
<1>8. QED
  BY <1>2, <1>7 DEF DetailsInv, Grown, TableRows, Entries, PollsFit

(* A first answer replaces an empty history; a poll is merged.             *)
LEMMA DetailApplyKeeps ==
    ASSUME DetailsInv, NEW a \in asks, DetailApplied(a)
    PROVE  DetailsInv' /\ Grown(details, details')
<1> DEFINE t  == a.test
           e  == DetailAfter(a)
           dt == [details EXCEPT ![t] = e]
           as == asks \ {a}
<1>1. /\ CommitTable(table, FALSE, expanded, dt, as) /\ a.answer # None
      /\ UNCHANGED <<runs, expandAll>>
  BY DEF DetailApplied
<1>2. /\ a \in Ask /\ t \in DOMAIN details /\ details[t] \in Entry
      /\ a.kind = "initial" => details[t].state = "loading" /\ details[t].points = {}
      /\ a.kind = "poll" => details[t].state = "data"
  BY DEF DetailsInv, AsksFit, Entries
<1>3. a.kind \in {"initial", "poll"} /\ a.answer \in {Refused} \cup SUBSET (1..MaxPoint)
  BY <1>1, <1>2 DEF Ask
<1>4. /\ e \in Entry /\ details[t].points \subseteq e.points
      /\ a.kind = "poll" => e.state = "data"
  <2>1. CASE a.answer = Refused /\ a.kind = "poll"
    BY <1>2, <2>1 DEF DetailAfter
  <2>2. CASE a.answer = Refused /\ a.kind = "initial"
    BY <1>2, <2>2 DEF DetailAfter, Entry
  <2>3. CASE a.answer # Refused /\ a.kind = "initial"
    <3>1. e = [state |-> "data", points |-> a.answer]
      BY <2>3 DEF DetailAfter
    <3>2. QED
      BY <1>2, <1>3, <2>3, <3>1 DEF Entry
  <2>4. CASE a.answer # Refused /\ a.kind = "poll"
    <3>1. e = [state |-> "data", points |-> details[t].points \cup a.answer]
      BY <2>4 DEF DetailAfter
    <3>2. details[t].points \cup a.answer \subseteq 1..MaxPoint
      BY <1>2, <1>3, <2>4 DEF Entry
    <3>3. QED
      BY <3>1, <3>2 DEF Entry
  <2>5. QED
    BY <1>3, <2>1, <2>2, <2>3, <2>4
<1>5. t \in polling => a.kind = "poll"
  BY <1>2, <1>3 DEF DetailsInv, PollsFit
<1> HIDE DEF e
<1>6. /\ DOMAIN dt = DOMAIN details /\ dt[t] = e
      /\ \A u \in DOMAIN details : u # t => dt[u] = details[u]
  BY <1>2
<1> HIDE DEF dt
<1>7. Entries(dt)
  BY <1>4, <1>6 DEF DetailsInv, Entries
<1>8. AsksFit(as, dt)
  <2> SUFFICES ASSUME NEW b \in as
               PROVE  /\ b \in Ask /\ b.test \in DOMAIN dt
                      /\ b.kind = "initial" => dt[b.test].state = "loading"
                                               /\ dt[b.test].points = {}
                      /\ b.kind = "poll" => dt[b.test].state = "data"
    BY DEF AsksFit
  <2>1. /\ b \in Ask /\ b.test \in DOMAIN details
        /\ b.kind = "initial" => details[b.test].state = "loading"
                                 /\ details[b.test].points = {}
        /\ b.kind = "poll" => details[b.test].state = "data"
    BY DEF DetailsInv, AsksFit
  <2>2. CASE b.test # t
    BY <1>6, <2>1, <2>2
  <2>3. CASE b.test = t
    <3>1. b.kind # "initial"
      BY <1>2, <1>3, <2>1, <2>3 DEF DetailsInv, OneFirst
    <3>2. b.kind = "poll" => a.kind = "poll"
      BY <1>2, <1>3, <2>1, <2>3
    <3>3. QED
      BY <1>4, <1>6, <2>1, <2>3, <3>1, <3>2
  <2>4. QED
    BY <2>2, <2>3
<1>9. OneFirst(as)
  BY DEF DetailsInv, OneFirst
<1>10. PollsFit(polling, dt)
  BY <1>4, <1>5, <1>6 DEF DetailsInv, PollsFit
<1>11. Grown(details, dt)
  BY <1>4, <1>6 DEF Grown
<1>12. TableRows(table) /\ expanded \subseteq DOMAIN dt /\ expandAll' \in BOOLEAN
  BY <1>1, <1>6 DEF DetailsInv
<1> HIDE DEF as
<1>13. QED
  BY <1>1, <1>7, <1>8, <1>9, <1>10, <1>11, <1>12, CommitKeeps

-----------------------------------------------------------------------------

LEMMA DetailsInvInit == DetailsInit => DetailsInv
<1> SUFFICES ASSUME DetailsInit PROVE DetailsInv
  OBVIOUS
<1>1. runs \in [Test -> RunState]
  <2>1. Unknown \in RunState
    BY DetailsAssumption DEF Unknown, RunState
  <2> DEFINE r == [known |-> TRUE, running |-> TRUE, last |-> 1, points |-> {1}]
  <2>2. 1 \in 0..MaxPoint /\ {1} \subseteq 1..MaxPoint
    BY DetailsAssumption
  <2>3. r \in RunState
    BY <2>2 DEF RunState
  <2> HIDE DEF r
  <2>4. runs \in [Test -> {Unknown, r}]
    BY DEF DetailsInit, r
  <2>5. QED
    BY <2>1, <2>3, <2>4
<1>2. /\ table = <<>> /\ expandAll \in BOOLEAN /\ expanded = {} /\ polling = {} /\ asks = {}
      /\ details = [t \in {} |-> Loading]
  BY DEF DetailsInit, DetailsMounted
<1>3. TableRows(table) /\ Entries(details)
  BY <1>2 DEF TableRows, Entries
<1>4. QED
  BY <1>1, <1>2, <1>3 DEF DetailsInv, AsksFit, OneFirst, PollsFit

LEMMA DetailsInvStep ==
    ASSUME DetailsInv, [DetailsNext]_detailsVars
    PROVE  DetailsInv' /\ Grown(details, details')
<1>1. ASSUME UNCHANGED <<asks, pageVars>>, runs' \in [Test -> RunState]
      PROVE  DetailsInv' /\ Grown(details, details')
  BY <1>1 DEF DetailsInv, Grown, TableRows, Entries, AsksFit, OneFirst, PollsFit, pageVars
<1>2. CASE \E t \in Test : Keepalive(t) \/ Progress(t) \/ Finish(t)
  BY <1>1, <1>2, ServerKeepsType DEF DetailsInv
<1>3. CASE Restart
  <2>1. \A u \in Test : [runs[u] EXCEPT !.known = FALSE, !.running = FALSE, !.points = {}]
                            \in RunState
    BY DEF DetailsInv, RunState
  <2>2. runs' \in [Test -> RunState] /\ UNCHANGED <<asks, pageVars>>
    BY <1>3, <2>1 DEF Restart
  <2>3. QED
    BY <1>1, <2>2
<1>4. CASE TableCommit
  BY <1>4, TableCommitKeeps
<1>5. CASE ExpandDropped
  BY <1>5 DEF ExpandDropped, DetailsInv, Grown, TableRows, Entries, AsksFit, OneFirst, PollsFit
<1>6. CASE \E t \in Shown(table) : Toggle(t)
  BY <1>6, ToggleKeeps
<1>7. CASE \E t \in polling : Poll(t)
  BY <1>7, PollKeeps
<1>8. CASE \E a \in asks : DetailAnswer(a) \/ DetailApplied(a)
  BY <1>8, DetailAnswerKeeps, DetailApplyKeeps
<1>9. CASE UNCHANGED detailsVars
  BY <1>1, <1>9 DEF detailsVars, DetailsInv
<1>10. QED
  BY <1>2, <1>3, <1>4, <1>5, <1>6, <1>7, <1>8, <1>9 DEF DetailsNext

-----------------------------------------------------------------------------
(* The theorems. *)

(* The invariant holds in every state of the live panel's details.         *)
THEOREM DetailsInvHolds == DetailsSpec => []DetailsInv
<1>1. DetailsInv /\ [DetailsNext]_detailsVars => DetailsInv'
  BY DetailsInvStep
<1>2. QED
  BY <1>1, DetailsInvInit, PTL DEF DetailsSpec

(* The state of the expanded tests has its types.                          *)
THEOREM DetailsTypeOKHolds == DetailsSpec => []DetailsTypeOK
<1>1. DetailsInv => DetailsTypeOK
  BY DEF DetailsInv, DetailsTypeOK, TableRows, Row, Entries, Entry, AsksFit, Ask
<1>2. QED
  BY <1>1, DetailsInvHolds, PTL

(* The history shown of an expanded test only grows: whatever order the    *)
(* answers come in, and whatever the server forgot, updateTestDetail's     *)
(* merge keeps the points that were there.                                 *)
THEOREM HistoryOnlyGrowsHolds == DetailsSpec => HistoryOnlyGrows
<1>1. DetailsInv /\ [DetailsNext]_detailsVars =>
          [\A t \in DOMAIN details :
              t \in DOMAIN details' /\ details[t].points \subseteq details'[t].points]_detailsVars
  BY DetailsInvStep DEF Grown
<1>2. QED
  BY <1>1, DetailsInvHolds, PTL DEF DetailsSpec, HistoryOnlyGrows

=============================================================================
