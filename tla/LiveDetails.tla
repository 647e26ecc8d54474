---------------------------- MODULE LiveDetails ----------------------------
(***************************************************************************)
(* The expanded tests of the live panel: expandedTests and testDetails of  *)
(* components/LiveTests.tsx, and components/LiveTestExpanded.tsx, which    *)
(* polls the details of a running test.                                    *)
(*                                                                         *)
(* The table of tests is the one LiveTests displays for one server; here   *)
(* any commit may give it any rows.  React identifies a row by its         *)
(* position, so an expanded test keeps its interval while it stays where   *)
(* it is, and restarts it when it moves or endpointData changes: that is   *)
(* also the only moment at which an interval is set, because the effect    *)
(* does not depend on the details.                                         *)
(*                                                                         *)
(* A progress history is the set of its timestamps: the code merges by     *)
(* timestamp and sorts.                                                    *)
(***************************************************************************)
EXTENDS Naturals, Sequences, FiniteSets, SequencesExt, WebFetch

CONSTANTS
    Test,       \* runs of one server
    MaxHistory, \* points the server keeps of a run
    MaxPoint,   \* bound: points a run reports
    MaxAsks,    \* bound: detail requests of a test in flight
    None,       \* an answer that has not come
    Refused     \* the request failed after its retries, or was refused

ASSUME DetailsAssumption ==
    /\ MaxHistory \in Nat \ {0}
    /\ MaxPoint \in Nat \ {0}
    /\ MaxAsks \in Nat

VARIABLES
    runs,      \* what the server knows of each run
    table,     \* the tests displayed, in their order
    expandAll, \* ?expand=true
    expanded,  \* expandedTests
    details,   \* testDetails, on the tests that have an entry
    asks,      \* fetchSyncoorTestDetail calls in flight
    polling    \* the expanded tests whose 30 second interval is set

pageVars    == <<table, expandAll, expanded, details, polling>>
detailsVars == <<runs, asks, pageVars>>

-----------------------------------------------------------------------------
(* The server, as TestStore has it: the points of a run are numbered, the
   last MaxHistory are kept, and a restart forgets them. *)

Unknown == [known |-> FALSE, running |-> FALSE, last |-> 0, points |-> {}]

SetRun(t, r) ==
    /\ runs' = [runs EXCEPT ![t] = r]
    /\ UNCHANGED <<asks, pageVars>>

\* A keepalive of a run the server does not know creates it.
Keepalive(t) ==
    /\ ~runs[t].known
    /\ SetRun(t, [runs[t] EXCEPT !.known = TRUE, !.running = TRUE])

Progress(t) ==
    LET p == runs[t].last + 1
    IN  /\ runs[t].running /\ p <= MaxPoint
        /\ SetRun(t, [runs[t] EXCEPT !.last   = p,
                                     !.points = {q \in @ \cup {p} : q + MaxHistory > p}])

Finish(t) == runs[t].running /\ SetRun(t, [runs[t] EXCEPT !.running = FALSE])

Restart ==
    /\ runs' = [t \in Test |-> [runs[t] EXCEPT !.known = FALSE, !.running = FALSE,
                                               !.points = {}]]
    /\ runs' # runs
    /\ UNCHANGED <<asks, pageVars>>

-----------------------------------------------------------------------------

Loading == [state |-> "loading", points |-> {}]
Shown(tb) == {tb[n].test : n \in DOMAIN tb}

\* The expanded tests tb displays that have an interval after a commit: one
\* that stayed in place keeps what it had unless endpointData changed, every
\* other gets one if it runs and its details are there.
PollingAfter(tb, changed, ex, dt) ==
    LET stays(n) == /\ ~changed
                    /\ n \in DOMAIN table /\ table[n].test = tb[n].test
                    /\ tb[n].test \in expanded
        polls(n) == IF stays(n) THEN tb[n].test \in polling
                    ELSE /\ tb[n].running
                         /\ tb[n].test \in DOMAIN dt /\ dt[tb[n].test].state = "data"
    IN  {tb[n].test : n \in {m \in DOMAIN tb : tb[m].test \in ex /\ polls(m)}}

\* A commit: with ?expand=true it expands the running tests it displays, and
\* a test expanded for the first time has its details asked for.
CommitTable(tb, changed, ex, dt, as) ==
    LET auto  == {tb[n].test : n \in {m \in DOMAIN tb : expandAll /\ tb[m].running}}
        fresh == (auto \ ex) \ DOMAIN dt
    IN  /\ table' = tb
        /\ expanded' = ex \cup auto
        /\ details' = [t \in DOMAIN dt \cup fresh |-> IF t \in fresh THEN Loading ELSE dt[t]]
        /\ asks' = as \cup [test : fresh, kind : {"initial"}, answer : {None}]
        /\ polling' = PollingAfter(tb, changed, expanded', details')

\* The table after an answer of fetchData, a tick, another page or filter.
\* Only the first two change endpointData.
TableCommit ==
    /\ \E S \in SUBSET Test : \E order \in SetToSeqs(S), flags \in [S -> BOOLEAN],
          changed \in BOOLEAN :
             LET tb == [n \in DOMAIN order |->
                           [test |-> order[n], running |-> flags[order[n]]]]
             IN  CommitTable(tb, changed, expanded, details, asks)
    /\ UNCHANGED <<runs, expandAll>>

\* The tabs of the dashboard drop the parameter from the URL.
ExpandDropped ==
    /\ expandAll /\ expandAll' = FALSE
    /\ UNCHANGED <<runs, asks, table, expanded, details, polling>>

\* toggleTestExpansion, by a click on the row of t.
Toggle(t) ==
    /\ IF t \in expanded
       THEN CommitTable(table, FALSE, expanded \ {t}, details, asks)
       ELSE IF t \in DOMAIN details
       THEN CommitTable(table, FALSE, expanded \cup {t}, details, asks)
       ELSE CommitTable(table, FALSE, expanded \cup {t},
                   [u \in DOMAIN details \cup {t} |-> IF u = t THEN Loading ELSE details[u]],
                   asks \cup {[test |-> t, kind |-> "initial", answer |-> None]})
    /\ UNCHANGED <<runs, expandAll>>

\* The interval of an expanded test: updateTestDetail.
Poll(t) ==
    /\ Cardinality({a \in asks : a.test = t}) < MaxAsks
    /\ asks' = asks \cup {[test |-> t, kind |-> "poll", answer |-> None]}
    /\ UNCHANGED <<runs, pageVars>>

\* The server handles a request, or its attempts are used up.
DetailAnswer(a) ==
    /\ a.answer = None
    /\ \E delivered \in SyncoorOutcomes :
          asks' = (asks \ {a}) \cup {[a EXCEPT !.answer =
              IF delivered /\ runs[a.test].known THEN runs[a.test].points ELSE Refused]}
    /\ UNCHANGED <<runs, pageVars>>

\* Mutant: the answer to a poll replaces the history.
BadDetailAfterReplaces(a) ==
    CASE a.answer = Refused /\ a.kind = "poll" -> details[a.test]
      [] a.answer = Refused /\ a.kind = "initial" -> [state |-> "error", points |-> {}]
      [] OTHER -> [state |-> "data", points |-> a.answer]

\* What testDetails has after the answer of a: the first answer replaces the
\* entry, a poll is merged into it, a poll that failed leaves it alone.
DetailAfter(a) ==
    CASE a.answer = Refused /\ a.kind = "poll" -> details[a.test]
      [] a.answer = Refused /\ a.kind = "initial" -> [state |-> "error", points |-> {}]
      [] a.answer # Refused /\ a.kind = "initial" -> [state |-> "data", points |-> a.answer]
      [] a.answer # Refused /\ a.kind = "poll" ->
            [state |-> "data", points |-> details[a.test].points \cup a.answer]

DetailApplied(a) ==
    /\ a.answer # None
    /\ CommitTable(table, FALSE, expanded, [details EXCEPT ![a.test] = DetailAfter(a)], asks \ {a})
    /\ UNCHANGED <<runs, expandAll>>

DetailsMounted(all) ==
    /\ table = <<>> /\ expandAll = all
    /\ expanded = {} /\ details = [t \in {} |-> Loading] /\ polling = {}
    /\ asks = {}

DetailsInit ==
    /\ runs \in [Test -> {Unknown, [known |-> TRUE, running |-> TRUE,
                                    last |-> 1, points |-> {1}]}]
    /\ \E all \in BOOLEAN : DetailsMounted(all)

DetailsNext ==
    \/ \E t \in Test : Keepalive(t) \/ Progress(t) \/ Finish(t)
    \/ Restart
    \/ TableCommit
    \/ ExpandDropped
    \/ \E t \in Shown(table) : Toggle(t)
    \/ \E t \in polling : Poll(t)
    \/ \E a \in asks : DetailAnswer(a) \/ DetailApplied(a)

DetailsSpec == DetailsInit /\ [][DetailsNext]_detailsVars

(***************************************************************************)
(* Properties                                                              *)
(***************************************************************************)

RunState == [known : BOOLEAN, running : BOOLEAN, last : 0..MaxPoint,
             points : SUBSET (1..MaxPoint)]

DetailsTypeOK ==
    /\ runs \in [Test -> RunState]
    /\ expandAll \in BOOLEAN
    /\ \A n \in DOMAIN table : table[n] \in [test : Test, running : BOOLEAN]
    /\ expanded \subseteq DOMAIN details /\ polling \subseteq expanded
    /\ DOMAIN details \subseteq Test
    /\ \A t \in DOMAIN details : details[t] \in
          [state : {"loading", "data", "error"}, points : SUBSET (1..MaxPoint)]
    /\ \A a \in asks : a.test \in DOMAIN details /\ a.kind \in {"initial", "poll"}

\* The chart of an expanded test never loses a point it showed: not when the
\* answers to polls come out of order, not when the first answer meets a poll,
\* not when the server trimmed its history or restarted and knows the run with
\* an empty one.
HistoryOnlyGrows ==
    [][\A t \in DOMAIN details :
          t \in DOMAIN details' /\ details[t].points \subseteq details'[t].points]_detailsVars

=============================================================================
