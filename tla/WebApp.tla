------------------------------- MODULE WebApp -------------------------------
(***************************************************************************)
(* The web dashboard: what one tab of the browser shows (App.tsx).         *)
(*                                                                         *)
(* The tests of the dashboard page and the dump explorer keep their state  *)
(* in their components, and nothing of it survives the page; the details   *)
(* page opens the explorer in a tab of its own.  What the report pages     *)
(* share, the cached queries, is in ReportPages, with the navigation       *)
(* between them.  The live panel, its expanded tests and the groups of     *)
(* finished tests are on one page but share no state, except that a tab    *)
(* of the groups drops the search parameters of the panel                  *)
(* (TabsDropSearch, ExpandDropped); so a behaviour looks at one of them,   *)
(* and the others stay as they were mounted.  The statistics of a group    *)
(* and the content of the details page only depend on the runs and the     *)
(* test ReportPages gives them, and are looked at on their own as well.    *)
(***************************************************************************)
EXTENDS LiveTests, LiveDetails, DumpViewer, ReportPages, TestPage, GroupStats

CONSTANTS
    PointOf, \* what the numbered points of a live test recorded
    Second   \* the parts of a second they are timed in

\* config.json may name no syncoor server; there is a test to look at; a point
\* has a time and the rest of what an entry has.
ASSUME WebAssumption ==
    /\ <<>> \in EndpointList /\ Finding # {}
    /\ PointOf \in Seq([at : Int, b : Int, s : Int, de : Int, dc : Int, pe : Int, pc : Int,
                        docker : DockerMetrics \cup {NoMetrics}])
    /\ MaxPoint \in DOMAIN PointOf
    /\ Second \in Nat \ {0}

VARIABLE page  \* what is looked at, one of Page
Page == {"live", "expanded", "reports", "dump", "test", "group"}

webVars == <<page, liveVars, detailsVars, dumpVars, reportVars, testPageVars, groupVars>>

LiveIdle ==
    /\ tests = [u \in Url |-> [r \in Run |-> "absent"]] /\ events = 0
    /\ LiveMounted(<<>>, FALSE)
DetailsIdle == runs = [t \in Test |-> Unknown] /\ DetailsMounted(FALSE)
DumpIdle    == DumpMounted([file |-> NoFile, full |-> FALSE])
ReportIdle  == published = {} /\ config = <<>> /\ ReportMounted(ListOf(NoFilter))
TestIdle    == TestPageMounted(CHOOSE f \in Finding : TRUE, FALSE)

\* The routes: "/" with its four parts, "/tests" and "/test/...", "/dump/...".
WebInit ==
    /\ page \in Page
    /\ IF page = "live"     THEN LiveInit     ELSE LiveIdle
    /\ IF page = "expanded" THEN DetailsInit  ELSE DetailsIdle
    /\ IF page = "reports"  THEN ReportInit   ELSE ReportIdle
    /\ IF page = "dump"     THEN DumpInit     ELSE DumpIdle
    /\ IF page = "test"     THEN TestPageInit ELSE TestIdle
    /\ IF page = "group"    THEN GroupInit    ELSE GroupMounted

WebNext ==
    /\ UNCHANGED page
    /\ \/ /\ page = "live" /\ LiveNext
          /\ UNCHANGED <<detailsVars, dumpVars, reportVars, testPageVars, groupVars>>
       \/ /\ page = "expanded" /\ DetailsNext
          /\ UNCHANGED <<liveVars, dumpVars, reportVars, testPageVars, groupVars>>
       \/ /\ page = "reports" /\ ReportNext
          /\ UNCHANGED <<liveVars, detailsVars, dumpVars, testPageVars, groupVars>>
       \/ /\ page = "dump" /\ DumpNext
          /\ UNCHANGED <<liveVars, detailsVars, reportVars, testPageVars, groupVars>>
       \/ /\ page = "test" /\ TestPageNext
          /\ UNCHANGED <<liveVars, detailsVars, dumpVars, reportVars, groupVars>>
       \/ /\ page = "group" /\ GroupNext
          /\ UNCHANGED <<liveVars, detailsVars, dumpVars, reportVars, testPageVars>>

WebSpec == WebInit /\ [][WebNext]_webVars

(***************************************************************************)
(* Properties                                                              *)
(***************************************************************************)

\* The types of the pages.
WebTypeOK ==
    /\ LiveTypeOK /\ DetailsTypeOK /\ DumpTypeOK /\ ReportTypeOK
    /\ TestPageTypeOK /\ GroupTypeOK

\* Whatever a page shows as loading, refreshing or extracting is being asked
\* for: no order of answers, selections and refreshes leaves a spinner that
\* nobody will stop.
SpinnersAreServed == RefreshIsServed /\ DumpSpinnersAreServed

\* The user's clicks on a pager, a page size, a filter or a column never lead
\* to an empty page of the live tests or of the finished ones.
PagesStayInRange == LivePagesStayInRange /\ ListPagesStayInRange

\* LiveTestExpanded draws the points of a test that were merged, in any order
\* they came: one for each, and those of one second one after the other.
LiveCharts(t) ==
    LET order == Ascending(details[t].points)
    IN  TransformProgressPoints([n \in DOMAIN order |-> PointOf[order[n]]], Second)
LiveChartsFollowHistory ==
    \A t \in DOMAIN details : ChartsFollow(ProgressCharts(LiveCharts(t)), LiveCharts(t))

\* What is said of a test is said of the right one: the details page of the
\* test in its URL, the link to its dump, a chart of all that was recorded, a
\* saved log of its run and its client, and the URL of what is unfolded.
PagesTellTheirTest ==
    /\ ScreenIsOfTest /\ DumpInfoIsOfTest
    /\ ChartsFollowRecording /\ LiveChartsFollowHistory
    /\ DownloadsAreOwnLogs /\ SystemIsInURL

=============================================================================
