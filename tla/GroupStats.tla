----------------------------- MODULE GroupStats -----------------------------
(***************************************************************************)
(* What the dashboard computes of the runs of one group of clients: the    *)
(* cards above its table (calculateClientGroupStats and the success rate), *)
(* and the trends of ClientGroupDurationChart.tsx and                      *)
(* ClientGroupDiskChart.tsx, with the lines their legends hide.            *)
(*                                                                         *)
(* A run has the time of its report, its status, "" if the report has      *)
(* none, its duration and the EL disk usage of its last entry, 0 if it has *)
(* none.  A mean is a pair: what is summed up and how many.                *)
(***************************************************************************)
EXTENDS Integers, Sequences, FiniteSets, SequencesExt, ProgressCharts

CONSTANTS
    RunKind,  \* what runs come to: a status, a duration and a disk usage
    NoData,   \* a card without a number
    MaxGroup  \* bound: runs of the group

ASSUME GroupAssumption ==
    /\ RunKind \subseteq [status : STRING, duration : Nat, disk : Nat]
    /\ MaxGroup \in Nat

VARIABLES
    group,  \* the runs of the group as the index has them, the newest first
    hidden  \* the lines the legends of the two charts hide

groupVars == <<group, hidden>>

-----------------------------------------------------------------------------
(* lib/utils.ts *)

\* getOptimalMovingAverageWindow
MovingAverageWindow(n) ==
    CASE n < 5 -> Greatest(3, n)
      [] n \in 5..19    -> 5
      [] n \in 20..49   -> 10
      [] n \in 50..99   -> 15
      [] n \in 100..199 -> 20
      [] OTHER -> Smallest(30, (15 * n) \div 100)

\* The values that are averaged at position i: half a window before it, and
\* what is left of the window from there.
Averaged(values, i) ==
    LET size  == MovingAverageWindow(Len(values))
        start == Greatest(0, i - 1 - (size \div 2))
    IN  SubSeq(values, start + 1, Smallest(Len(values), start + size))

Mean(s) == <<Total(s), Len(s)>>

\* calculateMovingAverage
MovingAverage(values) == [i \in DOMAIN values |-> Mean(Averaged(values, i))]

\* calculateConfidenceBands: the mean, and the variance over n as the square
\* of the standard error.  A band is 1.96 standard errors wide and does not
\* go below zero.
ConfidenceBands(values) ==
    [i \in DOMAIN values |->
        LET w == Averaged(values, i)
            n == Len(w)
            spread == Total([k \in DOMAIN w |-> (n * w[k] - Total(w)) ^ 2])
        IN  [mean |-> Mean(w), squaredError |-> <<spread, n ^ 4>>,
             clipped |-> 196 ^ 2 * spread > (100 * n * Total(w)) ^ 2]]

\* A run without a status succeeded.
Succeeded(rs) == Kept(rs, {n \in DOMAIN rs : rs[n].status \in {"", "success"}})
Timed(rs)     == Kept(rs, {n \in DOMAIN rs : rs[n].duration > 0})
WithDisk(rs)  == Kept(rs, {n \in DOMAIN rs : rs[n].disk > 0})
OldestFirst(rs) == ByTime(rs)
NewestFirst(rs) == Reverse(ByTime(rs))

\* Mutant: a run that did not succeed counts as well.
BadTrendDurationOfAll(rs) ==
    LET timed == OldestFirst(Timed(rs))
        ds    == [n \in DOMAIN timed |-> timed[n].duration]
    IN  IF ds = <<>> THEN NoData ELSE MovingAverage(ds)[Len(ds)]

\* The last moving average of the successful runs, of fewer than three the
\* plain average.
TrendDuration(rs) ==
    LET timed == OldestFirst(Timed(Succeeded(rs)))
        ds    == [n \in DOMAIN timed |-> timed[n].duration]
    IN  CASE ds = <<>> -> NoData
          [] Len(ds) \in 1..2 -> Mean(ds)
          [] OTHER -> MovingAverage(ds)[Len(ds)]

RecentDiskUsage(rs) ==
    LET used == WithDisk(NewestFirst(Succeeded(rs)))
    IN  IF used = <<>> THEN NoData ELSE used[1].disk

\* calculateClientGroupStats
ClientGroupStats(rs) ==
    IF rs = <<>> THEN [lastRuntime |-> NoData, duration |-> NoData, disk |-> NoData]
    ELSE [lastRuntime |-> NewestFirst(rs)[1].t, duration |-> TrendDuration(rs),
          disk |-> RecentDiskUsage(rs)]

-----------------------------------------------------------------------------
(* Dashboard and its charts. *)

\* "Test Success Rate"
SuccessRate(rs) ==
    IF rs = <<>> THEN NoData ELSE Rounded(100 * Len(Succeeded(rs)), Len(rs))

\* The points of a chart of a field, and their trend if there are three.
Trended(rs, field) ==
    LET p == OldestFirst(rs)
        values == [n \in DOMAIN p |-> p[n][field]]
    IN  [values |-> values, bands |-> IF Len(p) >= 3 THEN ConfidenceBands(values) ELSE <<>>]

DurationChart(rs) == Trended(rs, "duration")
DiskChart(rs) == Trended(WithDisk(rs), "disk")

\* The charts are there if two runs of the group succeeded.
ChartsDrawn(rs) ==
    IF Len(Succeeded(rs)) > 1
    THEN {[chart |-> "duration", line |-> DurationChart(Succeeded(rs))],
          [chart |-> "disk", line |-> DiskChart(Succeeded(rs))]}
    ELSE {}

-----------------------------------------------------------------------------

\* A run ends and the next query of the dashboard finds it.
RunEnds ==
    /\ Len(group) < MaxGroup
    /\ \E k \in RunKind :
          group' = <<[t |-> Len(group) + 1, status |-> k.status, duration |-> k.duration,
                      disk |-> k.disk]>> \o group
    /\ UNCHANGED hidden

Lines == {<<"duration", "value">>, <<"duration", "trend">>, <<"disk", "value">>, <<"disk", "trend">>}

\* handleLegendClick: a line is in the legend if it is drawn, the trend with
\* three points; nothing else of a chart is.
HandleLegendClick(chart, line) ==
    /\ \E c \in ChartsDrawn(group) :
          /\ c.chart = chart /\ c.line.values # <<>>
          /\ line = "value" \/ c.line.bands # <<>>
    /\ hidden' = SymDiff(hidden, {<<chart, line>>})
    /\ UNCHANGED group

GroupMounted == group = <<>> /\ hidden = {}
GroupInit == GroupMounted
GroupNext == RunEnds \/ \E l \in Lines : HandleLegendClick(l[1], l[2])
GroupStatsSpec == GroupInit /\ [][GroupNext]_groupVars

(***************************************************************************)
(* Properties                                                              *)
(***************************************************************************)

GroupTypeOK ==
    /\ Len(group) <= MaxGroup
    /\ \A n \in DOMAIN group :
          [status |-> group[n].status, duration |-> group[n].duration, disk |-> group[n].disk]
              \in RunKind
    /\ hidden \subseteq Lines

\* The cards of a group are about its latest successes: the trend is the mean
\* duration of the newest of them, as many as half a window and one, no run
\* that timed out or failed moves it, and neither does the order of the index;
\* the disk usage is that of the newest success that has one.  No band of a
\* chart lies beside the values it averages.
GroupShowsSuccesses ==
    LET all  == ToSet(group)
        good == {r \in all : r.status \in {"", "success"}}
        timed == {r \in good : r.duration > 0}
        latest(S, n) == {r \in S : Cardinality({q \in S : q.t > r.t}) < n}
        sum(S) == SumFunction([r \in S |-> r.duration])
        n  == IF Cardinality(timed) < 3 THEN 2
              ELSE MovingAverageWindow(Cardinality(timed)) \div 2 + 1
        of == latest(timed, n)
        stats == ClientGroupStats(group)
    IN  /\ stats.duration = IF timed = {} THEN NoData ELSE <<sum(of), Cardinality(of)>>
        /\ IF \A r \in good : r.disk = 0 THEN stats.disk = NoData
           ELSE \E r \in good : /\ r.disk > 0 /\ stats.disk = r.disk
                                /\ \A q \in good : q.disk > 0 => q.t <= r.t
        /\ group # <<>> => \A r \in all : r.t <= stats.lastRuntime
        /\ \A c \in ChartsDrawn(group) : \A i \in DOMAIN c.line.bands :
              LET m == c.line.bands[i].mean
              IN  /\ \E v \in ToSet(c.line.values) : v * m[2] <= m[1]
                  /\ \E v \in ToSet(c.line.values) : v * m[2] >= m[1]

=============================================================================
