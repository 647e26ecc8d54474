--------------------------- MODULE ProgressCharts ---------------------------
(***************************************************************************)
(* The charts of a test's progress: components/ProgressCharts.tsx, what    *)
(* the charts under components/charts make of the entries before they draw *)
(* them, and the numbers lib/utils.ts and hooks/useTestDetails.ts compute  *)
(* of them.                                                                *)
(*                                                                         *)
(* An entry has its time in seconds, the block and the slot, the disk (de, *)
(* dc) and the peers (pe, pc) of both clients, and the Docker metrics, if  *)
(* there are any: memory, bytes read and written since the container       *)
(* started, and CPU.  A quotient is a pair of integers; colours, labels    *)
(* and layout are left out.                                                *)
(***************************************************************************)
EXTENDS Integers, Sequences, FiniteSets, SequencesExt

CONSTANT NoMetrics  \* the Docker metrics of an entry without them

DockerMetrics == [me : Int, mc : Int, bre : Int, brc : Int, bwe : Int, bwc : Int,
                  ce : Int, cc : Int]
ProgressEntry == [t : Int, b : Int, s : Int, de : Int, dc : Int, pe : Int, pc : Int,
                  docker : DockerMetrics \cup {NoMetrics}]

Positive(x) == IF x > 0 THEN x ELSE 0
Greatest(a, b) == IF a > b THEN a ELSE b
Smallest(a, b) == IF a < b THEN a ELSE b

\* Math.round of n / d, for d > 0.
Rounded(n, d) == (2 * n + d) \div (2 * d)

\* A finite set in the order R: the element with k - 1 before it comes k-th.
InOrder(S, R) ==
    LET placed == {<<1 + Cardinality({y \in S : <<y, x>> \in R}), x>> : x \in S}
    IN  [k \in 1..Cardinality(S) |-> (CHOOSE p \in placed : p[1] = k)[2]]
Ascending(S) == InOrder(S, {p \in S \X S : p[1] < p[2]})

\* filter: the entries at the positions S.
Kept(es, S) == LET at == Ascending(S) IN [k \in DOMAIN at |-> es[at[k]]]

\* sort((a, b) => a.t - b.t), which is stable.
Sooner(es) ==
    {p \in (DOMAIN es) \X (DOMAIN es) :
        es[p[1]].t < es[p[2]].t \/ (es[p[1]].t = es[p[2]].t /\ p[1] < p[2])}
ByTime(es) == LET at == InOrder(DOMAIN es, Sooner(es)) IN [k \in DOMAIN es |-> es[at[k]]]

Metered(es) == Kept(es, {n \in DOMAIN es : es[n].docker # NoMetrics})
Synced(es)  == Kept(es, {n \in DOMAIN es : es[n].b > 0})

-----------------------------------------------------------------------------
(* Charts of a level: one point for each entry. *)

BlockProgressChart(es) ==
    LET p == ByTime(es) IN [n \in DOMAIN p |-> [t |-> p[n].t, blocks |-> p[n].b]]

SlotProgressChart(es) ==
    LET p == ByTime(es) IN [n \in DOMAIN p |-> [t |-> p[n].t, slots |-> p[n].s]]

SyncProgressChart(es) ==
    LET p == ByTime(es) IN [n \in DOMAIN p |-> [t |-> p[n].t, blocks |-> p[n].b, slots |-> p[n].s]]

DiskUsageChart(es) ==
    LET p == ByTime(es)
    IN  [n \in DOMAIN p |-> [t |-> p[n].t, execution |-> p[n].de, consensus |-> p[n].dc,
                             total |-> p[n].de + p[n].dc]]

PeerCountChart(es) ==
    LET p == ByTime(es)
    IN  [n \in DOMAIN p |-> [t |-> p[n].t, execution |-> p[n].pe, consensus |-> p[n].pc]]

MemoryUsageChart(es) ==
    LET p == ByTime(Metered(es))
    IN  [n \in DOMAIN p |-> [t |-> p[n].t, execution |-> p[n].docker.me,
                             consensus |-> p[n].docker.mc,
                             total |-> p[n].docker.me + p[n].docker.mc]]

CPUUsageChart(es) ==
    LET p == ByTime(Metered(es))
    IN  [n \in DOMAIN p |-> [t |-> p[n].t, execution |-> Positive(p[n].docker.ce),
                             consensus |-> Positive(p[n].docker.cc),
                             total |-> Positive(p[n].docker.ce + p[n].docker.cc)]]

\* The right axis of the block and slot charts: 0 % at the first point drawn,
\* 100 % at the last.
PercentageTick(first, last, value) ==
    CASE last = first -> 0
      [] last > first -> Rounded(100 * (value - first), last - first)
      [] OTHER        -> Rounded(100 * (first - value), first - last)
BlockTick(line, value) == PercentageTick(line[1].blocks, line[Len(line)].blocks, value)
SlotTick(line, value)  == PercentageTick(line[1].slots, line[Len(line)].slots, value)

-----------------------------------------------------------------------------
(* Charts of a rate: the bytes of both clients between an entry and the one
   before it, over the seconds between them; el and cl name the counters of
   the execution and the consensus client.  A counter that fell counts as one
   that stayed; an entry of the same second as the one before is left out. *)

Rates(es, el, cl) ==
    LET p == ByTime(Metered(es))
        bytes(n, counter) == Positive(p[n].docker[counter] - p[n - 1].docker[counter])
        point(n) == [t |-> p[n].t, seconds |-> p[n].t - p[n - 1].t,
                     execution |-> bytes(n, el), consensus |-> bytes(n, cl)]
        drawn == Ascending({n \in 2..Len(p) : p[n].t > p[n - 1].t})
    IN  [k \in DOMAIN drawn |-> point(drawn[k])]

BlockIOReadChart(es)  == Rates(es, "bre", "brc")
BlockIOWriteChart(es) == Rates(es, "bwe", "bwc")

\* Both directions in one chart.
BlockIOChart(es) ==
    LET r == BlockIOReadChart(es)
        w == BlockIOWriteChart(es)
    IN  [n \in DOMAIN r |-> [t |-> r[n].t, seconds |-> r[n].seconds,
                             read |-> r[n].execution + r[n].consensus,
                             write |-> w[n].execution + w[n].consensus]]

-----------------------------------------------------------------------------
(* ProgressCharts. *)

\* transformProgressPoints: the points of a live test, timed in parts of a
\* second; metrics that are missing or zero are zero.
NoDocker == [me |-> 0, mc |-> 0, bre |-> 0, brc |-> 0, bwe |-> 0, bwc |-> 0, ce |-> 0, cc |-> 0]
TransformProgressPoints(history, second) ==
    [n \in DOMAIN history |->
        [t |-> history[n].at \div second,
         b |-> history[n].b, s |-> history[n].s, de |-> history[n].de, dc |-> history[n].dc,
         pe |-> history[n].pe, pc |-> history[n].pc,
         docker |-> IF history[n].docker = NoMetrics THEN NoDocker ELSE history[n].docker]]

\* The charts there are, by what they draw; none without entries.
ProgressCharts(es) ==
    IF es = <<>> THEN [drawn |-> {}]
    ELSE [drawn  |-> {"blocks", "slots", "disk", "peers"}
                     \cup (IF Metered(es) # <<>> THEN {"cpu", "memory", "read", "write"} ELSE {}),
          blocks |-> BlockProgressChart(es), slots  |-> SlotProgressChart(es),
          disk   |-> DiskUsageChart(es),     peers  |-> PeerCountChart(es),
          cpu    |-> CPUUsageChart(es),      memory |-> MemoryUsageChart(es),
          read   |-> BlockIOReadChart(es),   write  |-> BlockIOWriteChart(es)]

-----------------------------------------------------------------------------
(* Numbers. *)

Total(s) == SumFunction(s)

\* calculateSyncRate: blocks over seconds, between the first and the last
\* entry with a block.
CalculateSyncRate(es) ==
    LET p == Synced(ByTime(es))
        blocks  == p[Len(p)].b - p[1].b
        seconds == p[Len(p)].t - p[1].t
    IN  IF Len(p) < 2 \/ blocks <= 0 \/ seconds <= 0 THEN <<0, 1>> ELSE <<blocks, seconds>>

\* calculateProgress
CalculateProgress(current, target) ==
    CASE target <= 0 \/ current < 0 -> 0
      [] target > 0 /\ current >= target -> 100
      [] OTHER -> Rounded(100 * current, target)

\* groupProgressByInterval: the averages of the entries of each interval, of
\* the levels the charts above draw.
GroupProgressByInterval(es, interval) ==
    LET keys == {(es[n].t \div interval) * interval : n \in DOMAIN es}
        group(k) == Kept(es, {n \in DOMAIN es : (es[n].t \div interval) * interval = k})
        mean(k, level) == Rounded(Total([n \in DOMAIN group(k) |-> group(k)[n][level]]),
                                  Len(group(k)))
        order == Ascending(keys)
    IN  [n \in DOMAIN order |->
            [t  |-> order[n],
             b  |-> mean(order[n], "b"),  s  |-> mean(order[n], "s"),
             de |-> mean(order[n], "de"), dc |-> mean(order[n], "dc"),
             pe |-> mean(order[n], "pe"), pc |-> mean(order[n], "pc")]]

-----------------------------------------------------------------------------
(* What charts c must show of the entries es, whatever order those are in. *)

Ordered(line) == \A m, n \in DOMAIN line : m < n => line[m].t <= line[n].t

\* As many points of each kind as there are entries of it.
PointForEach(line, es, value(_), recorded(_)) ==
    /\ Len(line) = Len(es)
    /\ \A k \in DOMAIN es :
          LET v == <<es[k].t, recorded(es[k])>>
          IN  Cardinality({n \in DOMAIN line : <<line[n].t, value(line[n])>> = v})
                  = Cardinality({n \in DOMAIN es : <<es[n].t, recorded(es[n])>> = v})

\* Counters that never fall, read at different times: the area under the
\* rates is what they grew by.
AreaIsGrowth(line, es, counter(_)) ==
    LET m == Metered(es)
        grows == \A i, j \in DOMAIN m :
                    i # j => \/ m[i].t < m[j].t /\ counter(m[i]) <= counter(m[j])
                             \/ m[j].t < m[i].t /\ counter(m[j]) <= counter(m[i])
        all == {counter(m[n]) : n \in DOMAIN m}
    IN  (m # <<>> /\ grows) =>
            \A x, y \in all : (\A z \in all : x <= z /\ z <= y) =>
                Total([n \in DOMAIN line |-> line[n].execution]) = y - x

\* From the first block on, a chain that only grew: the rate is its growth.
RateIsGrowth(es) ==
    LET synced == Synced(es)
        grew == \A i, j \in DOMAIN synced : i < j => /\ synced[i].t < synced[j].t
                                                    /\ synced[i].b < synced[j].b
    IN  (Len(synced) > 1 /\ grew) =>
            CalculateSyncRate(es) = <<synced[Len(synced)].b - synced[1].b,
                                      synced[Len(synced)].t - synced[1].t>>

\* One group for each interval with an entry; a mean is within its values.
GroupsAreMeans(es, interval) ==
    LET g == GroupProgressByInterval(es, interval)
        from(n) == {k \in DOMAIN es : es[k].t \in g[n].t .. (g[n].t + interval - 1)}
    IN  /\ Ordered(g)
        /\ UNION {from(n) : n \in DOMAIN g} = DOMAIN es
        /\ \A n \in DOMAIN g : /\ \E k \in from(n) : es[k].b <= g[n].b
                              /\ \E k \in from(n) : es[k].b >= g[n].b
                              /\ CalculateProgress(g[n].s, es[CHOOSE i \in from(n) : TRUE].s) \in 0..100

ChartsFollow(c, es) ==
    IF es = <<>> THEN c.drawn = {}
    ELSE /\ \A line \in {c.blocks, c.slots, c.disk, c.peers, c.cpu, c.memory, c.read, c.write} :
               Ordered(line)
         /\ PointForEach(c.blocks, es, LAMBDA p : p.blocks, LAMBDA e : e.b)
         /\ PointForEach(c.slots, es, LAMBDA p : p.slots, LAMBDA e : e.s)
         /\ SyncProgressChart(es) = [n \in DOMAIN c.blocks |->
                  [t |-> c.blocks[n].t, blocks |-> c.blocks[n].blocks, slots |-> c.slots[n].slots]]
         /\ BlockTick(c.blocks, c.blocks[Len(es)].blocks) \in {0, 100}
         /\ SlotTick(c.slots, c.slots[1].slots) = 0
         /\ PointForEach(c.disk, es, LAMBDA p : p.total, LAMBDA e : e.de + e.dc)
         /\ PointForEach(c.peers, es, LAMBDA p : p.consensus, LAMBDA e : e.pc)
         /\ PointForEach(c.memory, Metered(es), LAMBDA p : p.execution, LAMBDA e : e.docker.me)
         /\ AreaIsGrowth(c.read, es, LAMBDA e : e.docker.bre)
         /\ AreaIsGrowth(c.write, es, LAMBDA e : e.docker.bwe)
         /\ LET both == BlockIOChart(es)
                each == c.read \o c.write
            IN  Total([n \in DOMAIN both |-> both[n].read + both[n].write])
                    = Total([n \in DOMAIN each |-> each[n].execution + each[n].consensus])
         /\ RateIsGrowth(es) /\ GroupsAreMeans(es, 2)
         /\ \A line \in {c.read, c.write} : \A n \in DOMAIN line :
               line[n].seconds > 0 /\ line[n].execution >= 0 /\ line[n].consensus >= 0

=============================================================================
