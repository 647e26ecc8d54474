------------------------------ MODULE MCWebApp ------------------------------
(* WebApp on a small instance: two syncoor servers, one of which has runs, *)
(* one expanded run, four reports in two directories, an archive of three  *)
(* files, two tests looked at in detail and a group of up to five runs.    *)
EXTENDS WebApp

CONSTANTS urlA, urlB  \* the syncoor servers

MCRunsOf == (urlA :> {1, 2}) @@ (urlB :> {})

\* Both enabled, one enabled, none enabled, none configured.  A fetchData of
\* the first that ends under the second leaves another row of urlA; the second
\* answer of the first under the third leaves a hole, and two of them crash the
\* page.
MCEndpointList ==
    {<<[url |-> urlB, enabled |-> TRUE],  [url |-> urlA, enabled |-> TRUE]>>,
     <<[url |-> urlB, enabled |-> FALSE], [url |-> urlA, enabled |-> TRUE]>>,
     <<[url |-> urlA, enabled |-> FALSE]>>,
     <<>>}

\* Two log files, one of more than 5 MB, and a binary one.
MCFile     == {<<"el", "log">>, <<"el", "key">>, <<"cl", "log">>}
MCViewable == {<<"el", "log">>, <<"cl", "log">>}
MCHuge     == {<<"cl", "log">>}
MCLogFile  == {<<"el", "log">>}
MCQuery    == {{"log"}}

Finished(i, d, n, c, s, u) ==
    [id |-> i, dir |-> d, network |-> n, el |-> "geth", cl |-> c, status |-> s,
     duration |-> u, cols |-> [timestamp |-> i, duration |-> u]]
MCLate == {Finished(4, "a", "main", "prysm", "timeout", 1)}
MCReport ==
    {Finished(1, "a", "main", "teku", "success", 2),
     Finished(2, "a", "holesky", "teku", "success", 1),
     Finished(3, "b", "main", "teku", "", 1)} \cup MCLate
MCBookmarked == {r \in MCReport : r.id \in {4}}

\* A configuration with two directories, and one that is refused.
MCRawConfig ==
    {[directories |-> <<[name |-> "a", parses |-> TRUE, enabled |-> TRUE],
                        [name |-> "b", parses |-> TRUE, enabled |-> TRUE]>>,
      refreshInterval |-> 1000],
     [directories |-> <<[name |-> "a", parses |-> FALSE, enabled |-> TRUE]>>,
      refreshInterval |-> 1000]}
MCNetworkOrder == <<"main", "holesky">>

\* One test with everything, and one without: no status, no sections, no
\* labels, an empty progress file.
MCFinding ==
    {[id |-> 1, el |-> "geth", cl |-> "teku", status |-> "timeout", message |-> NoValue, entries |-> 4],
     [id |-> 2, el |-> "geth", cl |-> "prysm", status |-> NoValue, message |-> NoValue, entries |-> 0]}
Says(st, sys, teku, sections, labels) ==
    [status |-> st, message |-> "late", entries |-> NoValue, system |-> sys, labels |-> labels,
     clients |-> [el |-> [type |-> "geth", sections |-> sections], cl |-> [type |-> teku, sections |-> {}]]]
MCMainReport == <<Says("timeout", TRUE, "teku", {"command"}, {"repository", "run_id", "workflow"}),
                  Says(NoValue, TRUE, "prysm", {}, {})>>
At(t, n, r, w, m) ==
    [t |-> t, b |-> n, s |-> n, de |-> n, dc |-> 1, pe |-> 2, pc |-> 3,
     docker |-> IF m THEN [me |-> n, mc |-> 1, bre |-> r, brc |-> w, bwe |-> w, bwc |-> r,
                           ce |-> 1, cc |-> 2] ELSE NoMetrics]
MCRecorded == <<<<At(1, 0, 0, 0, TRUE), At(4, 7, 6, 5, TRUE), At(2, 3, 4, 1, TRUE), At(5, 7, 0, 9, FALSE)>>, <<>>>>
\* The log of the execution client has one path in both dumps, that of the
\* consensus client another in each.
MCDumpEntry == <<<<[file |-> "spec.json", tags |-> {"el", "geth"}], [file |-> "output.log", tags |-> {"cl", "geth", "teku"}],
                  [file |-> "output.log", tags |-> {"el", "geth"}]>>,
                 <<[file |-> "output.log", tags |-> {"cl", "vc", "geth"}],
                  [file |-> "output.log", tags |-> {"cl", "geth", "prysm"}],
                  [file |-> "output.log", tags |-> {"el", "geth"}]>>>>

\* Three points of a live test, two of them in one second.
Point(at, n, r) ==
    [at |-> at, b |-> n, s |-> n, de |-> n, dc |-> 1, pe |-> 2, pc |-> 3,
     docker |-> IF r = 0 THEN NoMetrics
                ELSE [me |-> n, mc |-> 1, bre |-> r, brc |-> 1, bwe |-> r, bwc |-> 1, ce |-> 1, cc |-> 2]]
MCPointOf == <<Point(2, 1, 4), Point(3, 2, 0), Point(6, 2, 7)>>

Ran(s, d, u) == [status |-> s, duration |-> d, disk |-> u]
MCRunKind == {Ran("", 1, 0), Ran("success", 4, 3), Ran("timeout", 9, 5)}
=============================================================================
