------------------------------ MODULE WebFetch ------------------------------
(***************************************************************************)
(* How the dashboard asks: fetchWithRetry of lib/api.ts for the files of a *)
(* report directory, syncoorFetchWithRetry of lib/syncoorApi.ts for the    *)
(* syncoor servers, and what their callers make of the response.           *)
(*                                                                         *)
(* A call is the sequence of what its attempts would meet; the waits       *)
(* between them are left out.                                              *)
(***************************************************************************)
EXTENDS Naturals, Sequences

\* What an attempt meets: a body of the expected shape, another body, a 404,
\* another 4xx, or a 5xx, a network error or a timeout.
Response == {"ok", "malformed", "missing", "refused", "broken"}

Attempts        == 4
SyncoorAttempts == 3

\* The first response in final ends the call, or the last attempt does.
Decisive(rs, final) ==
    LET ends == {n \in DOMAIN rs : rs[n] \in final \/ n = Len(rs)}
    IN  rs[CHOOSE n \in ends : \A m \in ends : n <= m]

\* A 4xx is thrown and leaves the loop.
FetchWithRetry(rs) == Decisive(rs, {"ok", "malformed", "missing", "refused"})

\* A 4xx is thrown inside the try of its own attempt, so it is retried.
SyncoorFetchWithRetry(rs) == Decisive(rs, {"ok", "malformed"})

\* fetchIndex: a directory without index.json has no tests.
IndexOf(response) ==
    CASE response = "ok" -> "listed"
      [] response = "missing" -> "empty"
      [] OTHER -> "failed"

\* fetchSyncoorTests and fetchSyncoorTestDetail: all but the expected data is
\* an error.
DataOf(response) == response = "ok"

\* useMainReport and useProgressData fetch once; React Query asks again twice,
\* whatever went wrong.
QueryAttempts == 3
UseQuery(rs) == Decisive(rs, {"ok"})

\* What a call can come to.
IndexOutcomes   == {IndexOf(FetchWithRetry(rs)) : rs \in [1..Attempts -> Response]}
SyncoorOutcomes == {DataOf(SyncoorFetchWithRetry(rs)) : rs \in [1..SyncoorAttempts -> Response]}
QueryOutcomes   == {DataOf(UseQuery(rs)) : rs \in [1..QueryAttempts -> Response]}

=============================================================================
