--------------------------- MODULE TestLifecycle ---------------------------
(***************************************************************************)
(* What the syncoor server promises about the life of a sync test, with    *)
(* nothing said about clocks, requests or locks.                           *)
(*                                                                         *)
(* A test that nobody reported is "absent".  The first keepalive makes it  *)
(* "running".  A running test ends in one of two ways: its run reports a   *)
(* result ("complete"), or the server gives up on it ("orphaned").  An     *)
(* orphaned test may still report its result.  The server forgets only     *)
(* tests that ended; a running test never just disappears, unless the      *)
(* whole server restarts, because nothing of this is persisted.            *)
(***************************************************************************)

CONSTANT Run   \* run identifiers (TestKeepaliveRequest.RunID)

VARIABLE phase \* what the server says of each run

Phase == {"absent", "running", "orphaned", "complete"}

TypeOK == phase \in [Run -> Phase]

Init == phase = [r \in Run |-> "absent"]

(* Every run of S moves to phase p. *)
MoveTo(S, p) == phase' = [r \in Run |-> IF r \in S THEN p ELSE phase[r]]

Register(r) ==
    /\ phase[r] = "absent"
    /\ MoveTo({r}, "running")

Complete(r) ==
    /\ phase[r] # "absent"
    /\ MoveTo({r}, "complete")

GiveUpOn(S) ==
    /\ \A r \in S : phase[r] = "running"
    /\ MoveTo(S, "orphaned")

Forget(S) ==
    /\ \A r \in S : phase[r] \in {"orphaned", "complete"}
    /\ MoveTo(S, "absent")

ServerRestart == MoveTo(Run, "absent")

Next ==
    \/ \E r \in Run : Register(r) \/ Complete(r)
    \/ \E S \in SUBSET Run : GiveUpOn(S) \/ Forget(S)
    \/ ServerRestart

Spec == Init /\ [][Next]_phase

=============================================================================
