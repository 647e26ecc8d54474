---------------------------- MODULE MCTestStore ----------------------------
(* TLC instances of TestStore: what a .cfg cannot write.                   *)
EXTENDS TestStore, TLC

(* Run identifiers, handlers and metrics are only compared for equality.   *)
Symmetry ==
    Permutations(Run) \cup Permutations(Handler) \cup Permutations(Metric)

=============================================================================
