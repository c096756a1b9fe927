------------------------------- MODULE MCHubRun -------------------------------
(* Small instances of HubRun for TLC.                                      *)
EXTENDS HubRefinement, TLC

CONSTANTS p1, p2, r1, r2

OneProcess == {p1}
TwoProcesses == {p1, p2}
TwoRuns == {r1, r2}

(* Run identifiers are interchangeable, and so are processes.              *)
Symmetric == Permutations(Run) \cup Permutations(Process)

AnyEdit == {"absent", "same_size", "resized"}
=============================================================================
