-------------------------------- MODULE MCHubLog --------------------------------
(* A small instance of HubLog for TLC.                                     *)
EXTENDS HubLog, TLC

CONSTANTS w1, w2

Writers == {w1, w2}
Symmetric == Permutations(Writers)
=============================================================================
