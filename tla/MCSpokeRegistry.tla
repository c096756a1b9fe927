---------------------------- MODULE MCSpokeRegistry ----------------------------
(* A small instance of SpokeRegistry for TLC: two callers, two spokes, one *)
(* of them in two versions, and one capability both of them may offer.     *)
EXTENDS SpokeRegistry, TLC

CONSTANTS a1, a2, s1, s2, r1, r2, d1, d1b, d2, c1, c2

Together == {a1, a2}
Spokes == {s1, s2}
TwoIds == {r1, r2}
Owners == d1 :> s1 @@ d1b :> s1 @@ d2 :> s2
Offers == d1 :> {c1} @@ d1b :> {c1, c2} @@ d2 :> {c2}
Symmetric == Permutations(TwoIds) \cup Permutations(Together)
=============================================================================
