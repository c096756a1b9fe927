\* As in SpokeRegistry.cfg, calls that do not overlap.
CONSTANTS
  a1 = a1
  a2 = a2
  s1 = s1
  s2 = s2
  r1 = r1
  r2 = r2
  d1 = d1
  d1b = d1b
  d2 = d2
  c1 = c1
  c2 = c2
  Caller <- Together
  Spoke <- Spokes
  Registration <- TwoIds
  SpokeOf <- Owners
  CapabilitiesOf <- Offers
  MaxAge = 1
  MaxClock = 1
  MaxEvents = 3
  MaxOverlap = 0

SPECIFICATION Spec

SYMMETRY Symmetric

CHECK_DEADLOCK FALSE

INVARIANTS
  CollisionsRejected
