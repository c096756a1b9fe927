\* Two callers that overlap on two lines of ledger, five lines, two ids.
CONSTANTS
  a1 = a1
  a2 = a2
  s1 = s1
  s2 = s2
  r1 = r1
  r2 = r2
  d1 = d1
  d1b = d1b
  d2 = d2
  c1 = c1
  c2 = c2
  Caller <- Together
  Spoke <- Spokes
  Registration <- TwoIds
  SpokeOf <- Owners
  CapabilitiesOf <- Offers
  MaxAge = 1
  MaxClock = 1
  MaxEvents = 5
  MaxOverlap = 2

SPECIFICATION Spec

SYMMETRY Symmetric

CHECK_DEADLOCK FALSE

INVARIANTS
  TypeOK
  OnlyKnownWaysToBreak
  ReadersAgree
  RunsGoToLiveSpokes

PROPERTIES
  ImplementsContract
