SPECIFICATION FairSpec
CONSTANTS
  alpha = alpha
  beta = beta
  p1 = p1
  p2 = p2
  driver = driver
  b1 = b1
  b2 = b2
  b3 = b3
  Words <- MCWords
  TextRank <- MCTextRank
  Briefs = {b1, b2, b3}
  SlugOf <- MCSlugOf
  Garbage = Garbage
  Phantom = Phantom
  Procs = {p1, p2, driver}
  Claimers = {driver, p2}
  BriefsOf <- OneBrief
  Stray <- MCStray
  Second = 1
  MaxClock = 1
  MaxReqs = 2
  MaxFaults = 0
  ClockSteps = {}
INVARIANTS
  ClaimSticks
  ListingIsCurrent
  ConfirmedIsClaimable
PROPERTIES
  ProcessEnds
