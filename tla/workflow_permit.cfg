CONSTANTS
  b1 = b1
  b2 = b2
  s1 = s1
  s2 = s2
  None = None
  Branches <- TwoBranches
  Reporter = b1
  Sections <- TwoSections
  Capacity = 1
  Faults = {"timeout", "section", "delay", "answer", "ended"}
SPECIFICATION FairSpec
INVARIANTS PermitFollows PermitInvariant
PROPERTY ResumesWhenFree
