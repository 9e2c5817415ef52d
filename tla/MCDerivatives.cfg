\* An app that changes its mind about retaining a claim.
CONSTANTS
  c1 = c1
  v1 = v1
  v2 = v2
  s1 = s1
  s2 = s2
  Nil = Nil
  Insts = {i1, i2}
  Claims = {c1}
  Images = {v1, v2}
  Containers = {s1, s2}
  AppContents <- Contents
  Bare <- Nothing
  Fragile <- Failing
  MaxEdits = 1
  MaxDeletions = 1
SYMMETRY Twins
SPECIFICATION Spec
INVARIANT TypeOK
INVARIANT AppShows
INVARIANT PlainClaimsGo
PROPERTY RetainStays
PROPERTY RetainedClaimKept
CHECK_DEADLOCK FALSE
