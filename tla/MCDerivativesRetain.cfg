\* A claim is given its retain label when it has an owner already: the app asks for it later.
CONSTANTS
  c1 = c1
  v1 = v1
  v2 = v2
  s1 = s1
  s2 = s2
  Nil = Nil
  Insts = {i1, i2}
  Claims = {c1}
  Images = {v1, v2}
  Containers = {s1, s2}
  AppContents <- Contents
  Bare <- Nothing
  Fragile <- Failing
  MaxEdits = 1
  MaxDeletions = 1
SPECIFICATION PlainSpec
PROPERTY LabelledClaimSurvives
CHECK_DEADLOCK FALSE
