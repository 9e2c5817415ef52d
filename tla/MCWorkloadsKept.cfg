\* Two instances, either of which moves between two apps and is deleted and created
\* again, as the apps are; an app may lose its containers, a template may fail, and
\* the controller may restart.
CONSTANTS
  ns1 = ns1
  a = a
  b = b
  u = u
  i1 = i1
  i2 = i2
  r1 = r1
  r2 = r2
  Bare = {r2}
  Fragile <- AllFragile
  NoNamespace = NoNamespace
  Nil = Nil
  Namespaces = {ns1}
  Names = {a, b, u, i1, i2}
  Apps <- TwoApps
  Users <- OneUser
  Insts <- TwoInsts
  InstSpecs <- EitherApp
  Resources = {small}
  Revisions = {r1, r2}
  Ids <- MCIds
  Present = {}
  MayUpdate = {"app", "inst"}
  MayDelete = {"app", "inst"}
  MaxEdits = 2
  MaxUUIDs = 4
  MaxFaults = 0
  MaxRestarts = 1
SPECIFICATION StartedSpec
INVARIANT UndeployedWasGivenUp
PROPERTY LiveWorkloadKept
CHECK_DEADLOCK FALSE
