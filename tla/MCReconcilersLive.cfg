\* Liveness: deletions, failures and a restart.
CONSTANTS
  ns1 = ns1
  a = a
  u = u
  i1 = i1
  i2 = i2
  Bare = {}
  Fragile <- AllFragile
  NoNamespace = NoNamespace
  Nil = Nil
  Namespaces = {ns1}
  Names = {a, u, i1, i2}
  Apps <- OneApp
  Users <- OneUser
  Insts <- OneInst
  InstSpecs <- MCSpecs
  Resources = {small}
  Revisions = {r1}
  Ids <- MCIds
  Present = {"app", "user"}
  MayUpdate = {}
  MayDelete = {"inst"}
  MaxEdits = 2
  MaxUUIDs = 3
  MaxFaults = 0
  MaxRestarts = 1
SPECIFICATION FairReconcilersSpec
PROPERTIES GraphCatchesUp Quiesces
CHECK_DEADLOCK FALSE
