\* All three reconcilers: updates, deletions, failures and a restart.
CONSTANTS
  ns1 = ns1
  a = a
  u = u
  i1 = i1
  i2 = i2
  Bare = {}
  Fragile = {}
  NoNamespace = NoNamespace
  Nil = Nil
  Namespaces = {ns1}
  Names = {a, u, i1, i2}
  Apps <- OneApp
  Users = {}
  Insts <- OneInst
  InstSpecs <- MCSpecs
  Resources = {small, large}
  Revisions = {r1, r2}
  Ids <- MCIds
  Present = {"app"}
  MayUpdate = {"app", "inst"}
  MayDelete = {"app", "inst"}
  MaxEdits = 4
  MaxUUIDs = 4
  MaxFaults = 1
  MaxRestarts = 1
SPECIFICATION ReconcilersSpec
INVARIANTS ReconcilersTypeOK ObservedIsKnown NoRequestLost
PROPERTIES UUIDNeverReplaced EditsAreNotSkipped
CHECK_DEADLOCK FALSE
