\* An instance is deleted after its Deployment was patched.
CONSTANTS
  ns1 = ns1
  a = a
  b = b
  u = u
  i1 = i1
  i2 = i2
  r1 = r1
  r2 = r2
  Bare = {}
  Fragile = {}
  NoNamespace = NoNamespace
  Nil = Nil
  Namespaces = {ns1}
  Names = {a, u, i1}
  Apps <- OneApp
  Users <- OneUser
  Insts <- OneInst
  InstSpecs <- MCSpecs
  Resources = {small}
  Revisions = {r1}
  Ids <- MCIds
  Present = {"user"}
  MayUpdate = {}
  MayDelete = {"inst"}
  MaxEdits = 3
  MaxUUIDs = 2
  MaxFaults = 0
  MaxRestarts = 0
SPECIFICATION WorkloadsSpec
INVARIANT DeletedInstLeavesNothing
CHECK_DEADLOCK FALSE
