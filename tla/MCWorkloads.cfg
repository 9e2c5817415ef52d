\* Two instances whose app and user came while the controller was down, and a fault;
\* or an instance that comes while its app and user are reconciled.
CONSTANTS
  ns1 = ns1
  a = a
  b = b
  u = u
  i1 = i1
  i2 = i2
  r1 = r1
  r2 = r2
  Bare = {}
  Fragile = {}
  NoNamespace = NoNamespace
  Nil = Nil
  Namespaces = {ns1}
  Names = {a, u, i1, i2}
  Apps <- OneApp
  Users <- OneUser
  Insts <- TwoInsts
  InstSpecs <- MCSpecs
  Resources = {small}
  Revisions = {r1}
  Ids <- MCIds
  Present = {"app", "user"}
  MayUpdate = {}
  MayDelete = {}
  MaxEdits = 1
  MaxUUIDs = 2
  MaxFaults = 1
  MaxRestarts = 0
SPECIFICATION ArrivingSpec
INVARIANT WorkloadsTypeOK
PROPERTY EventuallyDeployed
CHECK_DEADLOCK FALSE
