\* Two namespaces, bare and qualified references.
CONSTANTS
  ns1 = ns1
  ns2 = ns2
  x = x
  y = y
  NoNamespace = NoNamespace
  Nil = Nil
  Namespaces = {ns1, ns2}
  Names = {x, y}
  Apps <- TwoNsApps
  Users <- TwoNsUsers
  Insts <- TwoNsInsts
  InstSpecs <- TwoNsSpecs
  Revisions = {r1, r2}
  Resources = {small}
  Ids = {id1}
SYMMETRY RevisionSymmetry
SPECIFICATION Spec
INVARIANTS TypeOK Connected NoLostTriple
PROPERTIES CascadeReachesAll ImplementsRendezvous
CHECK_DEADLOCK FALSE
