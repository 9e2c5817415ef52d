---------------------------- MODULE MCReconcilers ----------------------------
\* Small instances of Reconcilers for TLC.
EXTENDS Reconcilers

CONSTANTS ns1, a, u, i1, i2

K(n, m) == [ns |-> n, name |-> m]
MCIds == [uid : 0..MaxEdits, uuid : 1..MaxUUIDs]

\* One app, one user, and one or two instances of them in one namespace.
OneApp == {K(ns1, a)}
OneUser == {K(ns1, u)}
OneInst == {K(ns1, i1)}
TwoInsts == {K(ns1, i1), K(ns1, i2)}

MCSpec(r) == [appName |-> [ns |-> NoNamespace, name |-> a],
              userName |-> [ns |-> NoNamespace, name |-> u], resources |-> r]
\* The templates may fail on any content.
AllFragile == Content
MCSpecs == {MCSpec(r) : r \in Resources}
=============================================================================
