---------------------------- MODULE MCObjectGraph ----------------------------
\* Small instances of ObjectGraph for TLC.
EXTENDS ObjectGraph, TLC

CONSTANTS ns1, ns2, x, y

K(n, m) == [ns |-> n, name |-> m]
Bare(m) == [ns |-> NoNamespace, name |-> m]

MCSpec(a, u) == [appName |-> a, userName |-> u, resources |-> CHOOSE r \in Resources : TRUE]

\* An app and a user in different namespaces; the instance in either namespace can
\* name both, spelled one way or the other, or one that does not exist.
TwoNsApps == {K(ns1, x)}
TwoNsUsers == {K(ns2, x)}
TwoNsInsts == {K(ns1, y), K(ns2, y)}
TwoNsSpecs == {MCSpec(Bare(x), K(ns2, x)), MCSpec(K(ns1, x), Bare(x))}

RevisionSymmetry == Permutations(Revisions)
=============================================================================
