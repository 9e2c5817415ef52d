---------------------------- MODULE MCWorkloads ----------------------------
\* Small instances of Workloads for TLC.
EXTENDS Workloads, FiniteSets

CONSTANTS ns1, a, b, u, i1, i2, r1, r2

K(n, m) == [ns |-> n, name |-> m]
MCIds == [uid : 0..MaxEdits, uuid : 1..MaxUUIDs]

\* One app, one user and one or two instances of them in one namespace.
OneApp == {K(ns1, a)}
OneUser == {K(ns1, u)}
OneInst == {K(ns1, i1)}
TwoInsts == {K(ns1, i1), K(ns1, i2)}

MCSpec(r) == [appName |-> [ns |-> NoNamespace, name |-> a],
              userName |-> [ns |-> NoNamespace, name |-> u], resources |-> r]

MCSpecs == {MCSpec(r) : r \in Resources}

\* The templates may fail on any content.
AllFragile == Content

\* Two apps, of which the instance names either.
TwoApps == {K(ns1, a), K(ns1, b)}
EitherApp == {[MCSpec(r) EXCEPT !.appName.name = x] : r \in Resources, x \in {a, b}}

\* A number of its own for each instance.
Numbers == CHOOSE f \in [Insts -> 1..Cardinality(Insts)] : \A x, y \in Insts : f[x] = f[y] => x = y

\* Objects observed before; the instances have a uuid.
Recorded(c) ==
  {[key \in KeysOf(c) |-> [uid |-> 0, gen |-> 1, obs |-> 1, content |-> x,
                           uuid |-> IF c = "inst" THEN Numbers[key] ELSE Nil]] : x \in ContentsOf(c)}

\* A controller that starts again with these objects and Deployments, and so many
\* faults behind it.
StartsWith(apps, users, insts, depls, spent) ==
  /\ Init
  /\ api = [app |-> apps, user |-> users, inst |-> insts]
  /\ cache = api
  /\ queue = AllKeys
  /\ worker = [c \in Controllers |-> Free]
  /\ minted = IF \E i \in Insts : insts[i] # Nil THEN Cardinality(Insts) ELSE 0
  /\ edits = 0 /\ faults = spent /\ restarts = 0
  /\ deployments = depls
  /\ seen = depls
  /\ wasted = {}

\* App and user were observed, and the instances, if there are any, were observed too
\* and are deployed.  A user's content makes no difference; one is enough.
StartedInit ==
  \E x \in {y \in Content : y.app \notin Bare /\ y.user = r1},
     apps \in Recorded("app"), users \in Recorded("user"),
     insts \in Recorded("inst") \cup {[key \in Insts |-> Nil]} :
    /\ \A key \in Apps : apps[key].content = x.app
    /\ \A key \in Users : users[key].content = x.user
    /\ StartsWith(apps, users, insts,
                  [d \in DeploymentKey |->
                     IF \E i \in Insts : insts[i] # Nil /\ Numbers[i] = d.uuid
                     THEN [content |-> x, terminating |-> FALSE,
                           owner |-> [key |-> CHOOSE i \in Insts : Numbers[i] = d.uuid, uid |-> 0]]
                     ELSE Nil], 0)

StartedSpec == StartedInit /\ [][WorkloadsNext]_workloadsVars

\* The instances were observed, without an app and a user, by a controller that is
\* started again after these came.
ArrivedInit ==
  \E apps \in Initial("app"), users \in Initial("user"), insts \in Recorded("inst") :
    StartsWith(apps, users, insts, [d \in DeploymentKey |-> Nil], 0)

\* An app and its user are there to be reconciled, and an instance may still come; no
\* fault will.
ComingInit ==
  \E apps \in Initial("app"), users \in Initial("user") :
    StartsWith(apps, users, [key \in Insts |-> Nil],
               [d \in DeploymentKey |-> Nil], MaxFaults)

ArrivingSpec ==
  (ArrivedInit \/ ComingInit) /\ [][WorkloadsNext]_workloadsVars /\ WorkloadsFairness
=============================================================================
