---------------------------- MODULE WorkloadsProofs ----------------------------
(***************************************************************************)
(* Proofs about Workloads: with the Deployments added, the reconcilers still  *)
(* do what Reconcilers says, and no Deployment is deleted under an instance   *)
(* that exists.                                                               *)
(***************************************************************************)
EXTENDS Workloads, ReconcilersProofs

(* The steps of the reconcilers *)

LEMMA NextIsReconcilersNext == [WorkloadsNext]_workloadsVars => [ReconcilersNext]_reconcilerVars
<1> SUFFICES ASSUME [WorkloadsNext]_workloadsVars
             PROVE  ReconcilersNext \/ UNCHANGED reconcilerVars
  OBVIOUS
<1>1. CASE UserEdits \/ RestartWorkloads
  BY <1>1 DEF ReconcilersNext, RestartWorkloads
<1>2. ASSUME NEW c \in Controllers, NEW key \in KeysOf(c), Sync(c, key) \/ Reconcile(c, key)
      PROVE  ReconcilersNext
  BY <1>2 DEF ReconcilersNext
<1>3. ASSUME NEW c \in Controllers, WorkloadsWork(c)
      PROVE  ReconcilersNext
  <2>1. Work(c)
    BY <1>3 DEF WorkloadsWork, Work, DeleteDeployments, CreateDeployment, PatchDeployment,
                FailDeployment
  <2> QED BY <2>1 DEF ReconcilersNext
<1>4. ASSUME NEW d \in DeploymentKey, SyncDeployment(d) \/ CollectGarbage(d) \/ Terminate(d)
      PROVE  UNCHANGED reconcilerVars
  BY <1>4 DEF SyncDeployment, CollectGarbage, Terminate
<1>5. CASE UNCHANGED workloadsVars
  BY <1>5 DEF workloadsVars
<1> QED BY <1>1, <1>2, <1>3, <1>4, <1>5 DEF WorkloadsNext

\* Whatever is proved of the reconcilers holds with the Deployments added: they are
\* written by the steps of the reconcilers and by nothing that the graph, the caches
\* or the queues of the HelX objects depend on (CreateOrUpdateResource).
THEOREM ReconcilersImplemented == WorkloadsSpec => ReconcilersSpec
<1>1. WorkloadsInit => ReconcilersInit
  BY DEF WorkloadsInit
<1>2. [WorkloadsNext]_workloadsVars => [ReconcilersNext]_reconcilerVars
  BY NextIsReconcilersNext
<1> QED BY <1>1, <1>2, PTL DEF WorkloadsSpec, ReconcilersSpec

-----------------------------------------------------------------------------
(* Types *)

DeploymentsTyped ==
  /\ deployments \in [DeploymentKey -> Deployment \cup {Nil}]
  /\ seen \in [DeploymentKey -> Deployment \cup {Nil}]
  /\ wasted \subseteq DeploymentKey

\* A worker with an artifact has a request, in whose namespace it is applied.
LEMMA ArtifactTyped ==
  ASSUME RecInv, NEW c \in Controllers, Artifact(c) # Nil
  PROVE  /\ Artifact(c) \in Artifacts /\ Artifact(c).content \in Content
         /\ Artifact(c).inst \in HelxInst
         /\ Artifact(c).inst.id.uid \in 0..MaxEdits /\ Artifact(c).inst.id.uuid \in 1..MaxUUIDs
         /\ Target(c) \in DeploymentKey
<1>1. worker[c] \in Workers /\ worker[c].key \in KeysOf(c) /\ Artifact(c) \in Artifacts
  BY DEF RecInv, WorkersOK, WorkerOK, Workers, Artifact, Free
<1>2. Artifact(c).content \in Content /\ Artifact(c).inst \in HelxInst
  BY <1>1 DEF Artifacts
<1>3. Artifact(c).inst.id \in Ids
  BY <1>2 DEF HelxInst
<1>4. Artifact(c).inst.id.uid \in 0..MaxEdits /\ Artifact(c).inst.id.uuid \in 1..MaxUUIDs
  BY <1>3, IdsAssumption
<1>5. worker[c].key.ns \in Namespaces
  BY <1>1, Kinds DEF Key
<1>6. Target(c) \in DeploymentKey
  BY <1>4, <1>5 DEF Target, DeploymentKey, Artifact
<1> QED BY <1>1, <1>2, <1>4, <1>6

LEMMA CreatedTyped ==
  ASSUME RecInv, NEW c \in Controllers, Artifact(c) # Nil
  PROVE  Created(c) \in Deployment
BY ArtifactTyped DEF Created, Deployment, OwnerRef, HelxInst

LEMMA PatchedTyped ==
  ASSUME RecInv, DeploymentsTyped, NEW c \in Controllers, Artifact(c) # Nil, CanPatch(c)
  PROVE  IF seen[Target(c)].terminating THEN Patched(c) = Nil ELSE Patched(c) \in Deployment
<1> DEFINE now == deployments[Target(c)]
           cached == seen[Target(c)]
           target == Artifact(c)
<1>1. now \in Deployment /\ cached \in Deployment /\ target.content \in Content
  BY ArtifactTyped DEF CanPatch, DeploymentsTyped
<1>2. now.content \in Content /\ cached.content \in Content
      /\ now.owner \in OwnerRef \cup {Nil} /\ now.terminating \in BOOLEAN
  BY <1>1 DEF Deployment
<1> DEFINE mixed == [f \in DOMAIN now.content |->
                      IF cached.content[f] = target.content[f] THEN now.content[f]
                                                               ELSE target.content[f]]
<1>3. mixed \in Content
  <2>1. DOMAIN now.content = {"app", "user", "resources"}
    BY <1>2 DEF Content
  <2>2. mixed["app"] \in Revisions /\ mixed["user"] \in Revisions /\ mixed["resources"] \in Resources
    BY <1>1, <1>2, <2>1 DEF Content
  <2>3. mixed = [app |-> mixed["app"], user |-> mixed["user"], resources |-> mixed["resources"]]
    BY <2>1
  <2> HIDE DEF mixed
  <2> QED BY <2>2, <2>3 DEF Content
<1>4. Patched(c) = IF cached.terminating THEN Nil
                   ELSE [content |-> mixed,
                         owner |-> IF cached.owner = Nil THEN now.owner ELSE Nil,
                         terminating |-> now.terminating]
  BY DEF Patched
<1> HIDE DEF mixed
<1> QED BY <1>2, <1>3, <1>4 DEF Deployment

\* A terminating Deployment that is patched stays so, or is gone.
LEMMA PatchedEnds ==
  ASSUME RecInv, DeploymentsTyped, NEW c \in Controllers, Artifact(c) # Nil, CanPatch(c)
  PROVE  /\ deployments[Target(c)] # Nil
         /\ Patched(c) = Nil => deployments[Target(c)].terminating
         /\ Patched(c) # Nil => /\ Patched(c).terminating = deployments[Target(c)].terminating
                                /\ Patched(c).owner \in {Nil, deployments[Target(c)].owner}
<1>1. deployments[Target(c)] # Nil
      /\ (seen[Target(c)].terminating => deployments[Target(c)].terminating)
  BY DEF CanPatch
<1>2. CASE seen[Target(c)].terminating
  BY <1>1, <1>2 DEF Patched
<1>3. CASE ~seen[Target(c)].terminating
  <2>1. /\ Patched(c).terminating = deployments[Target(c)].terminating
        /\ Patched(c).owner = IF seen[Target(c)].owner = Nil THEN deployments[Target(c)].owner
                                                             ELSE Nil
    BY <1>3 DEF Patched
  <2>2. deployments[Target(c)].terminating \in BOOLEAN
    BY <1>1, ArtifactTyped DEF DeploymentsTyped, Deployment
  <2>3. Patched(c) # Nil
    BY <1>3, PatchedTyped, NilDeploymentAssumption
  <2> QED BY <1>1, <2>1, <2>3
<1> QED BY <1>2, <1>3

\* What one step may do to one Deployment.
Appears(d) == \E c \in Controllers : /\ Artifact(c) # Nil /\ d = Target(c) /\ deployments[d] = Nil
                                     /\ deployments'[d] = Created(c)
IsPatched(d) == \E c \in Controllers : /\ Artifact(c) # Nil /\ d = Target(c) /\ CanPatch(c)
                                       /\ deployments'[d] = Patched(c)
IsDeleted(d) == \E c \in Controllers : \E inst \in job[c].insts :
                  /\ DeleteDeployments(c, inst)
                  /\ d = [ns |-> inst.key.ns, uuid |-> inst.id.uuid]
                  /\ deployments[d] # Nil
                  /\ deployments'[d] = [deployments[d] EXCEPT !.terminating = TRUE]
Ends(d) == /\ deployments[d] # Nil /\ (deployments[d].terminating \/ Garbage(d))
           /\ deployments'[d] = Nil

LEMMA DeploymentSteps ==
  ASSUME RecInv, DeploymentsTyped, [WorkloadsNext]_workloadsVars
  PROVE  /\ deployments' = [d \in DeploymentKey |-> deployments'[d]]
         /\ \A d \in DeploymentKey :
              \/ deployments'[d] = deployments[d]
              \/ Appears(d) \/ IsPatched(d) \/ IsDeleted(d) \/ Ends(d)
<1> DEFINE Only(d) == /\ deployments' = [x \in DeploymentKey |-> deployments'[x]]
                      /\ \A x \in DeploymentKey \ {d} : deployments'[x] = deployments[x]
<1>d. deployments = [d \in DeploymentKey |-> deployments[d]]
  BY DEF DeploymentsTyped
<1>1. CASE UNCHANGED deployments
  BY <1>1, <1>d
<1>2. ASSUME NEW c \in Controllers, CreateDeployment(c)
      PROVE  Only(Target(c)) /\ Appears(Target(c))
  BY <1>2, <1>d, ArtifactTyped DEF CreateDeployment, Applied, CanCreate, Appears, Artifact
<1>3. ASSUME NEW c \in Controllers, PatchDeployment(c)
      PROVE  Only(Target(c)) /\ IsPatched(Target(c))
  <2>1. Artifact(c) # Nil /\ CanPatch(c)
        /\ deployments' = [deployments EXCEPT ![Target(c)] = Patched(c)]
    BY <1>3 DEF PatchDeployment, Applied, Artifact
  <2>2. Target(c) \in DeploymentKey
    BY <2>1, ArtifactTyped
  <2>3. Only(Target(c)) /\ deployments'[Target(c)] = Patched(c)
    BY <2>1, <2>2, <1>d
  <2> QED BY <2>1, <2>3 DEF IsPatched
<1>4. ASSUME NEW c \in Controllers, NEW inst \in job[c].insts, DeleteDeployments(c, inst),
             deployments' # deployments
      PROVE  \E d \in DeploymentKey : Only(d) /\ IsDeleted(d)
  <2> DEFINE d == [ns |-> inst.key.ns, uuid |-> inst.id.uuid]
  <2>1. inst \in HelxInst
    BY DEF RecInv, TypeOK
  <2>2. inst.key \in Key /\ inst.id \in Ids
    BY <2>1, Kinds DEF HelxInst
  <2>3. d \in DeploymentKey
    BY <2>2, IdsAssumption DEF DeploymentKey, Key
  <2>4. job[c].op = "delete" /\ deployments[d] # Nil
        /\ deployments' = [deployments EXCEPT ![d].terminating = TRUE]
    BY <1>4 DEF DeleteDeployments, DeleteWorkload, DeleteDerivatives
  <2>6. d = [ns |-> inst.key.ns, uuid |-> inst.id.uuid]
    OBVIOUS
  <2> HIDE DEF d
  <2>5. deployments'[d] = [deployments[d] EXCEPT !.terminating = TRUE] /\ Only(d)
    BY <2>3, <2>4, <1>d
  <2>7. IsDeleted(d)
    BY <1>4, <2>4, <2>5, <2>6 DEF IsDeleted
  <2> QED BY <2>3, <2>5, <2>7
<1>5. ASSUME NEW d \in DeploymentKey, CollectGarbage(d) \/ Terminate(d)
      PROVE  Only(d) /\ Ends(d)
  BY <1>5, <1>d DEF CollectGarbage, Terminate, Ends, Garbage
<1> HIDE DEF Only
<1>6. \/ UNCHANGED deployments
      \/ \E d \in DeploymentKey :
           Only(d) /\ (Appears(d) \/ IsPatched(d) \/ IsDeleted(d) \/ Ends(d))
  <2>1. CASE UserEdits /\ UNCHANGED cluster
    BY <2>1 DEF cluster
  <2>2. CASE \E c \in Controllers : \E key \in KeysOf(c) :
               (Sync(c, key) \/ Reconcile(c, key)) /\ UNCHANGED cluster
    BY <2>2 DEF cluster
  <2>3. ASSUME NEW c \in Controllers, WorkloadsWork(c)
        PROVE  \/ UNCHANGED deployments
               \/ \E d \in DeploymentKey :
                    Only(d) /\ (Appears(d) \/ IsPatched(d) \/ IsDeleted(d) \/ Ends(d))
    <3>1. CASE CreateDeployment(c) \/ PatchDeployment(c)
      <4>1. Artifact(c) # Nil
        BY <3>1 DEF CreateDeployment, PatchDeployment, Applied, Artifact
      <4> QED BY <3>1, <4>1, <1>2, <1>3, ArtifactTyped
    <3>2. CASE \E inst \in job[c].insts : DeleteDeployments(c, inst)
      BY <3>2, <1>4
    <3>3. CASE ~(CreateDeployment(c) \/ PatchDeployment(c))
               /\ ~\E inst \in job[c].insts : DeleteDeployments(c, inst)
      BY <2>3, <3>3 DEF WorkloadsWork, cluster, FailDeployment
    <3> QED BY <3>1, <3>2, <3>3
  <2>4. ASSUME NEW d \in DeploymentKey, SyncDeployment(d) \/ CollectGarbage(d) \/ Terminate(d)
        PROVE  UNCHANGED deployments \/ (Only(d) /\ Ends(d))
    BY <2>4, <1>5 DEF SyncDeployment
  <2>5. CASE RestartWorkloads \/ UNCHANGED workloadsVars
    BY <2>5 DEF RestartWorkloads, workloadsVars
  <2> QED BY <2>1, <2>2, <2>3, <2>4, <2>5 DEF WorkloadsNext
<1>7. ASSUME NEW d \in DeploymentKey, Only(d),
             Appears(d) \/ IsPatched(d) \/ IsDeleted(d) \/ Ends(d)
      PROVE  /\ deployments' = [x \in DeploymentKey |-> deployments'[x]]
             /\ \A x \in DeploymentKey :
                  \/ deployments'[x] = deployments[x]
                  \/ Appears(x) \/ IsPatched(x) \/ IsDeleted(x) \/ Ends(x)
  BY <1>7 DEF Only
<1> QED BY <1>1, <1>6, <1>7

LEMMA CacheSteps ==
  ASSUME DeploymentsTyped, [WorkloadsNext]_workloadsVars
  PROVE  /\ seen' = [d \in DeploymentKey |-> seen'[d]]
         /\ \A d \in DeploymentKey : seen'[d] \in {seen[d], deployments[d]}
<1>1. CASE UNCHANGED seen
  BY <1>1 DEF DeploymentsTyped
<1>2. CASE RestartWorkloads
  BY <1>2 DEF RestartWorkloads, DeploymentsTyped
<1>3. ASSUME NEW d \in DeploymentKey, SyncDeployment(d)
      PROVE  /\ seen' = [x \in DeploymentKey |-> seen'[x]]
             /\ \A x \in DeploymentKey : seen'[x] \in {seen[x], deployments[x]}
  BY <1>3 DEF SyncDeployment, DeploymentsTyped
<1>4. \/ UNCHANGED seen \/ RestartWorkloads \/ \E d \in DeploymentKey : SyncDeployment(d)
  <2>1. \A c \in Controllers : WorkloadsWork(c) => UNCHANGED seen
    BY DEF WorkloadsWork, DeleteDeployments, CreateDeployment, PatchDeployment, FailDeployment,
           cluster
  <2>2. \A d \in DeploymentKey : CollectGarbage(d) \/ Terminate(d) => UNCHANGED seen
    BY DEF CollectGarbage, Terminate
  <2> QED BY <2>1, <2>2 DEF WorkloadsNext, workloadsVars, cluster
<1> QED BY <1>1, <1>2, <1>3, <1>4

LEMMA NextDeploymentsTyped ==
  RecInv /\ DeploymentsTyped /\ [WorkloadsNext]_workloadsVars => DeploymentsTyped'
<1> SUFFICES ASSUME RecInv, DeploymentsTyped, [WorkloadsNext]_workloadsVars
             PROVE  DeploymentsTyped'
  OBVIOUS
<1>1. deployments' \in [DeploymentKey -> Deployment \cup {Nil}]
  <2>1. ASSUME NEW d \in DeploymentKey
        PROVE  deployments'[d] \in Deployment \cup {Nil}
    <3>1. deployments[d] \in Deployment \cup {Nil}
      BY DEF DeploymentsTyped
    <3>2. CASE Appears(d)
      BY <3>2, CreatedTyped DEF Appears
    <3>3. CASE IsPatched(d)
      BY <3>3, PatchedTyped DEF IsPatched
    <3>4. CASE IsDeleted(d)
      BY <3>1, <3>4 DEF IsDeleted, Deployment
    <3>5. CASE Ends(d)
      BY <3>5 DEF Ends
    <3> QED BY <3>1, <3>2, <3>3, <3>4, <3>5, DeploymentSteps
  <2> QED BY <2>1, DeploymentSteps
<1>2. seen' \in [DeploymentKey -> Deployment \cup {Nil}]
  BY CacheSteps DEF DeploymentsTyped
<1>3. wasted' \subseteq DeploymentKey
  <2>1. ASSUME NEW c \in Controllers, WorkloadsWork(c)
        PROVE  wasted' \subseteq DeploymentKey
    <3>1. CASE \E inst \in job[c].insts : DeleteDeployments(c, inst)
      <4>1. PICK inst \in job[c].insts : DeleteDeployments(c, inst)
        BY <3>1
      <4>2. inst \in HelxInst
        BY DEF RecInv, TypeOK
      <4>3. inst.key \in Key /\ inst.id \in Ids
        BY <4>2, Kinds DEF HelxInst
      <4>4. [ns |-> inst.key.ns, uuid |-> inst.id.uuid] \in DeploymentKey
        BY <4>3, IdsAssumption DEF DeploymentKey, Key
      <4> QED BY <4>1, <4>4 DEF DeleteDeployments, DeploymentsTyped
    <3>2. CASE UNCHANGED cluster
      BY <3>2 DEF cluster, DeploymentsTyped
    <3>3. CASE CreateDeployment(c) \/ PatchDeployment(c) \/ FailDeployment(c)
      <4>1. Artifact(c) # Nil
        BY <3>3 DEF CreateDeployment, PatchDeployment, FailDeployment, Applied, NotApplied, Artifact
      <4>2. Target(c) \in DeploymentKey
        BY <4>1, ArtifactTyped
      <4>3. wasted' \subseteq wasted \cup {Target(c)}
        BY <3>3 DEF CreateDeployment, PatchDeployment, FailDeployment
      <4> QED BY <4>2, <4>3 DEF DeploymentsTyped
    <3> QED BY <2>1, <3>1, <3>2, <3>3 DEF WorkloadsWork
  <2>2. ASSUME NEW d \in DeploymentKey, SyncDeployment(d) \/ CollectGarbage(d) \/ Terminate(d)
        PROVE  wasted' = wasted
    BY <2>2 DEF SyncDeployment, CollectGarbage, Terminate
  <2>3. CASE RestartWorkloads
    BY <2>3 DEF RestartWorkloads
  <2> QED BY <2>1, <2>2, <2>3 DEF WorkloadsNext, workloadsVars, cluster, DeploymentsTyped
<1> QED BY <1>1, <1>2, <1>3 DEF DeploymentsTyped

LEMMA TypesInductive == WorkloadsSpec => [](RecInv /\ DeploymentsTyped)
<1>1. WorkloadsInit => DeploymentsTyped
  BY DEF WorkloadsInit, DeploymentsTyped
<1>2. RecInv /\ DeploymentsTyped /\ [WorkloadsNext]_workloadsVars => DeploymentsTyped'
  BY NextDeploymentsTyped
<1>3. WorkloadsSpec => []RecInv
  BY ReconcilersImplemented, RecInductive, PTL
<1> QED BY <1>1, <1>2, <1>3, PTL DEF WorkloadsSpec

\* The reconcilers' types, and the Deployments': what is created, patched or seen is
\* always a whole Deployment under the request's namespace (CreateOrUpdateResource).
THEOREM WorkloadsTypeCorrect == WorkloadsSpec => []WorkloadsTypeOK
<1>1. WorkloadsSpec => []ReconcilersTypeOK
  BY ReconcilersImplemented, ReconcilersTypeCorrect, PTL
<1>2. ReconcilersTypeOK /\ RecInv /\ DeploymentsTyped => WorkloadsTypeOK
  BY DEF WorkloadsTypeOK, DeploymentsTyped
<1> QED BY <1>1, <1>2, TypesInductive, PTL

-----------------------------------------------------------------------------
(* Identities: a uuid stands for one key and metadata.uid, wherever they occur *)

\* The instance worker only creates.
InstCreates == job["inst"].op # "delete"

LEMMA InstWorkerCreates == TypeOK /\ InstCreates /\ [Next]_vars => InstCreates'
<1> SUFFICES ASSUME TypeOK, job["inst"].op # "delete", [Next]_vars
             PROVE  job'["inst"].op # "delete"
  BY DEF InstCreates
<1>1. \A c \in Controllers : \A inst \in job[c].insts :
        GenerateArtifacts(c, inst) \/ DeleteDerivatives(c, inst) => job'["inst"].op # "delete"
  <2> SUFFICES ASSUME NEW c \in Controllers, NEW inst \in job[c].insts,
                      GenerateArtifacts(c, inst) \/ DeleteDerivatives(c, inst)
               PROVE  job'["inst"].op # "delete"
    OBVIOUS
  <2>1. job' = [job EXCEPT ![c] = Done(c, inst)]
    BY DEF GenerateArtifacts, DeleteDerivatives
  <2>2. Done(c, inst).op \in {"idle", job[c].op}
    BY DEF Done, HandOut, Idle
  <2>3. c = "inst" => job'["inst"] = Done(c, inst)
    BY <2>1 DEF TypeOK
  <2>4. c # "inst" => job'["inst"] = job["inst"]
    BY <2>1 DEF TypeOK
  <2> QED BY <2>2, <2>3, <2>4
<1>2. \A inst \in HelxInst : AddInst(inst) => job'["inst"].op # "delete"
  BY DEF AddInst, HandOut, TypeOK, Controllers
<1>3. \A c \in Controllers : Abandon(c) => job'["inst"].op # "delete"
  BY DEF Abandon, Idle, TypeOK, Controllers
<1>o. \A c \in {"app", "user"} : \A v : [job EXCEPT ![c] = v]["inst"] = job["inst"]
  BY DEF TypeOK, Controllers
<1>4. \A key : DeleteApp(key) \/ DeleteUser(key) => job'["inst"].op # "delete"
  BY <1>o DEF DeleteApp, DeleteUser
<1>5. \A key, obj : AddApp(key, obj) \/ AddUser(key, obj) => job'["inst"].op # "delete"
  BY <1>o DEF AddApp, AddUser
<1>6. \A key, obj : ResyncApp(key, obj) \/ ResyncUser(key, obj) => job' = job
  BY DEF ResyncApp, ResyncUser
<1>7. \A x : ResyncInst(x) \/ DeleteInst(x) => job' = job
  BY DEF ResyncInst, DeleteInst
<1>8. Restart => job'["inst"].op # "delete"
  BY DEF Restart, Idle, Controllers
<1> QED BY <1>1, <1>2, <1>3, <1>4, <1>5, <1>6, <1>7, <1>8 DEF Next, vars

\* The identity of an instance as the API server stores it, once it has a uuid, and
\* that of a copy in the graph.
Identity == [key : Insts, uid : 0..MaxEdits, uuid : 1..MaxUUIDs]
HasId(key, cr, id) ==
  cr # Nil /\ cr.uuid # Nil /\ id = [key |-> key, uid |-> cr.uid, uuid |-> cr.uuid]
IdOf(inst) == [key |-> inst.key, uid |-> inst.id.uid, uuid |-> inst.id.uuid]

\* Where the graph and the workers hold an identity,
InGraphId(id) ==
  \/ \E i \in Insts : Known(i) /\ id = IdOf(instanceTable[i])
  \/ \E c \in Controllers : \E inst \in job[c].insts : id = IdOf(inst)
ToApply(id) == \E c \in Controllers : Artifact(c) # Nil /\ id = IdOf(Artifact(c).inst)
ToWrite(id) == worker["inst"].read # Nil /\ HasId(worker["inst"].key, worker["inst"].read.new, id)

\* and where else it is.
Circulates(id) ==
  \/ \E i \in Insts : HasId(i, api["inst"][i], id) \/ HasId(i, cache["inst"][i], id)
  \/ ToWrite(id) \/ InGraphId(id) \/ ToApply(id)

\* A graph operation adds at most the identity of the instance it is given.
GraphAdds(ids) == \A id : InGraphId(id)' => InGraphId(id) \/ id \in ids

LEMMA TablesAndJobs ==
  ASSUME \A i \in Insts : instanceTable'[i] \in {instanceTable[i], Nil},
         \A c \in Controllers : job'[c].insts \subseteq
             job[c].insts \cup {instanceTable[i] : i \in {i \in Insts : Known(i)}}
  PROVE  GraphAdds({})
<1> SUFFICES ASSUME NEW id, InGraphId(id)' PROVE InGraphId(id)
  BY DEF GraphAdds
<1>1. CASE (\E i \in Insts : Known(i) /\ id = IdOf(instanceTable[i]))'
  BY <1>1 DEF InGraphId, Known
<1>2. CASE (\E c \in Controllers : \E inst \in job[c].insts : id = IdOf(inst))'
  <2>1. PICK c \in Controllers : \E inst \in job'[c].insts : id = IdOf(inst)
    BY <1>2
  <2>2. PICK inst \in job'[c].insts : id = IdOf(inst)
    BY <2>1
  <2>3. inst \in job[c].insts \/ \E i \in Insts : Known(i) /\ inst = instanceTable[i]
    OBVIOUS
  <2> QED BY <2>2, <2>3 DEF InGraphId
<1> QED BY <1>1, <1>2 DEF InGraphId

LEMMA HandedOutKnown ==
  ASSUME TypeOK, NEW table \in [Key -> TableElement], NEW key \in Key, NEW op
  PROVE  HandOut(op, InstList(table, key)).insts
           \subseteq {instanceTable[i] : i \in {i \in Insts : Known(i)}}
BY DEF HandOut, InstList, Idle, Known, TableElement

LEMMA ReconcileAdds ==
  ASSUME RecInv, NEW c \in Controllers, NEW key \in KeysOf(c), Reconcile(c, key)
  PROVE  \/ GraphAdds({})
         \/ /\ c = "inst" /\ ReconcileResync(c, key)
            /\ GraphAdds({IdOf(InstOf(key, cache[c][key]))})
         \/ /\ c = "inst" /\ ReconcileChanged(c, key)
            /\ GraphAdds({IdOf(InstOf(key, WithUUID(c, cache[c][key])))})
<1>t. TypeOK /\ Apps \subseteq Key /\ Users \subseteq Key
  BY KeysAssumption DEF RecInv
<1>o. \A d \in Controllers : \A v : \A x \in Controllers :
        [job EXCEPT ![d] = v][x] = IF x = d THEN v ELSE job[x]
  BY <1>t DEF TypeOK
<1>1. ASSUME UNCHANGED instanceTable, NEW d \in Controllers, NEW op, NEW k \in Key,
             NEW table \in {appTable, userTable},
             job' = [job EXCEPT ![d] = HandOut(op, InstList(table, k))]
      PROVE  GraphAdds({})
  <2>1. HandOut(op, InstList(table, k)).insts
           \subseteq {instanceTable[i] : i \in {i \in Insts : Known(i)}}
    BY <1>t, HandedOutKnown DEF TypeOK
  <2>2. \A x \in Controllers : job'[x].insts \subseteq
             job[x].insts \cup {instanceTable[i] : i \in {i \in Insts : Known(i)}}
    BY <1>1, <1>o, <2>1
  <2> QED BY <1>1, <2>2, TablesAndJobs
<1>2. ASSUME UNCHANGED <<instanceTable, job>>
      PROVE  GraphAdds({})
  BY <1>2, TablesAndJobs
<1>3. CASE c = "app"
  <2>1. CASE DeleteApp(key) \/ \E obj : AddApp(key, obj)
    BY <1>t, <1>1, <1>3, <2>1, Kinds DEF DeleteApp, AddApp, tables
  <2>2. CASE \E obj : ResyncApp(key, obj)
    BY <1>2, <2>2 DEF ResyncApp
  <2> QED BY <1>3, <2>1, <2>2 DEF Reconcile, ReconcileDeleted, ReconcileResync, ReconcileChanged
<1>4. CASE c = "user"
  <2>1. CASE DeleteUser(key) \/ \E obj : AddUser(key, obj)
    BY <1>t, <1>1, <1>4, <2>1, Kinds DEF DeleteUser, AddUser, tables
  <2>2. CASE \E obj : ResyncUser(key, obj)
    BY <1>2, <2>2 DEF ResyncUser
  <2> QED BY <1>4, <2>1, <2>2 DEF Reconcile, ReconcileDeleted, ReconcileResync, ReconcileChanged
<1>5. CASE c = "inst"
  <2>1. ASSUME NEW x, AddInst(x) \/ ResyncInst(x)
        PROVE  GraphAdds({IdOf(x)})
    <3>1. \A i \in Insts : instanceTable'[i] \in {instanceTable[i], x}
      BY <2>1, <1>t DEF AddInst, ResyncInst, TypeOK
    <3>2. \A d \in Controllers : job'[d].insts \subseteq job[d].insts \cup {x}
      BY <2>1, <1>o DEF AddInst, ResyncInst, HandOut, Idle, Controllers
    <3> QED BY <3>1, <3>2 DEF GraphAdds, InGraphId, Known
  <2>2. CASE ReconcileDeleted(c, key)
    <3>1. \A i \in Insts : instanceTable'[i] \in {instanceTable[i], Nil}
      BY <1>5, <2>2, <1>t DEF ReconcileDeleted, DeleteInst, TypeOK, graph, vars
    <3>2. job' = job
      BY <1>5, <2>2 DEF ReconcileDeleted, DeleteInst, graph, vars
    <3> QED BY <3>1, <3>2, TablesAndJobs
  <2>3. CASE ReconcileResync(c, key)
    BY <1>5, <2>1, <2>3 DEF ReconcileResync
  <2>4. CASE ReconcileChanged(c, key)
    BY <1>5, <2>1, <2>4 DEF ReconcileChanged
  <2> QED BY <2>2, <2>3, <2>4 DEF Reconcile
<1> QED BY <1>3, <1>4, <1>5, Kinds

\* A step adds at most one identity to those in circulation, with a new uuid.
NewId(id) == id.uuid = minted + 1 /\ minted' = minted + 1
Adds(fresh) == \A id : Circulates(id)' => Circulates(id) \/ (id = fresh /\ NewId(id))

LEMMA ReconcileCirculates ==
  ASSUME RecInv, TypeOK', NEW c \in Controllers, NEW key \in KeysOf(c), Reconcile(c, key)
  PROVE  \E fresh : Adds(fresh)
<1> DEFINE cr == cache[c][key]
           new == WithUUID(c, cr)
<1>u. UNCHANGED <<api, cache>>
  BY DEF Reconcile
<1>s. cr \in Sound(c) \cup {Nil} /\ minted \in Nat /\ Nil \notin Nat
  BY NilNoneAssumption, BoundsAssumption DEF RecInv, ObjectsSound, CountersOK
<1>a. \A id : ToApply(id)' => ToApply(id)
  <2>1. ASSUME NEW d \in Controllers, worker'[d].artifact # Nil
        PROVE  worker'[d].artifact = worker[d].artifact
    <3>1. \/ worker' = worker
          \/ \E read : worker' = [worker EXCEPT ![c] = Busy(key, read)]
      BY DEF Reconcile, ReconcileDeleted, ReconcileResync, ReconcileChanged
    <3>2. \A read : Busy(key, read).artifact = Nil
      BY DEF Busy
    <3> QED BY <2>1, <3>1, <3>2 DEF RecInv, Shape
  <2> QED BY <2>1 DEF ToApply, Artifact
<1>1. CASE ReconcileDeleted(c, key) \/ (c # "inst" /\ (ReconcileResync(c, key) \/ ReconcileChanged(c, key)))
  <2>1. GraphAdds({})
    <3>1. cr = Nil => ~ReconcileResync(c, key) /\ ~ReconcileChanged(c, key)
      BY DEF ReconcileResync, ReconcileChanged
    <3>2. ReconcileDeleted(c, key) => cr = Nil
      BY DEF ReconcileDeleted
    <3> QED BY <1>1, <3>1, <3>2, ReconcileAdds
  <2>2. \A id : ToWrite(id)' => ToWrite(id)
    <3>1. \/ worker'["inst"] = worker["inst"] \/ worker'["inst"].read = Nil
      BY <1>1 DEF ReconcileDeleted, ReconcileResync, ReconcileChanged, Busy, RecInv, Shape, Controllers
    <3> QED BY <3>1 DEF ToWrite
  <2> QED BY <1>u, <1>a, <2>1, <2>2 DEF Circulates, GraphAdds, Adds
<1>2. CASE c = "inst" /\ ReconcileResync(c, key)
  <2>1. cr # Nil /\ cr.uuid # Nil
    BY <1>2, <1>s, BoundsAssumption DEF ReconcileResync, Sound, Resource
  <2>2. Circulates(IdOf(InstOf(key, cr)))
    <3>1. HasId(key, cache["inst"][key], IdOf(InstOf(key, cr))) /\ key \in Insts
      BY <1>2, <2>1, Kinds DEF HasId, InstOf, IdOf
    <3> QED BY <3>1 DEF Circulates
  <2>3. cr # Nil /\ ~ReconcileChanged(c, key)
    BY <1>2, <1>s, BoundsAssumption DEF ReconcileResync, ReconcileChanged, Sound, Resource
  <2>4. GraphAdds({IdOf(InstOf(key, cr))})
    BY <2>3, ReconcileAdds DEF GraphAdds
  <2>5. worker' = worker
    BY <1>2 DEF ReconcileResync
  <2>6. \A id : Circulates(id)' => Circulates(id)
    BY <1>u, <1>a, <2>2, <2>4, <2>5 DEF Circulates, ToWrite, GraphAdds
  <2> QED BY <2>6 DEF Adds
<1>3. CASE c = "inst" /\ ReconcileChanged(c, key)
  <2> DEFINE fresh == IdOf(InstOf(key, new))
  <2>1. cr \in Sound(c) /\ cr # Nil
    BY <1>3, <1>s DEF ReconcileChanged
  <2>2. new \in Sound(c) /\ new.uid = cr.uid /\ new.uuid # Nil
        /\ (cr.uuid # Nil => new.uuid = cr.uuid)
    BY <1>3, <2>1, WithUUIDSound DEF ReconcileChanged, RecInv
  <2>3. cr.uuid = Nil => new.uuid = minted + 1 /\ minted' = minted + 1
    <3> SUFFICES ASSUME cr.uuid = Nil PROVE new.uuid = minted + 1 /\ minted' = minted + 1
      OBVIOUS
    <3>1. new = [cr EXCEPT !.uuid = minted + 1]
      BY <1>3 DEF WithUUID
    <3>2. new.uuid = minted + 1
      BY <2>1, <3>1 DEF Sound, Resource
    <3>3. new # cr
      BY <1>s, <3>2
    <3> QED BY <1>3, <3>2, <3>3 DEF ReconcileChanged
  <2>4. worker' = [worker EXCEPT ![c] = Busy(key, [old |-> cr, new |-> new])]
    BY <1>3 DEF ReconcileChanged
  <2>5. worker'["inst"].read.new = new /\ worker'["inst"].key = key
    BY <1>3, <2>4 DEF Busy, RecInv, Shape
  <2>f. fresh = [key |-> key, uid |-> new.uid, uuid |-> new.uuid]
    BY DEF InstOf, IdOf
  <2>6. \A id : ToWrite(id)' => id = fresh
    BY <2>5, <2>f DEF ToWrite, HasId
  <2>7. GraphAdds({fresh})
    <3>1. ~ReconcileResync(c, key)
      BY <1>3, <2>1, BoundsAssumption DEF ReconcileResync, ReconcileChanged, Sound, Resource
    <3> QED BY <3>1, ReconcileAdds DEF GraphAdds
  <2>8. cr.uuid # Nil => Circulates(fresh)
    <3> SUFFICES ASSUME cr.uuid # Nil PROVE Circulates(fresh)
      OBVIOUS
    <3>1. HasId(key, cache["inst"][key], fresh) /\ key \in Insts
      BY <1>3, <2>1, <2>2, <2>f, Kinds DEF HasId
    <3> QED BY <3>1 DEF Circulates
  <2>9. cr.uuid = Nil => NewId(fresh)
    BY <2>3, <2>f DEF NewId
  <2> HIDE DEF fresh
  <2>10. \A id : Circulates(id)' => Circulates(id) \/ id = fresh
    BY <1>u, <1>a, <2>6, <2>7 DEF Circulates, GraphAdds
  <2>11. Adds(fresh)
    BY <2>8, <2>9, <2>10 DEF Adds
  <2> QED BY <2>11
<1> QED BY <1>1, <1>2, <1>3 DEF Reconcile

LEMMA CirculatesStep ==
  ASSUME RecInv, [ReconcilersNext]_reconcilerVars
  PROVE  \E fresh : Adds(fresh)
<1>t. TypeOK /\ TypeOK' /\ Shape
  BY GraphTypeOK DEF RecInv
<1>j. "inst" \in Controllers /\ KeysOf("inst") = Insts
  BY Kinds
<1> DEFINE Keeps == \A id : Circulates(id)' => Circulates(id)
<1>k. Keeps => \E fresh : Adds(fresh)
  BY DEF Adds
<1>0. CASE UNCHANGED reconcilerVars
  <2>1. UNCHANGED <<instanceTable, job, api, cache, worker>>
    BY <1>0 DEF reconcilerVars, vars
  <2>2. Keeps
    BY <2>1 DEF Circulates, ToWrite, InGraphId, ToApply, Known, Artifact
  <2> QED BY <1>k, <2>2
<1>1. CASE UserEdits
  <2>1. ASSUME NEW i \in Insts, NEW id, HasId(i, api'["inst"][i], id)
        PROVE  HasId(i, api["inst"][i], id)
    <3>0. PICK c \in Controllers : \E key \in KeysOf(c) :
            \/ \E content \in ContentsOf(c) : Create(c, key, content) \/ Update(c, key, content)
            \/ Delete(c, key)
      BY <1>1 DEF UserEdits
    <3>1. PICK key \in KeysOf(c) :
            \/ \E content \in ContentsOf(c) : Create(c, key, content) \/ Update(c, key, content)
            \/ Delete(c, key)
      BY <3>0
    <3>2. PICK v : /\ api' = [api EXCEPT ![c][key] = v]
                   /\ v # Nil /\ v.uuid # Nil =>
                        api[c][key] # Nil /\ v.uid = api[c][key].uid /\ v.uuid = api[c][key].uuid
      BY <3>1 DEF Create, Update, Delete, Changed
    <3>3. api["inst"] \in [Insts -> Sound("inst") \cup {Nil}] /\ api[c] \in [KeysOf(c) -> Sound(c) \cup {Nil}]
      BY <1>j DEF RecInv, ObjectsSound
    <3>4. api'["inst"][i] = IF c = "inst" /\ key = i THEN v ELSE api["inst"][i]
      BY <1>t, <3>2, <3>3 DEF Shape
    <3> QED BY <2>1, <3>2, <3>4 DEF HasId
  <2>2. UNCHANGED <<vars, cache, worker>>
    BY <1>1 DEF UserEdits, Create, Update, Delete, graph
  <2>3. Keeps
    BY <2>1, <2>2 DEF Circulates, ToWrite, InGraphId, ToApply, Known, Artifact, vars
  <2> QED BY <1>k, <2>3
<1>2. ASSUME NEW c \in Controllers, NEW key \in KeysOf(c), Sync(c, key)
      PROVE  Keeps
  <2>1. \A i \in Insts : cache'["inst"][i] \in {cache["inst"][i], api["inst"][i]}
    BY <1>2, <1>j, <1>t DEF Sync, RecInv, ObjectsSound, Shape
  <2>2. UNCHANGED <<vars, api, worker>>
    BY <1>2 DEF Sync, graph
  <2> QED BY <2>1, <2>2 DEF Circulates, ToWrite, InGraphId, ToApply, Known, Artifact, vars
<1>3. ASSUME NEW c \in Controllers, NEW key \in KeysOf(c), Reconcile(c, key)
      PROVE  \E fresh : Adds(fresh)
  BY <1>3, <1>t, ReconcileCirculates
<1>4. ASSUME NEW c \in Controllers, NEW inst \in job[c].insts,
             Generate(c, inst) \/ DeleteWorkload(c, inst)
      PROVE  Keeps
  <2>1. \A d \in Controllers : job'[d].insts \subseteq job[d].insts
    BY <1>4, <1>t DEF Generate, DeleteWorkload, GenerateArtifacts, DeleteDerivatives, Done,
                      HandOut, Idle, TypeOK
  <2>2. UNCHANGED <<instanceTable, api, cache>>
    BY <1>4 DEF Generate, DeleteWorkload, GenerateArtifacts, DeleteDerivatives, tables
  <2>3. \A d \in Controllers :
          /\ worker'[d].read = worker[d].read /\ worker'[d].key = worker[d].key
          /\ \/ worker'[d].artifact = worker[d].artifact
             \/ d = c /\ worker'[d].artifact = Rendered(inst)
    <3>1. \/ worker' = worker \/ worker' = [worker EXCEPT ![c].artifact = Rendered(inst)]
      BY <1>4 DEF Generate, DeleteWorkload
    <3>2. worker[c] \in Workers
      BY DEF RecInv, WorkersOK, WorkerOK
    <3> HIDE <1>4
    <3> QED BY <1>t, <3>1, <3>2 DEF Shape, Workers
  <2>4. \A id : InGraphId(id)' => InGraphId(id)
    BY <2>1, <2>2 DEF InGraphId, Known
  <2>5. \A id : ToApply(id)' => ToApply(id) \/ id = IdOf(inst)
    BY <2>3 DEF ToApply, Artifact, Rendered
  <2>6. \A id : ToWrite(id)' => ToWrite(id)
    BY <2>3, <1>j DEF ToWrite
  <2>7. InGraphId(IdOf(inst))
    BY DEF InGraphId
  <2> QED BY <2>2, <2>4, <2>5, <2>6, <2>7 DEF Circulates
<1>5. ASSUME NEW c \in Controllers,
             Applied(c) \/ NotApplied(c) \/ \E inst \in job[c].insts : GenerateFails(c, inst)
      PROVE  Keeps
  <2>1. \A d \in Controllers : job'[d].insts \subseteq job[d].insts
    BY <1>5, <1>t DEF Applied, NotApplied, GenerateFails, Abandon, Idle, TypeOK, graph, vars
  <2>2. UNCHANGED <<instanceTable, api, cache>>
    BY <1>5 DEF Applied, NotApplied, GenerateFails, Abandon, tables, graph, vars
  <2>3. \A d \in Controllers :
          /\ worker'[d].read = worker[d].read /\ worker'[d].key = worker[d].key
          /\ worker'[d].artifact \in {worker[d].artifact, Nil}
    <3>1. \E w : /\ worker' = [worker EXCEPT ![c] = w]
                 /\ w.read = worker[c].read /\ w.key = worker[c].key /\ w.artifact = Nil
      <4>1. worker[c] \in Workers
        BY DEF RecInv, WorkersOK, WorkerOK
      <4>2. CASE worker' = [worker EXCEPT ![c] = Failed(@)]
        <5> DEFINE w == Failed(worker[c])
        <5>1. /\ worker' = [worker EXCEPT ![c] = w]
              /\ w.read = worker[c].read /\ w.key = worker[c].key /\ w.artifact = Nil
          BY <4>2 DEF Failed
        <5> HIDE DEF w
        <5> QED BY <5>1
      <4>3. CASE worker' = [worker EXCEPT ![c].artifact = Nil]
        <5> DEFINE w == [worker[c] EXCEPT !.artifact = Nil]
        <5>1. worker' = [worker EXCEPT ![c] = w]
          BY <4>3
        <5>2. w.read = worker[c].read /\ w.key = worker[c].key /\ w.artifact = Nil
          BY <4>1 DEF Workers
        <5> HIDE DEF w
        <5> QED BY <5>1, <5>2
      <4> QED BY <1>5, <4>2, <4>3 DEF Applied, NotApplied, GenerateFails
    <3> QED BY <1>t, <3>1 DEF Shape
  <2>4. \A id : InGraphId(id)' => InGraphId(id)
    BY <2>1, <2>2 DEF InGraphId, Known
  <2>5. \A id : ToApply(id)' => ToApply(id)
    BY <2>3 DEF ToApply, Artifact
  <2>6. \A id : ToWrite(id)' => ToWrite(id)
    BY <2>3, <1>j DEF ToWrite
  <2> QED BY <2>2, <2>4, <2>5, <2>6 DEF Circulates
<1>6. ASSUME NEW c \in Controllers, Finish(c)
      PROVE  Keeps
  <2>1. UNCHANGED <<vars, cache>> /\ worker[c].key # Nil /\ UpdateStatus(c)
        /\ worker' = [worker EXCEPT ![c] = Free]
    BY <1>6 DEF Finish, graph
  <2>2. \A d \in Controllers : worker'[d] \in {worker[d], Free}
    BY <1>t, <2>1 DEF Shape
  <2>3. ASSUME NEW i \in Insts, NEW id, HasId(i, api'["inst"][i], id)
        PROVE  HasId(i, api["inst"][i], id) \/ ToWrite(id)
    <3>1. CASE api' = api
      BY <2>3, <3>1
    <3>2. CASE /\ worker[c].read # Nil
               /\ api' = [api EXCEPT ![c][worker[c].key] =
                                [worker[c].read.new EXCEPT !.obs = worker[c].read.new.gen]]
      <4> DEFINE key == worker[c].key
                 new == worker[c].read.new
                 written == [new EXCEPT !.obs = new.gen]
      <4>1. new \in Sound(c) /\ key \in KeysOf(c)
        BY <3>2 DEF RecInv, WorkersOK, WorkerOK, ReadOK
      <4>2. written.uid = new.uid /\ written.uuid = new.uuid /\ new # Nil
        BY <4>1, NilNoneAssumption DEF Sound, Resource
      <4>3. api["inst"] \in [Insts -> Sound("inst") \cup {Nil}] /\ api[c] \in [KeysOf(c) -> Sound(c) \cup {Nil}]
        BY <1>j DEF RecInv, ObjectsSound
      <4>4. api' = [api EXCEPT ![c][key] = written]
        BY <3>2
      <4> HIDE DEF written, key
      <4>5. api'["inst"][i] = IF c = "inst" /\ key = i THEN written ELSE api["inst"][i]
        BY <1>t, <1>j, <4>1, <4>3, <4>4 DEF Shape
      <4> QED BY <2>3, <3>2, <4>2, <4>5 DEF HasId, ToWrite
    <3> QED BY <2>1, <3>1, <3>2 DEF UpdateStatus
  <2>4. \A id : ToWrite(id)' => ToWrite(id)
    BY <1>j, <2>2 DEF ToWrite, Free
  <2>5. \A id : ToApply(id)' => ToApply(id)
    BY <2>2 DEF ToApply, Artifact, Free
  <2>6. \A id : InGraphId(id)' => InGraphId(id)
    BY <2>1 DEF InGraphId, Known, vars
  <2> QED BY <2>1, <2>3, <2>4, <2>5, <2>6 DEF Circulates
<1>7. CASE RestartController
  <2>1. cache' = api /\ api' = api /\ \A c \in Controllers : worker'[c] = Free
    BY <1>7 DEF RestartController
  <2>2. \A id : ~InGraphId(id)'
    BY <1>7 DEF RestartController, Restart, InGraphId, Known, Idle
  <2>3. Keeps
    BY <2>1, <2>2, <1>j DEF Circulates, ToWrite, ToApply, Artifact, Free
  <2> QED BY <1>k, <2>3
<1> QED BY <1>0, <1>1, <1>2, <1>3, <1>4, <1>5, <1>6, <1>7, <1>k DEF ReconcilersNext, Work

\* The reference to the owner that an identity stands for.
OwnerOf(id) == [key |-> id.key, uid |-> id.uid]

\* The identities about have uuids that were minted, each for one object; so have the
\* Deployments that are owned, and their owner is the object their uuid was minted for.
Identified ==
  /\ \A id \in Identity : Circulates(id) => id.uuid <= minted
  /\ \A x, y \in Identity : (Circulates(x) /\ Circulates(y) /\ x.uuid = y.uuid) => x = y
  /\ \A d \in DeploymentKey : (deployments[d] # Nil /\ deployments[d].owner # Nil) =>
       /\ d.uuid <= minted
       /\ \A x \in Identity : (Circulates(x) /\ x.uuid = d.uuid) => OwnerOf(x) = deployments[d].owner

WorkloadsInv == RecInv /\ DeploymentsTyped /\ InstCreates /\ Identified

LEMMA MintedGrows ==
  ASSUME RecInv, [ReconcilersNext]_reconcilerVars
  PROVE  minted' \in {minted, minted + 1}
<1>1. UserEdits \/ RestartController \/ UNCHANGED reconcilerVars => minted' = minted
  BY DEF UserEdits, Create, Update, Delete, RestartController, reconcilerVars
<1>2. \A c \in Controllers : Work(c) => minted' = minted
  BY DEF Work, Generate, GenerateFails, DeleteWorkload, Applied, NotApplied, Finish
<1>3. \A c \in Controllers : \A key \in KeysOf(c) :
        Sync(c, key) \/ Reconcile(c, key) => minted' \in {minted, minted + 1}
  BY DEF Sync, Reconcile, ReconcileDeleted, ReconcileResync, ReconcileChanged
<1> QED BY <1>1, <1>2, <1>3 DEF ReconcilersNext

\* An owner stays, or is that of the copy an artifact was rendered from.
LEMMA OwnerSteps ==
  ASSUME RecInv, DeploymentsTyped, [WorkloadsNext]_workloadsVars, NEW d \in DeploymentKey,
         deployments'[d] # Nil, deployments'[d].owner # Nil
  PROVE  \/ deployments[d] # Nil /\ deployments[d].owner = deployments'[d].owner
         \/ \E id \in Identity : /\ ToApply(id) /\ id.uuid = d.uuid
                                 /\ OwnerOf(id) = deployments'[d].owner
<1>1. CASE deployments'[d] = deployments[d] \/ Ends(d) \/ IsDeleted(d)
  <2>1. deployments[d] \in Deployment \cup {Nil}
    BY DEF DeploymentsTyped
  <2> QED BY <1>1, <2>1 DEF Ends, IsDeleted, Deployment
<1>2. CASE Appears(d)
  <2>1. PICK c \in Controllers : /\ Artifact(c) # Nil /\ d = Target(c)
                                 /\ deployments'[d] = Created(c)
    BY <1>2 DEF Appears
  <2> DEFINE id == IdOf(Artifact(c).inst)
  <2>2. id \in Identity
    BY <2>1, ArtifactTyped DEF IdOf, Identity, HelxInst
  <2>3. OwnerOf(id) = deployments'[d].owner /\ id.uuid = d.uuid
    BY <2>1 DEF Created, Target, Artifact, IdOf, OwnerOf
  <2> QED BY <2>1, <2>2, <2>3 DEF ToApply
<1>3. CASE IsPatched(d)
  <2>1. PICK c \in Controllers : /\ Artifact(c) # Nil /\ d = Target(c) /\ CanPatch(c)
                                 /\ deployments'[d] = Patched(c)
    BY <1>3 DEF IsPatched
  <2> QED BY <2>1, PatchedEnds
<1> QED BY <1>1, <1>2, <1>3, DeploymentSteps

LEMMA NextIdentified == WorkloadsInv /\ [WorkloadsNext]_workloadsVars => Identified'
<1> SUFFICES ASSUME WorkloadsInv, [WorkloadsNext]_workloadsVars PROVE Identified'
  OBVIOUS
<1>1. RecInv /\ DeploymentsTyped /\ Identified /\ [ReconcilersNext]_reconcilerVars
  BY NextIsReconcilersNext DEF WorkloadsInv
<1>2. PICK fresh : Adds(fresh)
  BY <1>1, CirculatesStep
<1>3. \A id : Circulates(id)' => Circulates(id) \/ (id = fresh /\ NewId(id))
  BY <1>2 DEF Adds
<1>4. minted \in Nat /\ minted' \in {minted, minted + 1}
  BY <1>1, MintedGrows, BoundsAssumption DEF RecInv, CountersOK
<1>i. (\A id \in Identity : id.uuid \in Nat) /\ \A d \in DeploymentKey : d.uuid \in Nat
  BY BoundsAssumption DEF Identity, DeploymentKey
<1>5. ASSUME NEW id \in Identity, Circulates(id)'
      PROVE  id.uuid <= minted'
  BY <1>1, <1>3, <1>4, <1>5, <1>i DEF Identified, NewId
<1>6. ASSUME NEW x \in Identity, NEW y \in Identity, Circulates(x)', Circulates(y)',
             x.uuid = y.uuid
      PROVE  x = y
  <2>1. Circulates(x) => x.uuid <= minted
    BY <1>1 DEF Identified
  <2>2. Circulates(y) => y.uuid <= minted
    BY <1>1 DEF Identified
  <2> QED BY <1>1, <1>3, <1>4, <1>6, <1>i, <2>1, <2>2 DEF Identified, NewId
<1>7. ASSUME NEW d \in DeploymentKey, deployments'[d] # Nil, deployments'[d].owner # Nil
      PROVE  /\ d.uuid <= minted'
             /\ \A x \in Identity :
                  (Circulates(x)' /\ x.uuid = d.uuid) => OwnerOf(x) = deployments'[d].owner
  <2>1. /\ d.uuid <= minted
        /\ \A x \in Identity :
             (Circulates(x) /\ x.uuid = d.uuid) => OwnerOf(x) = deployments'[d].owner
    <3>1. CASE deployments[d] # Nil /\ deployments[d].owner = deployments'[d].owner
      BY <1>1, <1>7, <3>1 DEF Identified
    <3>2. ASSUME NEW id \in Identity, ToApply(id), id.uuid = d.uuid,
                 OwnerOf(id) = deployments'[d].owner
          PROVE  /\ d.uuid <= minted
                 /\ \A x \in Identity :
                      (Circulates(x) /\ x.uuid = d.uuid) => OwnerOf(x) = deployments'[d].owner
      <4>1. Circulates(id)
        BY <3>2 DEF Circulates
      <4> QED BY <1>1, <3>2, <4>1 DEF Identified
    <3> QED BY <1>1, <1>7, <3>1, <3>2, OwnerSteps
  <2>2. ASSUME NEW x \in Identity, Circulates(x)', x.uuid = d.uuid
        PROVE  Circulates(x)
    BY <1>3, <1>4, <1>i, <2>1, <2>2 DEF NewId
  <2> QED BY <1>4, <1>i, <2>1, <2>2
<1> QED BY <1>5, <1>6, <1>7 DEF Identified

LEMMA WorkloadsInductive == WorkloadsSpec => []WorkloadsInv
<1>1. WorkloadsInit => InstCreates /\ Identified
  <2> SUFFICES ASSUME WorkloadsInit PROVE InstCreates /\ Identified
    OBVIOUS
  <2>1. InstCreates
    BY DEF InstCreates, WorkloadsInit, ReconcilersInit, Init, Idle, Controllers
  <2>2. ASSUME NEW i \in Insts, api["inst"][i] # Nil
        PROVE  api["inst"][i].uuid = Nil
    BY <2>2, Kinds DEF WorkloadsInit, ReconcilersInit, Initial
  <2>3. ASSUME NEW id
        PROVE  ~Circulates(id)
    <3>1. cache = api /\ \A c \in Controllers : worker[c] = Free /\ job[c] = Idle
      BY DEF WorkloadsInit, ReconcilersInit, Init
    <3>2. (\A i \in Insts : ~Known(i)) /\ \A d \in DeploymentKey : deployments[d] = Nil
      BY DEF WorkloadsInit, ReconcilersInit, Init, Known
    <3> QED BY <2>2, <3>1, <3>2, Kinds
            DEF Circulates, HasId, ToWrite, ToApply, InGraphId, Artifact, Free, Idle
  <2>4. \A d \in DeploymentKey : deployments[d] = Nil
    BY DEF WorkloadsInit
  <2> QED BY <2>1, <2>3, <2>4 DEF Identified
<1>2. WorkloadsInv /\ [WorkloadsNext]_workloadsVars =>
        InstCreates' /\ Identified'
  <2>1. WorkloadsInv /\ [WorkloadsNext]_workloadsVars => InstCreates'
    <3>1. WorkloadsInv /\ [WorkloadsNext]_workloadsVars => [Next]_vars /\ TypeOK
      BY NextIsReconcilersNext, NextIsGraphNext DEF WorkloadsInv, RecInv
    <3> QED BY <3>1, InstWorkerCreates DEF WorkloadsInv
  <2> QED BY <2>1, NextIdentified
<1>3. WorkloadsInv <=> (RecInv /\ DeploymentsTyped) /\ InstCreates /\ Identified
  BY DEF WorkloadsInv
<1> QED BY <1>1, <1>2, <1>3, TypesInductive, PTL DEF WorkloadsSpec

-----------------------------------------------------------------------------
(* The Deployment of an instance that exists *)

\* Its owner is that instance.
LEMMA OwnedByItsInst ==
  ASSUME WorkloadsInv, NEW i \in Insts, NEW d \in DeploymentKey,
         Exists("inst", i), d.uuid = api["inst"][i].uuid, deployments[d] # Nil,
         deployments[d].owner # Nil
  PROVE  ~Garbage(d)
<1> DEFINE x == [key |-> i, uid |-> api["inst"][i].uid, uuid |-> api["inst"][i].uuid]
<1>1. api["inst"][i] \in Resource("inst") /\ d.uuid \in 1..MaxUUIDs
  BY Kinds DEF WorkloadsInv, RecInv, ObjectsSound, Sound, Exists, DeploymentKey
<1>2. x \in Identity
  BY <1>1 DEF Resource, Identity
<1>3. HasId(i, api["inst"][i], x)
  BY <1>1, NilNoneAssumption DEF HasId, Exists
<1>4. Circulates(x)
  BY <1>3 DEF Circulates
<1>5. deployments[d].owner = [key |-> i, uid |-> api["inst"][i].uid]
  BY <1>2, <1>4 DEF WorkloadsInv, Identified, OwnerOf
<1> QED BY <1>5 DEF Garbage

\* No Deployment is deleted under an instance that exists, but by the cascade of an
\* app or a user: a uuid is minted for one object, every copy of it that is about --
\* in caches, in the graph, in a worker's hands, in an owner reference -- stands for
\* that object, so that the garbage collector never mistakes the owner, and patches
\* remove a finalizer only where the cluster has it (reconcile, DeleteDerivatives).
THEOREM WorkloadKept == WorkloadsSpec => LiveWorkloadKept
<1>1. ASSUME WorkloadsInv, [WorkloadsNext]_workloadsVars, NEW i \in Insts,
             NEW d \in DeploymentKey, Exists("inst", i), d.uuid = api["inst"][i].uuid,
             Runs(d), ~Runs(d)'
      PROVE  \E c \in {"app", "user"} : job[c].op = "delete"
  <2>1. RecInv /\ DeploymentsTyped /\ deployments[d] # Nil /\ ~deployments[d].terminating
    BY <1>1 DEF WorkloadsInv, Runs
  <2>2. ~Appears(d)
    BY <2>1 DEF Appears
  <2>3. ~Ends(d)
    BY <1>1, <2>1, OwnedByItsInst DEF Ends, Garbage
  <2>4. IsPatched(d) => Runs(d)'
    BY <2>1, PatchedEnds DEF IsPatched, Runs
  <2>5. deployments'[d] # deployments[d]
    BY <1>1 DEF Runs
  <2>6. IsDeleted(d)
    BY <1>1, <2>1, <2>2, <2>3, <2>4, <2>5, DeploymentSteps
  <2>7. \E c \in Controllers : job[c].op = "delete"
    BY <2>6 DEF IsDeleted, DeleteDeployments, DeleteWorkload, DeleteDerivatives
  <2> QED BY <1>1, <2>7 DEF WorkloadsInv, InstCreates, Controllers
<1>2. WorkloadsInv /\ [WorkloadsNext]_workloadsVars =>
        (\A i \in Insts : \A d \in DeploymentKey :
          (Exists("inst", i) /\ d.uuid = api["inst"][i].uuid /\ Runs(d) /\ ~Runs(d)')
            => \E c \in {"app", "user"} : job[c].op = "delete")
  BY <1>1
<1> QED BY <1>2, WorkloadsInductive, PTL DEF WorkloadsSpec, LiveWorkloadKept

-----------------------------------------------------------------------------
(* What becomes of a complete triple *)

\* A complete triple that becomes an artifact, of an instance that the graph connects to
\* its app and user.
Wanted(i) == Known(i) /\ HasArtifact(instanceTable[i]) /\ ~OwnName(instanceTable[i])

\* The Deployments under the uuid that the graph has for the instance: one of them stands,
\* or the last write of one was wasted.
UuidOf(i) == instanceTable[i].id.uuid
Stands(i) == \E d \in DeploymentKey : d.uuid = UuidOf(i) /\ Runs(d)
Spoilt(i) == \E d \in wasted : d.uuid = UuidOf(i)

\* A worker holds the artifact; the app or the user will be taken for changed; or the
\* instance on the API server is not the one that the graph has.
Applying(i) == \E c \in Controllers : Artifact(c) # Nil /\ Artifact(c).inst = instanceTable[i]
Renewed(i) == \/ Unsettled("app", AppKey(instanceTable[i]))
              \/ Unsettled("user", UserKey(instanceTable[i]))
Gone(i) == Exists("inst", i) => api["inst"][i].uid # instanceTable[i].id.uid

Accounted(i) == \/ Stands(i) \/ Spoilt(i) \/ Gone(i)
                \/ Pending(i) \/ Applying(i) \/ Renewed(i) \/ i \in dropped

NoneLost == \A i \in Insts : Wanted(i) => Accounted(i)

\* The graph hands a connected instance out with its app and with its user.
LEMMA Reached ==
  ASSUME TypeOK, Connected, NEW i \in Insts, Known(i), ~OwnName(instanceTable[i])
  PROVE  /\ instanceTable[i] \in InstList(appTable, AppKey(instanceTable[i]))
         /\ instanceTable[i] \in InstList(userTable, UserKey(instanceTable[i]))
         /\ instanceTable[i].key = i
<1>1. instanceTable[i].key = i
  BY DEF TypeOK, Known
<1>2. /\ i \in appTable[AppKey(instanceTable[i])].instSet
      /\ i \in userTable[UserKey(instanceTable[i])].instSet
  BY <1>1 DEF Connected, OwnName
<1> QED BY <1>1, <1>2 DEF InstList, Known

LEMMA AppReaches ==
  ASSUME TypeOK, Connected, NEW i \in Insts, Known(i), ~OwnName(instanceTable[i]),
         NEW obj, AddApp(AppKey(instanceTable[i]), obj)
  PROVE  Pending(i)'
<1>1. instanceTable'[i] \in InstList(appTable, AppKey(instanceTable[i]))
  BY Reached DEF AddApp
<1> QED BY <1>1, HandedOutIsPending DEF AddApp, Controllers

LEMMA UserReaches ==
  ASSUME TypeOK, Connected, NEW i \in Insts, Known(i), ~OwnName(instanceTable[i]),
         NEW obj, AddUser(UserKey(instanceTable[i]), obj)
  PROVE  Pending(i)'
<1>1. instanceTable'[i] \in InstList(userTable, UserKey(instanceTable[i]))
  BY Reached DEF AddUser
<1> QED BY <1>1, HandedOutIsPending DEF AddUser, Controllers

\* What a step leaves as it was of what the graph has for an instance.
Kept(i) == /\ instanceTable'[i] = instanceTable[i] /\ Wanted(i)
           /\ Pending(i) => Pending(i)'
           /\ i \in dropped => i \in dropped'
Settles(i) == Pending(i)' \/ i \in dropped' \/ Applying(i)' \/ Kept(i)

LEMMA SameGraphSettles ==
  ASSUME TypeOK, NEW i \in Insts, Wanted(i)', instanceTable'[i] = instanceTable[i],
         GetApp(AppKey(instanceTable[i]))' = GetApp(AppKey(instanceTable[i])),
         GetUser(UserKey(instanceTable[i]))' = GetUser(UserKey(instanceTable[i]))
  PROVE  Wanted(i)
BY DEF Wanted, Known, HasArtifact, Complete, OwnName, GetApp, GetUser, AppKey, UserKey

LEMMA AppSettles ==
  ASSUME TypeOK, Connected, NEW key \in Apps, NEW i \in Insts, Wanted(i)',
         DeleteApp(key) \/ \E obj \in Revisions : AddApp(key, obj) \/ ResyncApp(key, obj)
  PROVE  Settles(i)
<1>k. key \in Key /\ "app" \in Controllers
  BY KeysAssumption DEF Controllers
<1>i. instanceTable' = instanceTable /\ UNCHANGED userTable
  BY DEF DeleteApp, AddApp, ResyncApp, tables
<1> DEFINE inst == instanceTable[i]
<1>n. Known(i) /\ ~OwnName(inst) /\ inst \in HelxInst /\ AppKey(inst) \in Key
  <2>1. Known(i) /\ ~OwnName(inst)
    BY <1>i DEF Wanted, Known, OwnName, AppKey, UserKey
  <2>2. inst \in HelxInst
    BY <2>1 DEF TypeOK, Known
  <2> QED BY <2>1, <2>2, KeysAreKeys
<1>s. ASSUME NEW obj \in Revisions, appTable' = SetObj(appTable, key, obj), NEW k \in Key,
             obj # appTable[key].obj => k # key
      PROVE  appTable'[k].obj = appTable[k].obj
  <2>1. appTable'[k].obj = IF k = key THEN obj ELSE appTable[k].obj
    BY <1>k, <1>s, SetObjType DEF TypeOK
  <2> QED BY <1>s, <2>1
<1>1. ASSUME NEW obj \in Revisions, AddApp(key, obj)
      PROVE  Settles(i)
  <2>1. CASE key = AppKey(inst)
    BY <1>1, <1>n, <2>1, AppReaches DEF Settles
  <2>2. CASE key # AppKey(inst)
    <3>1. GetApp(AppKey(inst))' = GetApp(AppKey(inst))
      <4>1. AppKey(inst)' = AppKey(inst)
        BY <1>i DEF AppKey
      <4>2. appTable'[AppKey(inst)].obj = appTable[AppKey(inst)].obj
        BY <1>1, <1>n, <1>s, <2>2 DEF AddApp
      <4> QED BY <4>1, <4>2 DEF GetApp
    <3>2. GetUser(UserKey(inst))' = GetUser(UserKey(inst))
      BY <1>i DEF GetUser, UserKey
    <3>3. Wanted(i)
      BY <1>i, <3>1, <3>2, SameGraphSettles
    <3>4. Pending(i) => Pending(i)'
      BY <1>1, <1>k, <1>i, HandOutPending DEF AddApp
    <3>5. i \in dropped => i \in dropped' \/ Pending(i)'
      <4> SUFFICES ASSUME i \in dropped, i \notin dropped' PROVE Pending(i)'
        OBVIOUS
      <4>1. i \in {x.key : x \in InstList(appTable, key)}
        BY <1>1 DEF AddApp
      <4>3. appTable[key].instSet \subseteq Insts
        BY <1>k DEF TypeOK, TableElement
      <4>4. PICK k \in appTable[key].instSet : instanceTable[k] # Nil /\ instanceTable[k].key = i
        BY <4>1 DEF InstList
      <4>5. k = i
        BY <4>3, <4>4 DEF TypeOK
      <4>2. inst \in InstList(appTable, key)
        BY <4>4, <4>5 DEF InstList
      <4> QED BY <1>1, <1>k, <1>i, <4>2, HandedOutIsPending DEF AddApp
    <3> QED BY <1>i, <3>3, <3>4, <3>5 DEF Settles, Kept
  <2> QED BY <2>1, <2>2
<1>2. ASSUME NEW obj \in Revisions, ResyncApp(key, obj)
      PROVE  Settles(i)
  <2>p. Pending(i) => Pending(i)'
    BY <1>2, <1>i DEF ResyncApp, Pending
  <2>d. i \in dropped => i \in dropped'
    BY <1>2 DEF ResyncApp
  <2>u. GetUser(UserKey(inst))' = GetUser(UserKey(inst))
    BY <1>i DEF GetUser, UserKey
  <2>1. CASE key = AppKey(inst) /\ GetApp(key) # obj
    <3>1. inst \in InstList(appTable, key) /\ inst.key = i
      BY <1>n, <2>1, Reached
    <3>2. i \in dropped'
      BY <1>2, <2>1, <3>1 DEF ResyncApp
    <3> QED BY <3>2 DEF Settles
  <2>2. CASE key # AppKey(inst) \/ GetApp(key) = obj
    <3>1. GetApp(AppKey(inst))' = GetApp(AppKey(inst))
      <4>1. AppKey(inst)' = AppKey(inst)
        BY <1>i DEF AppKey
      <4>2. appTable'[AppKey(inst)].obj = appTable[AppKey(inst)].obj
        BY <1>2, <1>n, <1>s, <2>2 DEF ResyncApp, GetApp
      <4> QED BY <4>1, <4>2 DEF GetApp
    <3> QED BY <1>i, <2>p, <2>d, <2>u, <3>1, SameGraphSettles DEF Settles, Kept
  <2> QED BY <2>1, <2>2
<1>3. CASE DeleteApp(key)
  <2>1. Wanted(i)
    BY <1>3, <1>i DEF DeleteApp, tables, Wanted, Known, HasArtifact, Complete, OwnName, GetApp, GetUser,
                      AppKey, UserKey
  <2>2. Pending(i) => Pending(i)'
    BY <1>3, <1>k, <1>i, HandOutPending DEF DeleteApp
  <2> QED BY <1>3, <1>i, <2>1, <2>2 DEF DeleteApp, Settles, Kept
<1> QED BY <1>1, <1>2, <1>3

LEMMA UserSettles ==
  ASSUME TypeOK, Connected, NEW key \in Users, NEW i \in Insts, Wanted(i)',
         DeleteUser(key) \/ \E obj \in Revisions : AddUser(key, obj) \/ ResyncUser(key, obj)
  PROVE  Settles(i)
<1>k. key \in Key /\ "user" \in Controllers
  BY KeysAssumption DEF Controllers
<1>i. instanceTable' = instanceTable /\ UNCHANGED appTable
  BY DEF DeleteUser, AddUser, ResyncUser, tables
<1> DEFINE inst == instanceTable[i]
<1>n. Known(i) /\ ~OwnName(inst) /\ inst \in HelxInst /\ UserKey(inst) \in Key
  <2>1. Known(i) /\ ~OwnName(inst)
    BY <1>i DEF Wanted, Known, OwnName, UserKey, AppKey
  <2>2. inst \in HelxInst
    BY <2>1 DEF TypeOK, Known
  <2> QED BY <2>1, <2>2, KeysAreKeys
<1>s. ASSUME NEW obj \in Revisions, userTable' = SetObj(userTable, key, obj), NEW k \in Key,
             obj # userTable[key].obj => k # key
      PROVE  userTable'[k].obj = userTable[k].obj
  <2>1. userTable'[k].obj = IF k = key THEN obj ELSE userTable[k].obj
    BY <1>k, <1>s, SetObjType DEF TypeOK
  <2> QED BY <1>s, <2>1
<1>1. ASSUME NEW obj \in Revisions, AddUser(key, obj)
      PROVE  Settles(i)
  <2>1. CASE key = UserKey(inst)
    BY <1>1, <1>n, <2>1, UserReaches DEF Settles
  <2>2. CASE key # UserKey(inst)
    <3>1. GetUser(UserKey(inst))' = GetUser(UserKey(inst))
      <4>1. UserKey(inst)' = UserKey(inst)
        BY <1>i DEF UserKey
      <4>2. userTable'[UserKey(inst)].obj = userTable[UserKey(inst)].obj
        BY <1>1, <1>n, <1>s, <2>2 DEF AddUser
      <4> QED BY <4>1, <4>2 DEF GetUser
    <3>2. GetApp(AppKey(inst))' = GetApp(AppKey(inst))
      BY <1>i DEF GetApp, AppKey
    <3>3. Wanted(i)
      BY <1>i, <3>1, <3>2, SameGraphSettles
    <3>4. Pending(i) => Pending(i)'
      BY <1>1, <1>k, <1>i, HandOutPending DEF AddUser
    <3>5. i \in dropped => i \in dropped' \/ Pending(i)'
      <4> SUFFICES ASSUME i \in dropped, i \notin dropped' PROVE Pending(i)'
        OBVIOUS
      <4>1. i \in {x.key : x \in InstList(userTable, key)}
        BY <1>1 DEF AddUser
      <4>3. userTable[key].instSet \subseteq Insts
        BY <1>k DEF TypeOK, TableElement
      <4>4. PICK k \in userTable[key].instSet : instanceTable[k] # Nil /\ instanceTable[k].key = i
        BY <4>1 DEF InstList
      <4>5. k = i
        BY <4>3, <4>4 DEF TypeOK
      <4>2. inst \in InstList(userTable, key)
        BY <4>4, <4>5 DEF InstList
      <4> QED BY <1>1, <1>k, <1>i, <4>2, HandedOutIsPending DEF AddUser
    <3> QED BY <1>i, <3>3, <3>4, <3>5 DEF Settles, Kept
  <2> QED BY <2>1, <2>2
<1>2. ASSUME NEW obj \in Revisions, ResyncUser(key, obj)
      PROVE  Settles(i)
  <2>p. Pending(i) => Pending(i)'
    BY <1>2, <1>i DEF ResyncUser, Pending
  <2>d. i \in dropped => i \in dropped'
    BY <1>2 DEF ResyncUser
  <2>u. GetApp(AppKey(inst))' = GetApp(AppKey(inst))
    BY <1>i DEF GetApp, AppKey
  <2>1. CASE key = UserKey(inst) /\ GetUser(key) # obj
    <3>1. inst \in InstList(userTable, key) /\ inst.key = i
      BY <1>n, <2>1, Reached
    <3>2. i \in dropped'
      BY <1>2, <2>1, <3>1 DEF ResyncUser
    <3> QED BY <3>2 DEF Settles
  <2>2. CASE key # UserKey(inst) \/ GetUser(key) = obj
    <3>1. GetUser(UserKey(inst))' = GetUser(UserKey(inst))
      <4>1. UserKey(inst)' = UserKey(inst)
        BY <1>i DEF UserKey
      <4>2. userTable'[UserKey(inst)].obj = userTable[UserKey(inst)].obj
        BY <1>2, <1>n, <1>s, <2>2 DEF ResyncUser, GetUser
      <4> QED BY <4>1, <4>2 DEF GetUser
    <3> QED BY <1>i, <2>p, <2>d, <2>u, <3>1, SameGraphSettles DEF Settles, Kept
  <2> QED BY <2>1, <2>2
<1>3. CASE DeleteUser(key)
  <2>1. Wanted(i)
    BY <1>3, <1>i DEF DeleteUser, tables, Wanted, Known, HasArtifact, Complete, OwnName, GetUser, GetApp,
                      UserKey, AppKey
  <2>2. Pending(i) => Pending(i)'
    BY <1>3, <1>k, <1>i, HandOutPending DEF DeleteUser
  <2> QED BY <1>3, <1>i, <2>1, <2>2 DEF DeleteUser, Settles, Kept
<1> QED BY <1>1, <1>2, <1>3

LEMMA InstSettles ==
  ASSUME TypeOK, TypeOK', NEW key \in Insts, NEW i \in Insts, Wanted(i)',
         \/ DeleteInst(key)
         \/ \E new \in HelxInst : new.key = key /\ (AddInst(new) \/ ResyncInst(new))
  PROVE  Settles(i)
<1>k. "inst" \in Controllers
  BY DEF Controllers
<1>g. ASSUME instanceTable'[i] = instanceTable[i],
             \A k \in Key : /\ appTable'[k].obj = appTable[k].obj
                            /\ userTable'[k].obj = userTable[k].obj
      PROVE  Wanted(i)
  <2>1. Known(i) /\ instanceTable[i] \in HelxInst
    BY <1>g DEF Wanted, Known, TypeOK
  <2>2. AppKey(instanceTable[i]) \in Key /\ UserKey(instanceTable[i]) \in Key
    BY <2>1, KeysAreKeys
  <2>3. /\ appTable'[AppKey(instanceTable[i])].obj = appTable[AppKey(instanceTable[i])].obj
        /\ userTable'[UserKey(instanceTable[i])].obj = userTable[UserKey(instanceTable[i])].obj
    BY <1>g, <2>2
  <2>4. AppKey(instanceTable[i])' = AppKey(instanceTable[i])
        /\ UserKey(instanceTable[i])' = UserKey(instanceTable[i])
    BY <1>g DEF AppKey, UserKey
  <2>5. /\ GetApp(AppKey(instanceTable[i]))' = GetApp(AppKey(instanceTable[i]))
        /\ GetUser(UserKey(instanceTable[i]))' = GetUser(UserKey(instanceTable[i]))
    BY <2>3, <2>4 DEF GetApp, GetUser
  <2> QED BY <1>g, <2>5, SameGraphSettles
<1>c. ASSUME NEW new \in HelxInst,
             appTable' = Connect(appTable, AppKey(new), new.key),
             userTable' = Connect(userTable, UserKey(new), new.key)
      PROVE  \A k \in Key : /\ appTable'[k].obj = appTable[k].obj
                            /\ userTable'[k].obj = userTable[k].obj
  <2>1. AppKey(new) \in Key /\ UserKey(new) \in Key /\ new.key \in Insts
    BY KeysAreKeys DEF HelxInst
  <2>t. appTable \in [Key -> TableElement] /\ userTable \in [Key -> TableElement]
    BY DEF TypeOK
  <2> DEFINE a == AppKey(new)
             u == UserKey(new)
             n == new.key
  <2>n. a \in Key /\ u \in Key /\ n \in Insts
    BY <2>1
  <2>e. appTable' = Connect(appTable, a, n) /\ userTable' = Connect(userTable, u, n)
    BY <1>c
  <2> HIDE DEF a, u, n
  <2>2. \A k \in Key : appTable'[k].obj = appTable[k].obj
    BY <2>t, <2>n, <2>e, ConnectType
  <2>3. \A k \in Key : userTable'[k].obj = userTable[k].obj
    BY <2>t, <2>n, <2>e, ConnectType
  <2> QED BY <2>2, <2>3
<1>1. ASSUME NEW new \in HelxInst, new.key = key, AddInst(new)
      PROVE  Settles(i)
  <2>1. CASE i = key
    <3>1. instanceTable'[i] \in {new}
      BY <1>1, <2>1 DEF AddInst, TypeOK
    <3>2. Pending(i)'
      BY <1>1, <1>k, <3>1, HandedOutIsPending DEF AddInst
    <3> QED BY <3>2 DEF Settles
  <2>2. CASE i # key
    <3>1. instanceTable'[i] = instanceTable[i]
      BY <1>1, <2>2 DEF AddInst, TypeOK
    <3>2. Wanted(i)
      BY <1>1, <1>c, <1>g, <3>1 DEF AddInst
    <3>3. Pending(i) => Pending(i)'
      BY <1>1, <1>k, <3>1, HandOutPending DEF AddInst
    <3> QED BY <1>1, <2>2, <3>1, <3>2, <3>3 DEF AddInst, Settles, Kept
  <2> QED BY <2>1, <2>2
<1>2. ASSUME NEW new \in HelxInst, new.key = key, ResyncInst(new)
      PROVE  Settles(i)
  <2>1. CASE i = key /\ instanceTable[i] # new
    BY <1>2, <2>1 DEF ResyncInst, Settles
  <2>2. CASE i # key \/ instanceTable[i] = new
    <3>1. instanceTable'[i] = instanceTable[i]
      BY <1>2, <2>2 DEF ResyncInst, TypeOK
    <3>2. Wanted(i)
      BY <1>2, <1>c, <1>g, <3>1 DEF ResyncInst
    <3>3. (Pending(i) => Pending(i)') /\ (i \in dropped => i \in dropped')
      BY <1>2, <3>1 DEF ResyncInst, Pending
    <3> QED BY <3>1, <3>2, <3>3 DEF Settles, Kept
  <2> QED BY <2>1, <2>2
<1>3. CASE DeleteInst(key)
  <2>1. i # key
    BY <1>3 DEF DeleteInst, Wanted, Known, TypeOK
  <2>2. instanceTable'[i] = instanceTable[i]
    BY <1>3, <2>1 DEF DeleteInst, TypeOK
  <2>3. \A k \in Key : appTable'[k].obj = appTable[k].obj /\ userTable'[k].obj = userTable[k].obj
    BY <1>3, DisconnectType DEF DeleteInst, TypeOK
  <2>4. Wanted(i)
    BY <1>g, <2>2, <2>3
  <2>5. (Pending(i) => Pending(i)') /\ (i \in dropped => i \in dropped')
    BY <1>3, <2>1, <2>2 DEF DeleteInst, Pending
  <2> QED BY <2>2, <2>4, <2>5 DEF Settles, Kept
<1> QED BY <1>1, <1>2, <1>3

\* Where the tables are left alone.
LEMMA SameTables ==
  ASSUME UNCHANGED tables, NEW i \in Insts, Wanted(i)'
  PROVE  instanceTable'[i] = instanceTable[i] /\ Wanted(i)
BY DEF tables, Wanted, Known, HasArtifact, Complete, OwnName, GetApp, GetUser, AppKey, UserKey

LEMMA RenderedTyped ==
  ASSUME TypeOK, NEW i \in Insts, Wanted(i)
  PROVE  Rendered(instanceTable[i]) \in Artifacts
<1> DEFINE inst == instanceTable[i]
<1>1. inst \in HelxInst
  BY DEF TypeOK, Wanted, Known
<1>2. AppKey(inst) \in Key /\ UserKey(inst) \in Key
  BY <1>1, KeysAreKeys
<1>3. GetApp(AppKey(inst)) \in Revisions /\ GetUser(UserKey(inst)) \in Revisions
  BY <1>2 DEF Wanted, HasArtifact, Complete, TypeOK, TableElement, GetApp, GetUser
<1>4. inst.spec.resources \in Resources
  BY <1>1, SpecsAssumption DEF HelxInst
<1> QED BY <1>1, <1>3, <1>4 DEF Rendered, Artifacts, Content

LEMMA WorkSettles ==
  ASSUME RecInv, NEW c \in Controllers, NEW i \in Insts, Wanted(i)', Work(c)
  PROVE  Settles(i)
<1>t. TypeOK /\ worker = [d \in Controllers |-> worker[d]]
  BY DEF RecInv, Shape
<1>i. instanceTable' = instanceTable /\ Wanted(i)
  <2>1. UNCHANGED tables
    BY DEF Work, Generate, GenerateFails, GenerateArtifacts, DeleteWorkload, DeleteDerivatives, Applied,
           NotApplied, Abandon, Finish, graph, vars, tables
  <2> QED BY <2>1, SameTables DEF tables
<1>1. ASSUME NEW inst \in job[c].insts, Generate(c, inst)
      PROVE  Settles(i)
  <2>1. CASE inst = instanceTable[i]
    <3>1. HasArtifact(inst)
      BY <1>i, <2>1 DEF Wanted
    <3>2. worker' = [worker EXCEPT ![c].artifact = Rendered(inst)]
      BY <1>1, <3>1 DEF Generate
    <3>3. worker[c] \in Workers
      BY DEF RecInv, WorkersOK, WorkerOK
    <3>4. worker'[c].artifact = Rendered(inst)
      BY <1>t, <3>2, <3>3 DEF Workers
    <3>5. Rendered(inst) # Nil
      BY <1>t, <1>i, <2>1, RenderedTyped, NilArtifactAssumption
    <3> QED BY <1>i, <2>1, <3>4, <3>5 DEF Settles, Applying, Artifact, Rendered
  <2>2. CASE inst # instanceTable[i]
    <3>1. Pending(i) => Pending(i)'
      BY <1>1, <1>t, <1>i, <2>2, DonePending DEF Generate, GenerateArtifacts
    <3>2. dropped' = dropped
      BY <1>1 DEF Generate, GenerateArtifacts
    <3> QED BY <1>i, <3>1, <3>2 DEF Settles, Kept
  <2> QED BY <2>1, <2>2
<1>2. ASSUME NEW inst \in job[c].insts, DeleteWorkload(c, inst)
      PROVE  Settles(i)
  <2>1. job' = [job EXCEPT ![c] = Done(c, inst)] /\ job[c].op = "delete" /\ dropped' = dropped
    BY <1>2 DEF DeleteWorkload, DeleteDerivatives
  <2>2. \A d \in Controllers \ {c} : job'[d] = job[d]
    BY <1>t, <2>1 DEF TypeOK
  <2>3. Pending(i) => Pending(i)'
    BY <1>i, <2>1, <2>2 DEF Pending
  <2> QED BY <1>i, <2>1, <2>3 DEF Settles, Kept
<1>3. CASE \/ NotApplied(c) /\ job[c].op = "create"
           \/ \E inst \in job[c].insts : GenerateFails(c, inst)
  <2>1. Abandon(c)
    BY <1>3 DEF NotApplied, GenerateFails
  <2>2. CASE instanceTable[i] \in job[c].insts
    <3>1. instanceTable[i].key = i
      BY <1>t, <1>i DEF TypeOK, Wanted, Known
    <3> QED BY <2>1, <2>2, <3>1 DEF Abandon, IsCurrent, Settles
  <2>3. CASE instanceTable[i] \notin job[c].insts
    <3>1. \A d \in Controllers \ {c} : job'[d] = job[d]
      BY <1>t, <2>1 DEF Abandon, TypeOK
    <3>2. Pending(i) => Pending(i)'
      BY <1>i, <2>3, <3>1 DEF Pending
    <3> QED BY <1>i, <2>1, <3>2 DEF Abandon, Settles, Kept
  <2> QED BY <2>2, <2>3
<1>4. CASE Applied(c) \/ Finish(c) \/ (NotApplied(c) /\ job[c].op # "create")
  BY <1>i, <1>4 DEF Applied, Finish, NotApplied, graph, vars, Settles, Kept, Pending
<1> QED BY <1>1, <1>2, <1>3, <1>4 DEF Work

\* Whatever step brings the triple about, or leaves it so.
LEMMA GraphSettles ==
  ASSUME RecInv, Connected, [ReconcilersNext]_reconcilerVars, NEW i \in Insts, Wanted(i)'
  PROVE  Settles(i)
<1>t. TypeOK /\ TypeOK'
  BY GraphTypeOK DEF RecInv
<1>1. CASE UNCHANGED vars
  <2>1. Wanted(i) /\ instanceTable'[i] = instanceTable[i]
    BY <1>1, SameTables DEF vars, tables
  <2> QED BY <1>1, <2>1 DEF vars, Settles, Kept, Pending
<1>2. ASSUME NEW c \in Controllers, NEW key \in KeysOf(c), Reconcile(c, key)
      PROVE  Settles(i)
  BY <1>1, <1>2, <1>t, ReconcileForms, AppSettles, UserSettles, InstSettles
<1>3. ASSUME NEW c \in Controllers, Work(c)
      PROVE  Settles(i)
  BY <1>3, WorkSettles
<1>4. ~RestartController
  BY DEF RestartController, Restart, Wanted, Known
<1>5. UserEdits => UNCHANGED vars
  BY DEF UserEdits, Create, Update, Delete, graph
<1>6. ASSUME NEW c \in Controllers, NEW key \in KeysOf(c), Sync(c, key)
      PROVE  UNCHANGED vars
  BY <1>6 DEF Sync, graph
<1> QED BY <1>1, <1>2, <1>3, <1>4, <1>5, <1>6 DEF ReconcilersNext, reconcilerVars

\* What the graph has of an instance that was deleted stays behind: a new object gets a
\* new metadata.uid.
LEMMA GoneStays ==
  ASSUME RecInv, Dated, [ReconcilersNext]_reconcilerVars, NEW i \in Insts, Known(i),
         instanceTable'[i] = instanceTable[i], Gone(i)
  PROVE  Gone(i)'
<1> SUFFICES ASSUME api'["inst"][i] # Nil
             PROVE  api'["inst"][i].uid # instanceTable[i].id.uid
  BY DEF Gone, Exists
<1>k. "inst" \in Controllers /\ KeysOf("inst") = Insts
  BY Kinds
<1>1. instanceTable[i] \in HelxInst
  BY DEF RecInv, TypeOK, Known
<1>2. instanceTable[i].id.uid \in Nat /\ instanceTable[i].id.uid <= edits /\ edits \in Nat
  BY <1>1, IdsAssumption, BoundsAssumption DEF HelxInst, Dated, RecInv, CountersOK
<1>3. api["inst"][i] # Nil => api["inst"][i].uid # instanceTable[i].id.uid
  BY DEF Gone, Exists
<1>4. CASE api'["inst"][i] = api["inst"][i] \/ HasStatus("inst", i)
  BY <1>3, <1>4 DEF HasStatus
<1>5. CASE IsEdited("inst", i)
  BY <1>2, <1>3, <1>5 DEF IsEdited
<1> QED BY <1>k, <1>4, <1>5, ApiSteps

LEMMA RenewedSteps ==
  ASSUME RecInv, Connected, [ReconcilersNext]_reconcilerVars, ~RestartController,
         NEW i \in Insts, Known(i), ~OwnName(instanceTable[i]),
         instanceTable'[i] = instanceTable[i], Renewed(i)
  PROVE  Renewed(i)' \/ Pending(i)'
<1> DEFINE inst == instanceTable[i]
<1>t. TypeOK
  BY DEF RecInv
<1>k. AppKey(inst)' = AppKey(inst) /\ UserKey(inst)' = UserKey(inst)
  BY DEF AppKey, UserKey
<1>1. CASE Unsettled("app", AppKey(inst))
  <2> DEFINE key == AppKey(inst)
  <2>1. "app" \in Controllers /\ key \in KeysOf("app")
    BY <1>1 DEF Unsettled, Controllers
  <2>2. CASE ReconcileChanged("app", key)
    <3>1. \E obj : AddApp(key, obj)
      BY <2>2 DEF ReconcileChanged
    <3> QED BY <1>t, <3>1, AppReaches
  <2>3. CASE ~ReconcileChanged("app", key)
    <3> HIDE DEF key
    <3>1. Unsettled("app", key)'
      BY <1>1, <2>1, <2>3, UnsettledStays DEF key
    <3> QED BY <1>k, <3>1 DEF Renewed, Unsettled, key
  <2> QED BY <2>2, <2>3
<1>2. CASE Unsettled("user", UserKey(inst))
  <2> DEFINE key == UserKey(inst)
  <2>1. "user" \in Controllers /\ key \in KeysOf("user")
    BY <1>2 DEF Unsettled, Controllers
  <2>2. CASE ReconcileChanged("user", key)
    <3>1. \E obj : AddUser(key, obj)
      BY <2>2 DEF ReconcileChanged
    <3> QED BY <1>t, <3>1, UserReaches
  <2>3. CASE ~ReconcileChanged("user", key)
    <3> HIDE DEF key
    <3>1. Unsettled("user", key)'
      BY <1>2, <2>1, <2>3, UnsettledStays DEF key
    <3> QED BY <1>k, <3>1 DEF Renewed, Unsettled, key
  <2> QED BY <2>2, <2>3
<1> QED BY <1>1, <1>2 DEF Renewed

\* What a worker has to apply is applied, or counts as wasted.
LEMMA Writes ==
  ASSUME RecInv, DeploymentsTyped, NEW c \in Controllers, NEW d, d = Target(c),
         CreateDeployment(c) \/ PatchDeployment(c) \/ FailDeployment(c)
  PROVE  /\ Artifact(c) # Nil /\ d \in DeploymentKey
         /\ d \in wasted' \/ Runs(d)'
         /\ wasted \ {d} \subseteq wasted'
<1>a. Artifact(c) # Nil
  BY DEF CreateDeployment, PatchDeployment, FailDeployment, Applied, NotApplied, Artifact
<1>d. d \in DeploymentKey
  BY <1>a, ArtifactTyped
<1>f. deployments = [x \in DeploymentKey |-> deployments[x]]
  BY DEF DeploymentsTyped
<1>1. CASE CreateDeployment(c)
  <2>1. deployments' = [deployments EXCEPT ![d] = Created(c)] /\ wasted' = wasted \ {d}
    BY <1>1 DEF CreateDeployment
  <2>2. deployments'[d] = Created(c)
    BY <1>d, <1>f, <2>1
  <2>3. Created(c) # Nil
    BY <1>a, CreatedTyped, NilDeploymentAssumption
  <2>4. Created(c).terminating = FALSE
    BY DEF Created
  <2>5. Runs(d)'
    BY <2>2, <2>3, <2>4 DEF Runs
  <2> QED BY <1>a, <1>d, <2>1, <2>5
<1>2. CASE PatchDeployment(c)
  <2>1. /\ CanPatch(c) /\ deployments' = [deployments EXCEPT ![d] = Patched(c)]
        /\ wasted' = IF deployments[d].terminating THEN wasted \cup {d} ELSE wasted \ {d}
    BY <1>2 DEF PatchDeployment
  <2>2. CASE deployments[d].terminating
    <3>1. wasted' = wasted \cup {d}
      BY <2>1, <2>2
    <3> QED BY <1>a, <1>d, <3>1
  <2>3. CASE ~deployments[d].terminating
    <3>1. Patched(c) # Nil /\ Patched(c).terminating = deployments[d].terminating
      BY <1>a, <2>1, <2>3, PatchedEnds
    <3>3. wasted' = wasted \ {d}
      BY <2>1, <2>3
    <3>2. deployments'[d] = Patched(c)
      BY <1>d, <1>f, <2>1
    <3>4. Runs(d)'
      BY <2>3, <3>1, <3>2 DEF Runs
    <3> QED BY <1>a, <1>d, <3>3, <3>4
  <2> QED BY <2>2, <2>3
<1>3. CASE FailDeployment(c)
  BY <1>3, <1>a, <1>d DEF FailDeployment
<1> QED BY <1>1, <1>2, <1>3

\* A waste is made good by a write, and forgotten by a restart only.
LEMMA SpoiltSteps ==
  ASSUME RecInv, DeploymentsTyped, [WorkloadsNext]_workloadsVars, ~RestartController,
         NEW i \in Insts, instanceTable'[i] = instanceTable[i], Spoilt(i)
  PROVE  Spoilt(i)' \/ Stands(i)'
<1>d. PICK d \in wasted : d.uuid = UuidOf(i)
  BY DEF Spoilt
<1>k. d \in DeploymentKey
  BY DEF DeploymentsTyped
<1>u. UuidOf(i)' = UuidOf(i)
  BY DEF UuidOf
<1>1. d \in wasted' \/ Runs(d)'
  <2>1. ASSUME NEW c \in Controllers, WorkloadsWork(c)
        PROVE  d \in wasted' \/ Runs(d)'
    <3>1. CASE CreateDeployment(c) \/ PatchDeployment(c) \/ FailDeployment(c)
      <4>1. PICK x : x = Target(c)
        OBVIOUS
      <4>2. (x \in wasted' \/ Runs(x)') /\ wasted \ {x} \subseteq wasted'
        BY <3>1, <4>1, Writes
      <4> QED BY <4>2
    <3>2. ASSUME NEW inst \in job[c].insts, DeleteDeployments(c, inst)
          PROVE  d \in wasted'
      BY <3>2 DEF DeleteDeployments
    <3>3. UNCHANGED cluster => d \in wasted'
      BY DEF cluster
    <3> QED BY <2>1, <3>1, <3>2, <3>3 DEF WorkloadsWork
  <2>2. ASSUME NEW x \in DeploymentKey, SyncDeployment(x) \/ CollectGarbage(x) \/ Terminate(x)
        PROVE  wasted' = wasted
    BY <2>2 DEF SyncDeployment, CollectGarbage, Terminate
  <2>3. ~RestartWorkloads
    BY DEF RestartWorkloads
  <2> QED BY <2>1, <2>2, <2>3 DEF WorkloadsNext, workloadsVars, cluster
<1> QED BY <1>d, <1>k, <1>u, <1>1 DEF Spoilt, Stands

LEMMA ApplyingSteps ==
  ASSUME RecInv, DeploymentsTyped, [WorkloadsNext]_workloadsVars, ~RestartController,
         NEW i \in Insts, instanceTable'[i] = instanceTable[i], Applying(i)
  PROVE  Applying(i)' \/ Stands(i)' \/ Spoilt(i)'
<1>c. PICK c \in Controllers : Artifact(c) # Nil /\ Artifact(c).inst = instanceTable[i]
  BY DEF Applying
<1>u. UuidOf(i)' = UuidOf(i) /\ Target(c).uuid = UuidOf(i)
  BY <1>c DEF UuidOf, Target, Artifact
<1>w. worker = [d \in Controllers |-> worker[d]] /\ worker[c].artifact # Nil /\ worker[c] # Free
  BY <1>c DEF RecInv, Shape, Artifact, Free
<1>1. CASE CreateDeployment(c) \/ PatchDeployment(c) \/ FailDeployment(c)
  <2>1. PICK x : x = Target(c)
    OBVIOUS
  <2>2. x \in DeploymentKey /\ (x \in wasted' \/ Runs(x)')
    BY <1>1, <2>1, Writes
  <2>3. x.uuid = UuidOf(i)'
    BY <1>u, <2>1
  <2> QED BY <2>2, <2>3 DEF Stands, Spoilt
<1>2. CASE worker'[c] = worker[c]
  BY <1>2, <1>c DEF Applying, Artifact
<1>3. \/ CreateDeployment(c) \/ PatchDeployment(c) \/ FailDeployment(c)
      \/ worker'[c] = worker[c]
  <2>1. ASSUME NEW d \in Controllers, NEW key \in KeysOf(d), Reconcile(d, key)
        PROVE  worker'[c] = worker[c]
    <3>1. d # c
      BY <2>1, <1>w DEF Reconcile, RecInv, WorkersOK, WorkerOK
    <3>2. worker' = worker \/ \E read : worker' = [worker EXCEPT ![d] = Busy(key, read)]
      BY <2>1 DEF Reconcile, ReconcileDeleted, ReconcileResync, ReconcileChanged
    <3> QED BY <1>w, <3>1, <3>2
  <2>2. ASSUME NEW d \in Controllers, WorkloadsWork(d), d # c
        PROVE  worker'[c] = worker[c]
    <3>1. worker' = worker \/ \E v : worker' = [worker EXCEPT ![d] = v]
      BY <2>2 DEF WorkloadsWork, Generate, GenerateFails, DeleteDeployments, DeleteWorkload, CreateDeployment,
                  PatchDeployment, FailDeployment, Applied, NotApplied, Finish
    <3> QED BY <1>w, <2>2, <3>1
  <2>3. ASSUME WorkloadsWork(c)
        PROVE  \/ CreateDeployment(c) \/ PatchDeployment(c) \/ FailDeployment(c)
               \/ worker'[c] = worker[c]
    BY <2>3, <1>w DEF WorkloadsWork, Generate, GenerateFails, DeleteDeployments, DeleteWorkload, Finish
  <2>4. ASSUME NEW d \in DeploymentKey, SyncDeployment(d) \/ CollectGarbage(d) \/ Terminate(d)
        PROVE  worker' = worker
    BY <2>4 DEF SyncDeployment, CollectGarbage, Terminate, reconcilerVars
  <2>5. UserEdits => worker' = worker
    BY DEF UserEdits, Create, Update, Delete
  <2>6. ASSUME NEW d \in Controllers, NEW key \in KeysOf(d), Sync(d, key)
        PROVE  worker' = worker
    BY <2>6 DEF Sync
  <2>7. ~RestartWorkloads
    BY DEF RestartWorkloads
  <2> QED BY <2>1, <2>2, <2>3, <2>4, <2>5, <2>6, <2>7
          DEF WorkloadsNext, workloadsVars, reconcilerVars
<1> QED BY <1>1, <1>2, <1>3

\* The identity under which the graph or a worker holds a copy.
LEMMA CopyIdentity ==
  ASSUME RecInv, NEW inst \in HelxInst,
         \/ \E i \in Insts : Known(i) /\ inst = instanceTable[i]
         \/ \E c \in Controllers : inst \in job[c].insts
  PROVE  IdOf(inst) \in Identity /\ Circulates(IdOf(inst))
<1>1. inst.key \in Insts /\ inst.id.uid \in 0..MaxEdits /\ inst.id.uuid \in 1..MaxUUIDs
  BY IdsAssumption DEF HelxInst
<1>2. IdOf(inst) \in Identity
  BY <1>1 DEF IdOf, Identity
<1>3. InGraphId(IdOf(inst))
  BY DEF InGraphId
<1> QED BY <1>2, <1>3 DEF Circulates

\* A Deployment under the instance's uuid goes only with the instance itself, or by a
\* cascade: of an app or user that the instance names, which will come back as a new
\* one, or of another, which is a waste.
LEMMA StandsSteps ==
  ASSUME WorkloadsInv, CacheInv, [WorkloadsNext]_workloadsVars,
         NEW i \in Insts, Known(i), instanceTable'[i] = instanceTable[i], Stands(i)
  PROVE  Stands(i)' \/ Spoilt(i)' \/ Renewed(i)' \/ Gone(i)
<1>t. RecInv /\ DeploymentsTyped /\ TypeOK
  BY DEF WorkloadsInv, RecInv
<1>d. PICK d \in DeploymentKey : d.uuid = UuidOf(i) /\ Runs(d)
  BY DEF Stands
<1>u. UuidOf(i)' = UuidOf(i)
  BY DEF UuidOf
<1> DEFINE own == instanceTable[i]
<1>o. own \in HelxInst /\ own.key = i
  BY <1>t DEF TypeOK, Known
<1>i. IdOf(own) \in Identity /\ Circulates(IdOf(own)) /\ IdOf(own).uuid = d.uuid
      /\ IdOf(own).key = i /\ IdOf(own).uid = own.id.uid
  <2>1. IdOf(own) \in Identity /\ Circulates(IdOf(own))
    BY <1>o, <1>t, CopyIdentity
  <2> QED BY <1>o, <1>d, <2>1 DEF IdOf, UuidOf
<1>1. CASE Runs(d)'
  BY <1>1, <1>d, <1>u DEF Stands
<1>2. CASE Ends(d)
  <2>1. Garbage(d)
    BY <1>2, <1>d DEF Ends, Runs
  <2>2. deployments[d].owner = [key |-> i, uid |-> own.id.uid]
    BY <1>i, <2>1 DEF Garbage, WorkloadsInv, Identified, OwnerOf
  <2> QED BY <2>1, <2>2 DEF Garbage, Gone
<1>3. CASE IsDeleted(d)
  <2>c. PICK c \in Controllers : \E inst \in job[c].insts :
          /\ DeleteDeployments(c, inst)
          /\ d = [ns |-> inst.key.ns, uuid |-> inst.id.uuid]
          /\ deployments[d] # Nil
          /\ deployments'[d] = [deployments[d] EXCEPT !.terminating = TRUE]
    BY <1>3 DEF IsDeleted
  <2>i. PICK inst \in job[c].insts :
          /\ DeleteDeployments(c, inst)
          /\ d = [ns |-> inst.key.ns, uuid |-> inst.id.uuid]
          /\ deployments[d] # Nil
          /\ deployments'[d] = [deployments[d] EXCEPT !.terminating = TRUE]
    BY <2>c
  <2>w. DeleteWorkload(c, inst) /\ job[c].op = "delete"
    BY <2>i DEF DeleteDeployments, DeleteWorkload, DeleteDerivatives
  <2>k. inst.key = i
    <3>1. inst \in HelxInst
      BY <1>t DEF TypeOK
    <3>2. IdOf(inst) \in Identity /\ Circulates(IdOf(inst))
      BY <1>t, <3>1, CopyIdentity
    <3>3. IdOf(inst).uuid = d.uuid /\ IdOf(inst).key = inst.key
      BY <2>i DEF IdOf
    <3>4. IdOf(inst) = IdOf(own)
      BY <1>i, <3>2, <3>3 DEF WorkloadsInv, Identified
    <3> QED BY <1>i, <3>3, <3>4
  <2>a. c \in {"app", "user"}
    BY <2>w DEF WorkloadsInv, InstCreates, Controllers
  <2>1. CASE Strays(c, inst)
    <3>1. deployments' # deployments
      <4>1. deployments[d] \in Deployment /\ deployments[d].terminating = FALSE
        BY <1>t, <1>d DEF Runs, DeploymentsTyped, Deployment
      <4>2. deployments'[d].terminating = TRUE
        BY <2>i, <4>1 DEF Deployment
      <4> QED BY <4>1, <4>2
    <3>2. d \in wasted'
      BY <2>i, <2>1, <3>1 DEF DeleteDeployments
    <3> QED BY <1>d, <1>u, <3>2 DEF Spoilt
  <2>2. CASE ~Strays(c, inst)
    <3>1. /\ c = "app" => AppKey(own) = worker[c].key
          /\ c = "user" => UserKey(own) = worker[c].key
      BY <2>2, <2>k DEF Strays
    <3>2. Unsettled(c, worker[c].key)
      BY <2>a, <2>w DEF CacheInv, CascadesUnsettled
    <3>3. UNCHANGED <<api, cache, queue, worker>>
      BY <2>w DEF DeleteWorkload
    <3>4. Unsettled(c, worker[c].key)'
      BY <3>2, <3>3 DEF Unsettled
    <3>5. /\ c = "app" => AppKey(own)' = worker'[c].key
          /\ c = "user" => UserKey(own)' = worker'[c].key
      BY <3>1, <3>3 DEF AppKey, UserKey
    <3> QED BY <2>a, <3>4, <3>5 DEF Renewed
  <2> QED BY <2>1, <2>2
<1>4. CASE Appears(d)
  BY <1>4, <1>d DEF Appears, Runs
<1>5. CASE IsPatched(d)
  BY <1>1, <1>5, <1>t, <1>d, PatchedEnds DEF IsPatched, Runs
<1>6. CASE deployments'[d] = deployments[d]
  BY <1>1, <1>6, <1>d DEF Runs
<1> QED BY <1>t, <1>2, <1>3, <1>4, <1>5, <1>6, DeploymentSteps

LEMMA NextNoneLost ==
  WorkloadsInv /\ CacheInv /\ Connected /\ NoneLost /\ [WorkloadsNext]_workloadsVars => NoneLost'
<1> SUFFICES ASSUME WorkloadsInv, CacheInv, Connected, NoneLost, [WorkloadsNext]_workloadsVars,
                    NEW i \in Insts, Wanted(i)'
             PROVE  Accounted(i)'
  BY DEF NoneLost
<1>t. RecInv /\ DeploymentsTyped /\ Dated /\ [ReconcilersNext]_reconcilerVars
  BY NextIsReconcilersNext DEF WorkloadsInv, CacheInv
<1>r. ~RestartController
  BY DEF RestartController, Restart, Wanted, Known
<1>1. Settles(i)
  BY <1>t, GraphSettles
<1>2. CASE Pending(i)' \/ i \in dropped' \/ Applying(i)'
  BY <1>2 DEF Accounted
<1>3. CASE Kept(i)
  <2>1. instanceTable'[i] = instanceTable[i] /\ Known(i) /\ ~OwnName(instanceTable[i])
    BY <1>3 DEF Kept, Wanted
  <2>2. Accounted(i)
    BY <1>3 DEF Kept, NoneLost
  <2>3. CASE Pending(i) \/ i \in dropped
    BY <1>3, <2>3 DEF Kept, Accounted
  <2>4. CASE Gone(i)
    BY <1>t, <2>1, <2>4, GoneStays DEF Accounted
  <2>5. CASE Stands(i)
    BY <1>t, <2>1, <2>5, StandsSteps, GoneStays DEF Accounted
  <2>6. CASE Spoilt(i)
    BY <1>t, <1>r, <2>1, <2>6, SpoiltSteps DEF Accounted
  <2>7. CASE Applying(i)
    BY <1>t, <1>r, <2>1, <2>7, ApplyingSteps DEF Accounted
  <2>8. CASE Renewed(i)
    BY <1>t, <1>r, <2>1, <2>8, RenewedSteps DEF Accounted
  <2> QED BY <2>2, <2>3, <2>4, <2>5, <2>6, <2>7, <2>8 DEF Accounted
<1> QED BY <1>1, <1>2, <1>3 DEF Settles

\* At rest the graph is what the API server has, and nothing is under way.
LEMMA RestedTriple ==
  ASSUME RecInv, NoRequestLost, AtRest, NEW i \in Insts, TripleExists(i)
  PROVE  /\ Known(i)
         /\ OwnName(instanceTable[i]) \/ AppIsBare(i) \/ Wanted(i)
         /\ ~Gone(i) /\ ~Pending(i) /\ ~Applying(i) /\ ~Renewed(i)
<1> DEFINE cr == api["inst"][i]
           own == instanceTable[i]
<1>r. \A c \in Controllers : queue[c] = {} /\ worker[c] = Free /\ cache[c] = api[c]
  BY DEF AtRest
<1>k. /\ "app" \in Controllers /\ "user" \in Controllers /\ "inst" \in Controllers
      /\ KeysOf("app") = Apps /\ KeysOf("user") = Users /\ KeysOf("inst") = Insts
  BY Kinds
<1>s. \A c \in Controllers : \A key \in KeysOf(c) : api[c][key] # Nil => Stored(c, key)
  BY <1>r DEF NoRequestLost
<1>1. cr # Nil /\ cache["inst"] = api["inst"]
  BY <1>k, <1>r DEF TripleExists, Exists
<1>2. Known(i) /\ own.spec = cr.content /\ own.id.uid = cr.uid
  BY <1>1, <1>s, <1>k DEF Stored
<1>3. own.key = i
  BY <1>2 DEF RecInv, TypeOK, Known
<1>4. AppKey(InstOf(i, cr)) = AppKey(own) /\ UserKey(InstOf(i, cr)) = UserKey(own)
  BY <1>2, <1>3 DEF AppKey, UserKey, InstOf
<1>5. /\ AppKey(own) \in Apps /\ api["app"][AppKey(own)] # Nil
      /\ UserKey(own) \in Users /\ api["user"][UserKey(own)] # Nil
  BY <1>4 DEF TripleExists, Exists
<1>6. GetApp(AppKey(own)) # Nil /\ (GetApp(AppKey(own)) \in Bare => AppIsBare(i))
  <2>1. api["app"][AppKey(own)] \in Resource("app")
    BY <1>5, <1>k DEF RecInv, ObjectsSound, Sound
  <2>2. api["app"][AppKey(own)].content \in Revisions
    BY <2>1, Kinds DEF Resource
  <2>3. GetApp(AppKey(own)) = api["app"][AppKey(own)].content
    BY <1>5, <1>k, <1>r, <1>s DEF Stored
  <2> QED BY <1>4, <2>2, <2>3, NilAssumption DEF AppIsBare
<1>7. GetUser(UserKey(own)) # Nil
  <2>1. api["user"][UserKey(own)] \in Resource("user")
    BY <1>5, <1>k DEF RecInv, ObjectsSound, Sound
  <2>2. api["user"][UserKey(own)].content \in Revisions
    BY <2>1, Kinds DEF Resource
  <2>3. GetUser(UserKey(own)) = api["user"][UserKey(own)].content
    BY <1>5, <1>k, <1>r, <1>s DEF Stored
  <2> QED BY <2>2, <2>3, NilAssumption
<1>8. ~Gone(i)
  BY <1>1, <1>2 DEF Gone, Exists
<1>9. ~Pending(i)
  <2>1. \A c \in Controllers : job[c] = Idle
    BY <1>r DEF RecInv, WorkersOK, WorkerOK, Free
  <2> QED BY <2>1 DEF Pending, Idle
<1>10. ~Applying(i)
  BY <1>r DEF Applying, Artifact, Free
<1>11. ~Renewed(i)
  BY <1>5, <1>k, <1>r DEF Renewed, Unsettled
<1> QED BY <1>2, <1>6, <1>7, <1>8, <1>9, <1>10, <1>11 DEF Wanted, HasArtifact, Complete

\* Only what was given up is undeployed, or becomes no container: while a complete triple
\* whose app becomes one has no Deployment, its
\* copy is to be handled, its artifact is in a worker's hands, or its app or user is yet
\* to be taken for changed -- which a cascade leaves it, for an object that is deleted is
\* new to the cache when it comes back; a Deployment goes only with its instance, by a
\* cascade, or by a write that was wasted; and nothing of this is left at rest
\* (reconcile, DeleteDerivatives, CreateOrUpdateResource).
THEOREM NothingUndeployed == WorkloadsSpec => []UndeployedWasGivenUp
<1>1. WorkloadsInit => NoneLost
  BY DEF WorkloadsInit, ReconcilersInit, Init, NoneLost, Wanted, Known
<1>2. WorkloadsInv /\ CacheInv /\ Connected /\ NoneLost /\ [WorkloadsNext]_workloadsVars
        => NoneLost'
  BY NextNoneLost
<1>3. WorkloadsInv /\ CacheInv /\ NoneLost => UndeployedWasGivenUp
  <2> SUFFICES ASSUME WorkloadsInv, CacheInv, NoneLost, AtRest, NEW i \in Insts, TripleExists(i)
               PROVE  /\ Known(i)
                      /\ \/ OwnName(instanceTable[i])
                         \/ AppIsBare(i)
                         \/ \E d \in DeploymentKey :
                              deployments[d] # Nil /\ d.uuid = instanceTable[i].id.uuid
                         \/ \E d \in wasted : d.uuid = instanceTable[i].id.uuid
                         \/ i \in dropped
    BY DEF UndeployedWasGivenUp
  <2>1. RecInv /\ NoRequestLost
    BY DEF WorkloadsInv, CacheInv
  <2>2. Wanted(i) => Stands(i) \/ Spoilt(i) \/ i \in dropped
    BY <2>1, RestedTriple DEF NoneLost, Accounted
  <2> QED BY <2>1, <2>2, RestedTriple DEF Stands, Spoilt, UuidOf, Runs
<1>4. WorkloadsSpec => []CacheInv
  BY ReconcilersImplemented, CacheInductive, PTL
<1>5. WorkloadsSpec => []Connected
  BY ReconcilersImplemented, GraphImplemented, AssociationsComplete, PTL
<1> QED BY <1>1, <1>2, <1>3, <1>4, <1>5, WorkloadsInductive, PTL DEF WorkloadsSpec
=============================================================================
