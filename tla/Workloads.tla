------------------------------ MODULE Workloads ------------------------------
(***************************************************************************)
(* What the reconcilers do to the cluster: the Deployments they create,     *)
(* patch and delete (CreateOrUpdateResource, DeleteDerivatives), as the API *)
(* server has them and as the lagging informer cache shows them, and the    *)
(* garbage collector that follows owner references.                         *)
(*                                                                         *)
(* A Deployment is named after its instance's uuid, so the key of one is a  *)
(* namespace and a uuid.  PersistentVolumeClaims and Services are applied   *)
(* by the same code after the Deployment and are left out here.             *)
(***************************************************************************)
EXTENDS Reconcilers

VARIABLES
  deployments, \* on the API server
  seen,        \* in the informer's cache
  wasted       \* Deployments whose last write was refused, went to one that was
               \* being deleted, or was undone by a stray cascade (history)

cluster == <<deployments, seen, wasted>>
workloadsVars == <<reconcilerVars, deployments, seen, wasted>>

DeploymentKey == [ns : Namespaces, uuid : 1..MaxUUIDs]

\* The three parts of the content come from different places and differ in
\* different paths of a JSON patch.  A Deployment that was deleted in the foreground
\* stays, with a finalizer, until its ReplicaSets are gone.  An owner reference has
\* the instance's name and uid.
OwnerRef == [key : Insts, uid : 0..MaxEdits]
Deployment == [content : Content, owner : OwnerRef \cup {Nil}, terminating : BOOLEAN]

ASSUME NilDeploymentAssumption == Nil \notin Deployment

-----------------------------------------------------------------------------
(* The informer and the garbage collector *)

SyncDeployment(d) ==
  /\ seen[d] # deployments[d]
  /\ seen' = [seen EXCEPT ![d] = deployments[d]]
  /\ UNCHANGED <<reconcilerVars, deployments, wasted>>

\* The end of a foreground deletion.
Terminate(d) ==
  /\ deployments[d] # Nil /\ deployments[d].terminating
  /\ deployments' = [deployments EXCEPT ![d] = Nil]
  /\ UNCHANGED <<reconcilerVars, seen, wasted>>

\* A Deployment whose owner is gone is deleted.
Garbage(d) ==
  /\ deployments[d] # Nil
  /\ deployments[d].owner # Nil
  /\ ~ \E i \in Insts : /\ Exists("inst", i)
                        /\ deployments[d].owner = [key |-> i, uid |-> api["inst"][i].uid]

CollectGarbage(d) ==
  /\ Garbage(d)
  /\ deployments' = [deployments EXCEPT ![d] = Nil]
  /\ UNCHANGED <<reconcilerVars, seen, wasted>>

-----------------------------------------------------------------------------
(* CreateOrUpdateResource for the rendered Deployment *)

\* The Deployment's namespace is the request's, not the instance's.
Target(c) == [ns |-> worker[c].key.ns, uuid |-> worker[c].artifact.inst.id.uuid]
Artifact(c) == worker[c].artifact

\* The template labels the Deployment with the instance's references as written;
\* the API server refuses a label value with a "/" in it.
ValidLabels(inst) == inst.spec.appName.ns = NoNamespace /\ inst.spec.userName.ns = NoNamespace

\* Not in the cache: it is created, owned by the instance.  The owner must be of
\* the Deployment's namespace, and the Deployment must not exist.
CanCreate(c) ==
  /\ seen[Target(c)] = Nil
  /\ Target(c).ns = Artifact(c).inst.key.ns
  /\ ValidLabels(Artifact(c).inst)
  /\ deployments[Target(c)] = Nil

\* A mutant of Created: the owner reference has no uid.
CreatedByName(c) ==
  [content |-> Artifact(c).content, owner |-> Artifact(c).inst.key, terminating |-> FALSE]

Created(c) ==
  [content |-> Artifact(c).content, terminating |-> FALSE,
   owner |-> [key |-> Artifact(c).inst.key, uid |-> Artifact(c).inst.id.uid]]

\* In the cache: what differs between the cached object and the target is sent as
\* a JSON patch, and only that.  The target has neither owner nor finalizer, so that
\* the patch removes the cached ones; removing what is not there fails.
CanPatch(c) ==
  LET now == deployments[Target(c)]
      cached == seen[Target(c)]
  IN  /\ cached # Nil /\ now # Nil
      /\ cached.owner # Nil => now.owner # Nil
      /\ cached.terminating => now.terminating
      /\ ValidLabels(Artifact(c).inst)

\* A Deployment being deleted is patched like any other, and is gone at once when
\* the patch removes its finalizer.
Patched(c) ==
  LET now == deployments[Target(c)]
      cached == seen[Target(c)]
      target == Artifact(c)
  IN  IF cached.terminating THEN Nil
      ELSE [content |-> [f \in DOMAIN now.content |->
                          IF cached.content[f] = target.content[f] THEN now.content[f]
                                                                   ELSE target.content[f]],
            owner |-> IF cached.owner = Nil THEN now.owner ELSE Nil,
            terminating |-> now.terminating]

CreateDeployment(c) ==
  /\ Applied(c)
  /\ CanCreate(c)
  /\ deployments' = [deployments EXCEPT ![Target(c)] = Created(c)]
  /\ wasted' = wasted \ {Target(c)}
  /\ UNCHANGED seen

PatchDeployment(c) ==
  /\ Applied(c)
  /\ CanPatch(c)
  /\ deployments' = [deployments EXCEPT ![Target(c)] = Patched(c)]
  /\ wasted' = IF deployments[Target(c)].terminating THEN wasted \cup {Target(c)}
                                                    ELSE wasted \ {Target(c)}
  /\ UNCHANGED seen

\* The write is refused: "already exists", "not found", a foreign owner, a label,
\* a patch that does not apply; or it meets a fault.
FailDeployment(c) ==
  /\ NotApplied(c)
  /\ faults' = faults => ~CanCreate(c) /\ ~CanPatch(c)
  /\ wasted' = wasted \cup {Target(c)}
  /\ UNCHANGED <<deployments, seen>>

\* The instance, as the graph has it now, does not name the app or user that is
\* deleted: it moved to another and stayed in the set of the old one, or moved while
\* the worker held the copy.
Strays(c, inst) ==
  /\ Known(inst.key)
  /\ \/ c = "app" /\ AppKey(instanceTable[inst.key]) # worker[c].key
     \/ c = "user" /\ UserKey(instanceTable[inst.key]) # worker[c].key

\* DeleteDerivatives lists the cached Deployments that carry the copy's uuid in the
\* instance's namespace and deletes them in the foreground; if that fails, they stay.
DeleteDeployments(c, inst) ==
  LET d == [ns |-> inst.key.ns, uuid |-> inst.id.uuid] IN
  /\ DeleteWorkload(c, inst)
  /\ deployments' = IF seen[d] = Nil \/ deployments[d] = Nil \/ faults' # faults
                    THEN deployments ELSE [deployments EXCEPT ![d].terminating = TRUE]
  /\ wasted' = IF Strays(c, inst) /\ deployments' # deployments THEN wasted \cup {d} ELSE wasted
  /\ UNCHANGED seen

-----------------------------------------------------------------------------
\* A restart lists the Deployments anew.
RestartWorkloads ==
  /\ RestartController
  /\ seen' = deployments
  /\ wasted' = {}
  /\ UNCHANGED deployments

WorkloadsInit ==
  /\ ReconcilersInit
  /\ deployments = [d \in DeploymentKey |-> Nil]
  /\ seen = [d \in DeploymentKey |-> Nil]
  /\ wasted = {}

WorkloadsWork(c) ==
  \/ \E inst \in job[c].insts : \/ Generate(c, inst) /\ UNCHANGED cluster
                                \/ GenerateFails(c, inst) /\ UNCHANGED cluster
                                \/ DeleteDeployments(c, inst)
  \/ CreateDeployment(c) \/ PatchDeployment(c) \/ FailDeployment(c)
  \/ Finish(c) /\ UNCHANGED cluster

WorkloadsNext ==
  \/ UserEdits /\ UNCHANGED cluster
  \/ \E c \in Controllers : \E key \in KeysOf(c) :
        (Sync(c, key) \/ Reconcile(c, key)) /\ UNCHANGED cluster
  \/ \E c \in Controllers : WorkloadsWork(c)
  \/ \E d \in DeploymentKey : SyncDeployment(d) \/ CollectGarbage(d) \/ Terminate(d)
  \/ RestartWorkloads

\* As in Reconcilers; the informer of Deployments and the garbage collector and the ends of
\* foreground deletions keep going as well.
WorkloadsFairness ==
  /\ \A c \in Controllers :
       /\ WF_workloadsVars(WorkloadsWork(c))
       /\ \A key \in KeysOf(c) : /\ WF_workloadsVars(Sync(c, key) /\ UNCHANGED cluster)
                                 /\ SF_workloadsVars(Reconcile(c, key) /\ UNCHANGED cluster)
  /\ \A d \in DeploymentKey : /\ WF_workloadsVars(SyncDeployment(d))
                              /\ WF_workloadsVars(CollectGarbage(d))
                              /\ WF_workloadsVars(Terminate(d))

WorkloadsSpec == WorkloadsInit /\ [][WorkloadsNext]_workloadsVars
FairWorkloadsSpec == WorkloadsSpec /\ WorkloadsFairness

-----------------------------------------------------------------------------
(* Properties *)

WorkloadsTypeOK ==
  /\ ReconcilersTypeOK
  /\ deployments \in [DeploymentKey -> Deployment \cup {Nil}]
  /\ seen \in [DeploymentKey -> Deployment \cup {Nil}]
  /\ wasted \subseteq DeploymentKey

\* The instance's triple, complete on the API server.
TripleExists(i) ==
  /\ Exists("inst", i)
  /\ LET inst == InstOf(i, api["inst"][i])
     IN  /\ AppKey(inst) \in Apps /\ Exists("app", AppKey(inst))
         /\ UserKey(inst) \in Users /\ Exists("user", UserKey(inst))

Runs(d) == deployments[d] # Nil /\ ~deployments[d].terminating

\* The uuid that the graph has for an instance.
UUIDOf(i) == instanceTable[i].id.uuid

\* The instance's app, as the API server has it, becomes no container.
AppIsBare(i) == api["app"][AppKey(InstOf(i, api["inst"][i]))].content \in Bare

\* Its Deployment was given up: the last write of it failed, or the instance was passed
\* over, by an error or by a resync.
GivenUp(i) == i \in dropped \/ \E d \in wasted : d.uuid = UUIDOf(i)

\* In whatever order apps, users and instances arrive, with caches of any lag and the
\* reconcilers racing to create the same Deployments, a complete triple that stays
\* gets its Deployment under the uuid that the graph has for it, and keeps it, or it
\* is given up: a write that is refused or meets a fault, a template that fails and
\* the instances after such an error in the loop, what a restart resyncs.  An app
\* without a container gets none.  Nothing else can keep it from its Deployment.
EventuallyDeployed ==
  \A i \in Insts :
    <>[]TripleExists(i) =>
      <>[](/\ TripleExists(i) /\ Known(i)
           /\ \/ \E d \in DeploymentKey : Runs(d) /\ d.uuid = UUIDOf(i)
              \/ AppIsBare(i)
              \/ GivenUp(i))

\* Nothing is left to happen until a user does something.
AtRest ==
  /\ \A c \in Controllers : queue[c] = {} /\ worker[c] = Free /\ cache[c] = api[c]
  /\ seen = deployments
  /\ \A d \in DeploymentKey : ~Garbage(d) /\ (deployments[d] # Nil => Runs(d))

\* A complete triple that is left without a Deployment, under the uuid that the
\* graph has for its instance, when everything is at rest has an app without a
\* container, or was given up in one of these ways: the last write of the Deployment
\* was refused, met a fault or met one that was still being deleted, after which the
\* generation counts as observed all the same; the cascade of an app or user that the
\* instance no longer names took it; or the instance was passed over, by the failure
\* of its own templates, by the error of another in the same loop, or by a resync.
\* No interleaving, lag, conflict or re-creation loses it otherwise, but of an
\* instance with the name of its own app or user (Connected).
UndeployedWasGivenUp ==
  AtRest => \A i \in Insts : TripleExists(i) =>
    /\ Known(i)
    /\ \/ OwnName(instanceTable[i])
       \/ AppIsBare(i)
       \/ \E d \in DeploymentKey : deployments[d] # Nil /\ d.uuid = instanceTable[i].id.uuid
       \/ \E d \in wasted : d.uuid = instanceTable[i].id.uuid
       \/ i \in dropped

\* The Deployment of an instance that exists is deleted only by the cascade of a
\* deleted app or user: neither the garbage collector, after a namesake's deletion
\* and re-creation, nor a late write takes it.
LiveWorkloadKept ==
  [][\A i \in Insts : \A d \in DeploymentKey :
       (Exists("inst", i) /\ d.uuid = api["inst"][i].uuid
          /\ Runs(d) /\ ~Runs(d)')
         => \E c \in {"app", "user"} : job[c].op = "delete"]_workloadsVars

-----------------------------------------------------------------------------
(* What the documentation says and the code does not do *)

\* README.md:171 "Deletion behavior": when an instance is deleted the garbage
\* collector removes its Deployment.
DeletedInstLeavesNothing ==
  AtRest => \A d \in DeploymentKey : deployments[d] # Nil =>
              \E i \in Insts : Exists("inst", i)
=============================================================================
