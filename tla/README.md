# helxapp-controller in TLA+

A verification development for the HeLx app controller, a Kubernetes controller
that runs applications for users. Three custom resources describe the work: a
`HelxApp` (what can be run), a `HelxUser` (who runs it) and a `HelxInst` (one
instance of an app for a user). When all three of a triple exist, the controller
creates a Deployment, with PersistentVolumeClaims and Services, for the instance.

Paths below are relative to the repository. `OPS` stands for
`src/helxapp_operations/helxapp_operations.go`.

## 1. Inventory

| Component | State | Operations | Talks to |
|---|---|---|---|
| **Object graph** (`OPS:38-264`) | `appTable`, `userTable` (object, set of instance names), `instanceTable` | `AddApp`, `AddUser`, `AddInst`, `DeleteApp`, `DeleteUser`, `DeleteInst`, `GetApp`, `GetUser` | called by the three reconcilers, without a lock |
| **Reconcilers** (`src/controllers/*.go`) | none of their own; `status.observedGeneration` and `status.uuid` of the objects | `Reconcile`: deleted / observed already / changed; the deferred status update | API server through a cached client; object graph; the pipeline and the application of its result |
| **Artifact pipeline** (`OPS:266-617`) | local to a call | `processVolume`, `transformVolumes`, `transformPorts`, `transformApp`, `renderObject`, `GenerateArtifacts` | object graph (reads), user handle, templates |
| **Workload application** (`OPS:619-892`) | the cluster's Deployments, claims, Services | `CreateOrUpdateResource`, `CreateDerivatives`, `DeleteDerivatives` | API server (writes), cached client (reads), garbage collector |
| **Template engine and templates** (`src/template_io`, `src/templates`) | parsed templates | `RenderGoTemplate`, `ReRender`, `ExtractSC*` | pipeline |
| **User handle client** (`src/connect`) | none | `FetchData` | an HTTP service such as the LDAP plug-in |
| **Manager** (`src/main.go`) | caches, work queues, one worker per controller | start, leader election, probes | everything |
| **LDAP plug-in** (`src/plugin/ldap`) | configuration, mutex | search, readiness | LDAP server |
| **cGPTx**, charts, scripts | | a generated draft of the controller; configuration | |

How they interact. An edit of a HelX object reaches the controller through an
informer: the cache entry changes, the key is queued, the worker of that kind takes
it and reconciles. The reconcile changes the graph once and receives copies of
instances. It then renders and applies each copy's artifacts, reading the graph
again for the copy's app and user, and at the end writes the generation it read
(and a new instance's uuid) into the object's status, which is itself an edit. The
three workers run concurrently, so between any two of these steps the graph, the
caches and the cluster may change.

What is hard, and what correctness is:

- *Object graph.* App, user and instance arrive in any order on three workers that
  hold old copies. Correct: associations are complete, a complete triple is always
  generated from its current contents or is in some worker's hands, deleting an app
  reaches all of its instances.
- *Reconcilers.* Caches lag, status updates conflict, names are reused, failed
  reconciles are retried, the process restarts and forgets the graph. Correct: what
  the status calls observed is in the graph; a uuid, once recorded, never changes;
  the graph catches up; and reconciling stops.
- *Workload application.* Existence is decided from a cache, changes are sent as a
  difference to a cached object, two workers write one object, instances share claims,
  and ownership is given once. Correct: a complete triple gets its Deployment, which
  shows the app as it is; nothing else takes it away; and a claim goes or stays as its
  label says.
- *Artifact pipeline.* Maps are iterated in random order, single services and
  volumes fail, values refer to other values. Correct: every mount has its volume and
  every claim is provided, the order shows in the order of the mounts and nowhere else, and
  rendering ends with every reference resolved.
- *User handle.* A worker waits for the plug-in, which waits for LDAP, while probes load
  its configuration. Correct: the configuration does not change under a search, a load that
  fails leaves no field unset, a file that stays is used in the end, and a fetch returns.

`PROJECT.json` lists the hazards of the code, line by line, with the properties that
watch them.

## 2. Modules

```
Rendezvous <--implements-- ObjectGraph <--extends-- Reconcilers <--extends-- Workloads
    |                          |                      |                       |
RendezvousProofs         MCObjectGraph           MCReconcilers           MCWorkloads
                                               ReconcilersProofs <--extends-- WorkloadsProofs

GraphRace      Derivatives      Pipeline      Render      UserHandle <--extends-- UserHandleProofs
    |               |               |            |             |
MCGraphRace    MCDerivatives    MCPipeline    MCRender    MCUserHandle
GraphRaceProofs DerivativesProofs  PipelineProofs  RenderProofs
```

The upper row is one system in three layers; `ReconcilersProofs` has the proofs about the first
two. The modules of the lower row look at one part
of the code more closely than the layers can, and leave the rest to chance: `GraphRace` at
the statements inside the operations of `ObjectGraph`, `Derivatives` at all objects that
`Workloads` has the Deployments of, `Pipeline` and `Render` at what `Generate` computes, and
`UserHandle` at the request that a rendering may contain.

**Rendezvous** is what the graph promises, without tables of associations, workers or copies:
apps, users and instances are seen in any order; whoever names what has changed is *owed* a
generation; a debt ends with a generation from what is known at that moment, or with the
instance being *passed over*. `ObjectGraph` implements it: `owed` are the instances whose
current copy is in some worker's hands.

**ObjectGraph.** `appTable` and `userTable` map keys to `[obj, instSet]`, an absent
entry being the empty one; `instanceTable` maps keys to instances. `job[c]` is the
list of copies worker `c` still has to handle. One action is one operation of the
graph: `AddApp`/`AddUser`/`AddInst` (a changed object, copies handed out),
`Resync...` (the same call on an object already observed, its result ignored),
`Delete...`, and for a copy `GenerateArtifacts`, `DeleteDerivatives` or `Abandon`
(the error that ends the loop). `Disconnect` removes, as the code does, the
reference under the key of the reference *as written*. `generated` and `dropped` are
history: what a workload was last generated from, and the instances passed over. The
code iterates over sets in arbitrary order, so a worker may take its copies in any
order.

**Reconcilers** adds the API server (`api`), the informer caches (`cache`), the work
queues and the workers. The graph operation is one step with taking the key off the
queue; each rendering (`Generate`, `GenerateFails`), each application (`Applied`,
`NotApplied`) and the end with the deferred status update (`Finish`) are further steps, and
all else may happen in between. `HasArtifact` is the guard of `GenerateArtifacts`: without app
or user, or if no service of the app becomes a container (the contents in the constant
`Bare`), nothing is applied and no error reported. The contents in `Fragile` are those that a
template may fail on, which ends the loop like a failed write. An object is its `uid`, `generation`, `observedGeneration`, `uuid`
and content; the record as a whole stands for the resourceVersion, so a status update
conflicts exactly if the object changed. No two writes that matter here give the same
record.

**Workloads** says what an application does: `CreateDeployment`, `PatchDeployment`
(the patch holds the fields in which the *cached* Deployment differs from the target,
and removes the cached owner reference, which the target has not), `FailDeployment`
(already exists, not found, invalid label, foreign owner, or a fault; a patch that fails
because the cached *status* has a field the object has lost counts as a fault),
`DeleteDeployments` (a foreground deletion: the Deployment is `terminating` until
`Terminate`), the Deployments' informer and the garbage collector. An owner reference is the
instance's key and uid. `wasted` is history:
the Deployments whose last write was refused or met one that was being deleted, or that the
cascade of an app or user took which their instance no longer names (`Strays`).

**Derivatives** has Deployments, claims and Services of several instances of one app, and
every write to the API server as a step. A worker renders an instance's artifacts (`Generate`,
`GenerateFails`, with `Bare` and `Fragile` as in `Reconcilers`), applies them one by one in the order of `CreateDerivatives` (`Rank`, `Applied`: an error
after the Deployment's is overwritten by the next result), or goes through the kinds of
`DeleteDerivatives`, each with a list from the cache and then deletions by name. Claims are
named by the app and shared; patches of claims drop their remove operations. The work queues,
uuids and status updates of `Reconcilers` are left out: an instance stands for its uid and
uuid. `born`, `kept` and `outdated` are history.

**GraphRace** takes `addObjToMap`, `addInstToMap`, `connectObj` and the lookups of
`GenerateArtifacts` statement by statement, with an entry as what it is in Go: a struct that
is copied out of the map, with a pointer to the set of instances. A range over a set that
grows sees any of what is added. Accesses of one Go map by two workers, one of them a write,
may end the process (`Fatal`) or take effect in either order; torn reads, which Go's memory
model would also allow for a race, are left out. `overrun` is history: an entry written by a
worker that had found none, over one made meanwhile. Deletions are left out: they remove
nothing that another operation adds (section 6).

**Pipeline** is `GenerateArtifacts` for one complete triple: one volume string at a
time in any order, service by service, then the security context, the claims in any
order and the Services. `mounts` is a list, in the order in which the volumes were parsed, and a
container's template writes it in that order. Without a container there is `nothing`; a
rendering may fail at any of its points (`RenderFails`; what makes one fail is `Render`'s), and
of a claim with a storage class it always does. Strings are abstracted to what the code splits
them into.

**Render** is `renderObject`: what the named template yields is rendered again as a
template until a pass changes nothing. The named template may fail on the data
(`RenderGoTemplateFails`), and then there is no text and no pass. A text is a sequence of tokens: a piece of text, a
reference to a field whose value a user gave, or an action that cannot be rendered. Values in
which one piece completes an action begun in another are left out.

**UserHandle** is the controller's `FetchData` against the LDAP plug-in: `Lock`, the three
uses of the configuration by a search (`Ask`), `Answer`, `Fail` and `Hang` (of a bind or a search;
the library ends a dial after a time); `Probe`, which
reads the file *before* it locks, `Decode`, one field at a time as `json.Unmarshal` does, and
`Loaded`; `Start` and `Stop` of the process. `Port` goes with `Host`, `Password` with
`BindDN`. `seen`, `used` and `started` are history.

## 3. Runs

Passing runs:

| Run | Instance | Shows |
|---|---|---|
| `MCObjectGraph` | two namespaces; one app, one user, two instances, bare and qualified references; two contents | `TypeOK`, `Connected`, `NoLostTriple`, `CascadeReachesAll`, `ImplementsRendezvous` |
| `MCReconcilers` | one app with two contents and one instance with two specs, created, updated and deleted in up to 4 edits; one status update that fails, one restart; no user, so nothing is rendered | `ReconcilersTypeOK`, `ObservedIsKnown`, `NoRequestLost`, `UUIDNeverReplaced`, `EditsAreNotSkipped` |
| `MCReconcilersLive` | app and user from the start, an instance created and deleted, one restart; renderings that fail or succeed | `GraphCatchesUp`, `Quiesces` |
| `MCWorkloads` | two instances observed before their app and user came, which happened while the controller was down (`ArrivedInit`), and one fault, in any call; or app and user from the start and one instance created (`ComingInit`) | `EventuallyDeployed`, `WorkloadsTypeOK` |
| `MCWorkloadsKept` | two apps, a user and two instances, each of which may name either app: apps and user observed, the instances observed and deployed or not there (`StartedInit`, what a restart finds); apps and instances changed, deleted and created again, an instance moved, an app that loses its containers, templates that fail on any content, 2 edits, one restart | `LiveWorkloadKept`, `UndeployedWasGivenUp` |
| `MCPipeline` | two services, each with any of two volumes out of six strings, any security context and handle | `TypeOK`, `MountsAreBacked`, `ClaimsAreProvided`, `ArtifactsAreDetermined` |
| `MCDerivatives` | two instances that share a claim; the app is changed or deleted once, which may add the retain label, another image and a Service, or leave it without a container; a template may fail on one of the contents; one instance is deleted | `TypeOK`, `AppShows`, `PlainClaimsGo`, `RetainStays`, `RetainedClaimKept` |
| `MCGraphRace` | app, user and two instances, all new; the app or the user is updated, once | `TypeOK`, `GeneratedUnlessOverrun`, `NeverAnOldObject`, `AssociatedUnlessOverrun` |
| `MCUserHandle` | two workers, two probes; four files (whole, lacking a field, with a wrong type, not JSON), one change, one stop | `TypeOK`, `OneConfigPerSearch`, `ServesConfigured`, `ReadyMeansLoaded`, `FetchReturns`, `ConfigFollowsFile` |
| `MCRender` | three fields, each with any value of up to two tokens; four texts that the named template may yield, or its failure | `TypeOK`, `RenderedInFull`, `FailsIfBadReached`, `PassesDescend`, `RenderingEnds` |

Runs that TLC must find violated, each a statement of a document that the code does not keep:

| Run | Statement | What the code does |
|---|---|---|
| `MCWorkloadsOrphan` | `README.md:171`: the garbage collector removes the Deployment of a deleted instance | a patch has removed the owner reference |
| `MCDerivativesRetain` | `README.md:175`: objects with the retain label survive deletion | a claim that gets the label by a patch, because its app asks for it later (`PlainSpec`), keeps the owner reference of its creation |

Bounds. `MaxEdits`, `MaxUUIDs`, `MaxFaults`, `MaxRestarts`, `MaxDeletions`, `MaxVersions`,
`MaxChanges`, `MaxStops` and `MaxLength` bound what users do, the uuids minted, spontaneous
failures, restarts, changes of the plug-in's file and the length of a text; they appear in
guards only. Two edits are what a deletion with a re-creation needs, or an update of each of
two objects; four in `MCReconcilers` let such edits of app and instance overlap. One restart is enough
because a restart keeps nothing but the API objects, which are in any of their states when it
comes. Where `MaxUUIDs` is the smaller bound, a reconcile that needs another uuid is not
taken: this cuts behaviours only in which a status update has already been lost that often.
In a fair run a reconcile that cannot get its uuid would look like a stuck queue; `Quiesces`
and `EventuallyDeployed` hold there, so none is stuck. The keys of one object of a kind are
enough for what goes through one key; two instances, in `MCObjectGraph`, `MCGraphRace` and the
runs of `Workloads`, are needed for the loops, in which the error of one passes the other over,
and for one operation that touches another's association, and in `MCDerivatives` for the claim
that one creates and the other patches. `EventuallyDeployed` is checked without a restart in the
middle of a behaviour: `ArrivedInit` is the state that a restart leaves, and `NothingUndeployed`
has its safety half for any number of restarts, faults and instances. Two probes are what it
takes for one load to overtake another. In `MCGraphRace` only one of app and user is updated
(`OneUpdateSpec`), which is what brings a new version and an old copy together; the theorems of
`GraphRaceProofs` have no such bound. `MaxLength` of `MCRender` is more than twice what three
fields of two tokens can become without a circle, so that it cuts off circular renderings only; the theorems
of `RenderProofs` hold for every bound.
`MCObjectGraph` has no instance of its app's own name: there the proofs alone speak (section 5).

Deadlock is not checked: when users, faults and restarts are used up and the queues are
empty the system rests, a rendering ends, and a search that LDAP leaves without an answer
blocks the plug-in for good, which is what the code does.

Fairness is used by the liveness properties only. `WF(Work(c))`: a worker finishes its
reconcile (a handle that never answers would break this, which is `FetchReturns`' exception).
`SF(Reconcile(c, key))`: the work queue is first in first out, so a queued key gets its turn
among the others, though the worker is busy again and again in between. `WF(Sync(...))`,
`WF(SyncDeployment)`, `WF(CollectGarbage)` and `WF(Terminate)`: watches deliver, the garbage
collector runs. In `UserHandle`, `WF(Start)`, `WF(Probe(p))`: the kubelet restarts and probes the
plug-in; `WF(Serve(w) \/ Fail(w))`, `WF(Load(p))`: goroutines run, and LDAP answers or fails --
unless it leaves a bind or a search without an answer, which `Hang` may do at any time; `SF(Lock(c))`: `sync.Mutex` hands itself
to the longest waiter before that starves. `Render` has weak fairness of its only process.
Users, faults and restarts are not fair.

## 4. Properties

- `Connected`: the app and the user an instance names record it, however the names are
  spelled. Not so for an instance with the name of its own app: the wrong clean-up of
  *another* instance removes it.
- `NoLostTriple`: a complete triple is generated from current contents, or some worker holds
  its current copy, or it was passed over by an error or a resync.
- `CascadeReachesAll`: deleting an app hands out every instance that names it.
- `ObservedIsKnown`, `EditsAreNotSkipped`: "observed" in a status means known to the graph,
  with that very content, or on the way.
- `NoRequestLost`: the graph has what a cache shows of an object, and no instance that the cache has not,
  unless its request is queued. When queues are empty and caches up to date, that is what
  `GraphCatchesUp` says of the end, but for a uuid whose status update failed.
- `UUIDNeverReplaced`: a recorded uuid stays for the life of the object.
- `GraphCatchesUp`, `Quiesces`: at the end graph and API server agree, and nothing goes on.
- `EventuallyDeployed`: a triple that stays complete gets its Deployment under the graph's uuid, and keeps
  it, or its app has no container, or it was given up: its last write was `wasted`, or it was
  passed over (`dropped`).
- `UndeployedWasGivenUp`: when everything rests, a complete triple without a Deployment under
  the graph's uuid has an app without a container, or had its last write refused or wasted on a Deployment
  that was being deleted, or lost it to the cascade of an app or user it no longer names, or was passed over: by
  a template that failed on it, by the error of another instance in the same loop, or by a resync. All of
  these the code does: they are the defects of the retry, of the loop that ends at its first error and of the sets
  that keep what moved away, and the silence about an app without a container. What the property shows is
  that nothing else loses a Deployment, but of an instance with the name of its own app or user (see `Connected`).
- `LiveWorkloadKept`: the Deployment of an existing instance disappears by a cascade only.
- `MountsAreBacked`, `ClaimsAreProvided`: a pod mounts nothing that is not there.
- `ArtifactsAreDetermined`: unless a service is half parsed or two volumes share a claim with
  different options, the order of map iteration changes nothing in the artifacts but the order in which a
  container lists its mounts, each of its service's volumes once. That order does change, from one
  reconcile to the next, when a service has two volumes (section 6).

- `ImplementsRendezvous`: the graph, with its tables and old copies, does what `Rendezvous` says.
- `GeneratedUnlessOverrun`, `AssociatedUnlessOverrun`, `NeverAnOldObject`: without a lock, the
  one thing lost is an entry that a worker which had found none writes over one made meanwhile.
- `AppShows`: at rest the Deployment shows an app that has a container as it is on the API server, unless its
  last write failed, came too late or worked on an old copy, or an error, of a write or of a template, passed
  the instance over. The Deployment of an app that has lost its containers stays as it was.
- `RetainStays`, `RetainedClaimKept`: the label stays once set; a claim created with it is deleted
  only by a cascade that listed its predecessor of the same name. `PlainClaimsGo`: a claim without
  it goes with the instance that created it, for its patches, unlike those of Deployments and
  Services, leave the owner reference alone.
- `RenderedInFull`, `RenderingEnds`, `FailsIfBadReached`: rendering pass by pass from the outside in
  ends, where no reference is circular, with what replacing from the inside out yields, and, once the
  named template has yielded a text, fails exactly if what that text reaches cannot be rendered. `PassesDescend` is the rank by which it ends: each
  field left after a pass has less below it than one that was there before.
- `OneConfigPerSearch`: a search uses one value of the configuration, that was in place while it was
  served. This value need not be one file's: a load of a file that lacks a field, or has one mistyped, leaves
  the other file's field beside its own.
- `ServesConfigured`, `ReadyMeansLoaded`, `ConfigFollowsFile`, `FetchReturns`: no field is lost to a bad load,
  "ready" means that the file read is loaded, a file that stays is used in the end, and a fetch returns unless
  a bind or a search got no answer.

Each has a mutant in `PROJECT.json`: a plausible bug in the code under which it fails. The
mutated operators stand beside the originals, marked as mutants.

## 5. Proofs

The first part of `ReconcilersProofs` proves, with TLAPS, about `ObjectGraph`, for every choice of names, objects, references,
specs and contents:

| Theorem | Statement |
|---|---|
| `TypeCorrect` | `Spec => []TypeOK` |
| `AssociationsComplete` | `Spec => []Connected` |
| `TripleRendezvous` | `Spec => []NoLostTriple` |
| `Cascade` | `Spec => CascadeReachesAll` |

Assumptions: `KeysAssumption` (keys are namespaced names, and the half of a bare reference
is no namespace), `SpecsAssumption` (references are spelled "ns/name" or "name") and
`NilAssumption` (nil is no content and no instance). TLC evaluates them on every run.

The argument. `NoLostTriple` alone is not inductive. `AddApp` hands out what the app's
`instSet` holds; that this is every instance naming the app is `Connected`, and that a set of
names can be turned back into instances is `TypeOK` (`instanceTable[i].key = i`). So
`IInv == TypeOK /\ Connected /\ NoLostTriple` is the inductive invariant. Per action: an
operation that changes contents makes the obligation anew and hands out all that have it
(`AddApp...`, `AddUser...`), or records them as dropped (`Resync...`); a worker's step
discharges the obligation of its own copy if that copy is current, and leaves the others in
its list (`DonePending`); `Abandon` moves what is left to `dropped`. `Connected` rests on
`DisconnectType`: the misdirected clean-up can only remove the instance that bears the key
it is removed from. `Cascade` follows from `Connected` and `TypeOK`.

It also proves, under the same assumptions and `NamingAssumption` (nil is
no instance in the abstract state either), that the graph implements `Rendezvous`, and `RendezvousProofs` what
that is worth:

| Theorem | Statement |
|---|---|
| `Implementation` | `Spec => ImplementsRendezvous`, that is, `Spec => R!Spec` |
| `PromiseKept` | `Spec => []Promise` of `Rendezvous` |

The argument of the first: each operation is one abstract step (`AddAppMaps`, ..., `AbandonMaps`) or
changes nothing that `Rendezvous` sees (`Invisible`: deletions, copies that are no longer current, a
resync that finds nothing changed). The invariant is `IInv`, since a sighting must owe all that name
the object (`Connected`), with `SeenAreNamed`, that objects are seen only under keys in `Apps` and
`Users`, which makes a complete triple of the graph complete in `Rendezvous`. What a worker is owed
by others must neither grow nor shrink by the work given to one of them or done by it: that is
`HandOutPending`, `HandOutOwesNoMore`, `DonePending` and `DoneOwesNoMore`. `Promise` is inductive
but for the types.

The second part of `ReconcilersProofs` proves about `Reconcilers`, for every set of objects that exist at the start, every kind that users
change or delete, and any number of edits, uuids, faults and restarts:

| Theorem | Statement |
|---|---|
| `ReconcilersTypeCorrect` | `ReconcilersSpec => []ReconcilersTypeOK` |
| `GraphImplemented` | `ReconcilersSpec => Spec` of `ObjectGraph` |
| `NoTripleLost` | `ReconcilersSpec => []NoLostTriple` |
| `ObservedKnown` | `ReconcilersSpec => []ObservedIsKnown` |
| `EditsNotSkipped` | `ReconcilersSpec => EditsAreNotSkipped` |
| `UUIDKept` | `ReconcilersSpec => UUIDNeverReplaced` |
| `RequestsServed` | `ReconcilersSpec => []NoRequestLost` |

Assumptions: those of `ObjectGraph`, `BoundsAssumption`, `IdsAssumption` (an identity is a uid and a
uuid within the bounds) and `NilNoneAssumption` (nil is no number, key or object). The invariant
`RecInv` says what a status update relies on. `ReadOK`: the object it will write is the one read, but
for a uuid that the read one lacked, *and the graph holds it*: since only the worker of a kind
changes that kind's part of the graph, and has one reconcile at a time (`ReconcileFrame`), that stays
true through the whole reconcile, whatever the others do. `Sound`: no generation above the object's
own is observed, and an instance of which one was observed has its uuid, without which
the resync of an instance would store one that has none. From there `StatusWrites` (an update
that is not refused writes what the graph holds over the object that was read) gives
`EditsNotSkipped` and `UUIDKept`, and with `ResyncStores` `ObservedKnown`. `ReconcileForms` shows
that the arguments of every operation have the types that `ObjectGraph` gives them, hence
`GraphImplemented`, and with it everything proved of the graph, `NoTripleLost` first.

Its last part is about the caches (`CacheInv`; the proofs about `Workloads` need it). `Dated`: no uid is one
that the API server is yet to give. `NoRequestLost` is inductive as it stands, given `RecInv`: a reconcile stores
what the cache shows (`ReconcileStores`), and only that of its own key changes an entry of the graph
(`GraphSteps`). `NewToCache`: an object that the cache has not seen was not observed, and no status is about to be written
to it. `CascadesUnsettled`: the app or user of a cascade, if it is there or comes back, will be taken for changed.
`CacheInductive` says that all four together stay true.

`WorkloadsProofs` proves, for the same choices:

| Theorem | Statement |
|---|---|
| `ReconcilersImplemented` | `WorkloadsSpec => ReconcilersSpec` |
| `WorkloadsTypeCorrect` | `WorkloadsSpec => []WorkloadsTypeOK` |
| `WorkloadKept` | `WorkloadsSpec => LiveWorkloadKept` |
| `NothingUndeployed` | `WorkloadsSpec => []UndeployedWasGivenUp` |

Assumptions: those of `Reconcilers`, above all `NilArtifactAssumption` (nil is no artifact, by which a worker with
something to apply is told from one without), and `NilDeploymentAssumption` (nil is no Deployment). The first
theorem carries everything proved of the reconcilers and of the graph over to `Workloads`. The
argument of `WorkloadKept`: the garbage collector takes a Deployment whose owner is gone, and a Deployment
is named after a uuid, so that what must be shown is that a uuid never stands for two objects. An
*identity* is an instance's key with its uid and uuid; it occurs in the API object and in the cached one, in the graph, in the
copies in workers' hands, in the artifact being applied, in the status to be written and, as owner and
name, in a Deployment (`InUse`). `Identified` says that those in use have minted uuids and
that two with one uuid are one; it is inductive because a step adds at most one identity, with a new uuid
(`CirculatesStep`), and all else copies (`BearsStep`). What may happen to one Deployment in one step is
`DeploymentSteps`: it appears, is patched, is deleted in a cascade, or ends. A patch never ends one that
is not terminating (`PatchedEnds`), the garbage collector finds the owner (`OwnedByItsInst`), which leaves
the cascade; and cascades belong to apps and users (`InstCreates`).

`NothingUndeployed` speaks of the system at rest; `NoneLost` says it of every moment. A triple that the
graph holds complete, with an app that has a container (`HasArtifact`), is `Wanted` (unless the instance has its
app's or user's own name), and each that is wanted is
*accounted* for: a Deployment of its uuid runs (`Stands`), or its last write was wasted (`Spoilt`), or no instance
on the API server is the one that the graph has (`Gone`), or a generation is owed (`Pending`), or a worker holds
the artifact (`Applying`), or the app or user of a cascade will be taken for changed (`Renewed`), or the
instance was passed over. Each of these has a lemma that says where it can go in one step:
`StandsSteps`, `SpoiltSteps`, `GoneStays`, `ApplyingSteps`, `RenewedSteps`, and `GraphSettles` for the
operations of the graph, which make triples wanted in the first place. Since an identity
carries its instance's key, what one instance does to the Deployment of its uuid is never done to another's.
At rest nobody applies, renews or owes anything, and the graph's app is the one of the API server, so that
what is not wanted has an app without a container (`RestedTriple`); what remains is the property.

`DerivativesProofs` proves, for every set of instances, names of claims, contents of the app, and
any number of edits and deletions:

| Theorem | Statement |
|---|---|
| `TypeCorrect` | `Spec => []TypeOK` |
| `RetainLabelStays` | `Spec => RetainStays` |
| `RetainedClaimStays` | `Spec => RetainedClaimKept` |
| `PlainClaimsCollected` | `Spec => []PlainClaimsGo` |
| `DeploymentsShowTheApp` | `Spec => []AppShows` |

Assumptions: `ContentsAssumption`, `ServicesAssumption` (the contents without a container and those that a
template may fail on are contents), `LimitsAssumption`, `ApartAssumption` (nil and the app's own key are no
instance's name; nil is no image, container or content) and `NilObjectAssumption` (nil is no object). The
argument for claims is `ObjectsOK`: an object, in the cluster *or as a cache holds it*, has an owner or its
retain label, what was created with the label has no owner (`CopyOK`), and what a worker has listed for
deletion was not created with the label, unless it is an older incarnation of the name (`Incarnations`; `born` tells
incarnations apart). `AppShows` speaks of the rest only; `ShownOrOwed` says it of every moment: a
Deployment shows the app, or the app or the instance waits to be reconciled, or some worker has the
instance or its Deployment still to do, or `outdated` says that its last write fell short or that it was
passed over (`GenerateFailsShown`), or the app has no container. A cascade would
break this, if it could come upon an app that stays: `Flow` says that it runs only while the app is gone or about
to be handed out again, and that only the app's worker deletes.

`GraphRaceProofs` proves, for every set of instances and number of versions, over every interleaving
of the statements:

| Theorem | Statement |
|---|---|
| `TypeCorrect` | `Spec => []TypeOK` |
| `AssociationsKept` | `Spec => []AssociatedUnlessOverrun` |
| `NoOldObject` | `Spec => []NeverAnOldObject` |
| `NothingElseLost` | `Spec => []GeneratedUnlessOverrun` |

Assumptions: `VersionsAssumption` (there is a version) and `NilApartAssumption` (nil is no number,
instance or entry). The argument: `Place` says what a worker at each statement holds, above all that
the pointer of an entry it has copied points to a set that exists. `FoundThere` is why lock-free reading and writing
back is harmless once an entry is there: as long as no entry was overrun, the one a worker found earlier still has the set
behind the entry in the table, and one that found none finds none still when it writes, or else `overrun` says so. So
an instance put into the store is in the set, or its worker is about to put it there (`Associated`).
`Promised` then follows the instance: it is generated from the current versions, or a new version is still
unstored, or some worker *owes* it a generation: it holds a copy and has read nothing old, is about to connect
it, or is about to range over a set that holds it.

`UserHandleProofs` proves, for every number of workers and probes, every set of files and any
number of changes and stops:

| Theorem | Statement |
|---|---|
| `TypeCorrect` | `Spec => []TypeOK` |
| `OneConfig` | `Spec => []OneConfigPerSearch` |
| `Configured` | `Spec => []ServesConfigured` |
| `Ready` | `Spec => ReadyMeansLoaded` |

Assumptions: `ClientsAssumption` (workers and probes are different clients), `FilesAssumption`
(what a file may say, and that the special values are none of its values) and `BoundsAssumption`.
The argument: `MutexHeld` (who searches or decodes holds the mutex) makes everything else
inductive. `Snapshot` says that what a search has used so far is still in the configuration, which
is one that the search has seen unless somebody is decoding; `DecodedSoFar` that what a load has
decoded so far is still there. A `Lock` finds nobody decoding; a `Decode` disturbs no search because
the decoder is alone (`DecoderIsAlone`); `Loaded` shows the new configuration to all who wait. `States`
says that a stopped plug-in has no goroutines, for `Start`.

`PipelineProofs` proves, for every app, with any number of services and volumes, and every order in
which Go ranges over its maps:

| Theorem | Statement |
|---|---|
| `TypeCorrect` | `Spec => []TypeOK` |
| `AllMountsAreBacked` | `Spec => []MountsAreBacked` |
| `AllClaimsAreProvided` | `Spec => []ClaimsAreProvided` |
| `OrderShowsInMountsOnly` | `Spec => []ArtifactsAreDetermined` |

Assumption: `AppsAssumption` (an app is a sequence of services). `Progress` says where the iteration stands:
the services left are the end of the app's list, and the mounts of the one at hand, with its volumes still to
parse, are its volumes, each mounted once (`Mounting`; `MountsForm` and `OneMoreMounted` say what one more
entry does to a list). `Backed` and `Provided` say of every moment what the first two properties say of the end.
The last is `Determined`: `Follows` compares what the first services have become with the reference
(the i-th service that parses is the container at its `Position`, and the source map has its volumes, each from
the first service that declares it), and `RenderedSoFar` the claims rendered with what each of their volumes
asks for. Both need the hypothesis of the property, `OrderFree`: a service that is skipped after some of
its volumes have parsed leaves them in the source map, as many as the order of iteration has it, and of
two volumes with one claim the one rendered last counts.

`RenderProofs` proves, for any fields with any values, circular or not, every template and every bound
on the length:

| Theorem | Statement |
|---|---|
| `TypeCorrect` | `Spec => []TypeOK` |
| `FailsExactlyIfBad` | `Spec => []FailsIfBadReached` |
| `AllReferencesReplaced` | `Spec => []RenderedInFull` |
| `EveryPassDescends` | `Spec => PassesDescend` |

Assumptions: `TokensAssumption` (fields, pieces of text and the bad action are different tokens, and there
are finitely many fields), `TextsAssumption` (values and templates are texts) and `LengthAssumption` (the
bound is a natural number that no template exceeds).

The argument. `Replace(text, by)` is a fold over a text, and a pass is `Replace(text, value)`. That it
yields a text (`ReplaceType`), whose tokens are those of what replaces the old ones (`ReplaceTokens`), that
it distributes over concatenation (`ReplaceConcat`), and that replacing twice is replacing once by values in
which the second has been done (`ReplaceTwice`), are inductions over the text. The theorems of the library
that state induction for a predicate cannot be used here, so `Induction` and `SequenceInduction` state it for
*sets*; they rest on `LeastElement`, which follows from the library's `FS_StrictSubsetOrderingWellFounded`:
of the intervals `0..n`, for `n` in a set of naturals, one has no other inside it. That the recursive
functions (in `FlattenSeq` and `ValueInFull`) exist is shown the same way (`SumsExist`, `LevelsExist`).

`FailsExactlyIfBad` speaks of the passes over the text that the named template has yielded; that there is none,
because that template fails, is an outcome of its own (`"rejected"`). For `FailsIfBadReached` the invariant is `Passes`: a pass yields nothing but tokens of the values that the
first text reaches (`ExpandStays`), and what cannot be rendered stays ahead of the text until it is in it
(`ExpandKeepsBad`); a text that a pass leaves as it is reaches no more fields than it has
(`UnchangedHasNoBad`). For `RenderedInFull` it is `SameInFull`: the text rendered last and the first one
are the same in full. That needs `FullIsFull`, that the values in full satisfy their own equation, although
they are cut off at the depth `Cardinality(Fields)`. It holds without circles only: each reference leads to
a field with less below it (`HeightDecreases`), so that a field with `n` fields below it no longer changes
after `n` levels (`DeepEnough`). At the end no reference is left (`UnchangedHasNoFields`): of those left, the
one with the most below it would be in the value of another. With `PassesDescend`, the greatest height in the
text falls with every pass that changes something, so that the loop ends; only the last step, that a fair
process takes such passes until none is left, is TLC's (`RenderingEnds`).

Only model-checked: the liveness properties (`GraphCatchesUp`, `Quiesces`, `EventuallyDeployed`,
`FetchReturns`, `ConfigFollowsFile`, `RenderingEnds`), since proofs of liveness under fairness, and
`ENABLED`, are outside the provers' reach; and the two statements of the documents that runs refute.

## 6. What else differs from the documents

Seen while modelling and described by the modules, but without a run of its own:

- `transformVolumes` appends a service's mounts while it ranges over a map (`OPS:430`), and the template
  writes them in that order: with two volumes the Deployment differs from one reconcile to the next and is
  patched, though nothing has changed.
- An app none of whose services parses gives neither artifacts nor an error (`OPS:541`): an instance has no
  Deployment, or keeps one that shows the app of before, and the generation counts as observed
  (`README.md:161` says "1, Always").
- A template that fails ends the loop over the instances like any other error (`OPS:584`,
  `helxapp_controller.go:96`).
- A configuration file that lacks a field, or has one mistyped, is loaded over the one before
  (`plugin/ldap/main.go:51`): the plug-in then dials the host of one file and binds with what another says.
- A deleted instance stays in the sets of its app and user: `DeleteInst` looks the app up by the
  reference as written and deletes the *app's* name from the set (`OPS:236`); the test at
  `helxapp_operations_test.go:1209` speaks of cleaned-up associations.
- The uuid reaches the status only by the deferred update; if an edit made meanwhile conflicts with
  it, the next reconcile mints another uuid and creates a second Deployment beside the first
  (`helxinstance_controller.go:85`; `README.md:161` says "1, Always").
- The deferred update records the generation as observed although `CreateDerivatives` failed, and the
  retry is taken for a resync (`helxinstance_controller.go:83`, whose comment says "after processing").
- A claim with the option `storageClass` makes the whole generation fail: `pvc.tmpl:31` reads a field
  that does not exist (`README.md:215` lists the option).
- Rendering is not "double-pass" (`README.md:152`, `docs/execution-model.md:183`) but repeated until
  nothing changes (`OPS:512`): a circular reference keeps the worker for ever.
- A claim that two instances share is deleted with the one that created it, and gone when no pod mounts
  it any more, though the other still names it (`OPS:660`); nothing creates it again until the app or
  that instance changes.
- The Services of all containers have one name, the instance's (`service.tmpl:9`): with several, the
  last one applied stays (`README.md:163` says one per service).
- What an app no longer asks for, a claim or a Service, is never deleted (`OPS:839`).
- Patches remove the owner references of Services as they do those of Deployments (`OPS:834`).
- While one search waits for LDAP, the plug-in's readiness probes wait too, so that it becomes
  unready for all users (`plugin/ldap/main.go:60`), and a worker that waits for it holds up every
  object of its kind (`connect.go:13`).
- The example URL `http://ldap-service/user/jeffw` (`README.md:113`) is none the plug-in serves: its
  route is `/users/{username}` (`plugin/ldap/main.go:161`).
- "When any resource arrives ... deferred workload creation" (`docs/execution-model.md:84`) fails for an
  instance that is connected while its new app is stored (`GraphRace`, `overrun`).
- An instance with its app's own name loses its association when another instance of that app,
  spelled "ns/name", is deleted (`OPS:237`); `Connected` names this as its exception.
- An instance that moves to another app stays in the old one's set, and deleting the old
  app deletes its workload (`OPS:176`; `README.md:172` speaks of connected instances).
- A deleted app or user keeps its object in the table (`OPS:215`) and completes triples of
  instances created later; `README.md:28` asks for a complete triple.
- An update of an app whose application fails once is recorded as observed and never reaches
  the Deployment (`helxapp_controller.go:95`; `README.md:377`).
- One instance's error ends the loop for the other instances that wait for the app
  (`helxapp_controller.go:96`; `README.md:143`).
- After a restart, an app created meanwhile and reconciled before its instances are in the graph
  finds none, and their resync generates nothing (`helxinstance_controller.go:75`).
- An app deleted and created again patches the Deployment that the stale cache still shows
  (`OPS:649`).
- A reference "ns/name" becomes a label value, which may hold no "/" (`deployment.tmpl:8`;
  `README.md:91` allows it).
- `init: true` makes no init container (`OPS:478`; `README.md:62`).
- "nfs://server/path:..." of `processVolume`'s own comment (`OPS:298`) is rejected: the source
  needs three parts (`OPS:342`).
- With two volumes of one claim, whether it is retained depends on the order of map iteration
  (`OPS:594`; `README.md:210`).
- A Service lists unpublished ports as port 0 (`service.tmpl:15`; `README.md:63`).

## 7. Not modelled

- Torn reads of Go maps, beyond the process being ended or the statements taking effect in some
  order; deletions from the graph, statement by statement.
- What makes a service or a template fail, below the level of volume strings and single actions: `Bare` and
  `Fragile` of `Reconcilers` and `Derivatives` are any sets of contents.
- A stop of the controller while a plug-in's answer is under way (`UserHandle` stops the plug-in
  only): a restart of the controller is in `Reconcilers`.
- Template texts in which one value completes an action begun in another, and actions other than
  references to fields: `Render` has what renders, and what does not.
- Environment, images, commands, resources and layout: payload of the templates.
- `ParseTemplates` (reads files once, at the start), the template functions `store` and `get` and the
  `InMemoryLoader` of `template_io`, and `GetDBConnectionString` (`main.go`): no template and no caller
  uses them.
- Flags, probes of the controller itself, leader election, metrics; the generated `DeepCopy` methods.
- `src/cGPTx` (a draft that is not built); charts, CRDs, RBAC and scripts (configuration).

## 8. Plan

Done, in this order: `ObjectGraph` and its proofs, `Reconcilers`, `Workloads`, `Pipeline`, then
`Derivatives`, `GraphRace`, `UserHandle` and its proofs, `Render`, and `Rendezvous` as the abstract
specification of `ObjectGraph`, with the proofs that it is implemented and that `Reconcilers`
implements `ObjectGraph`; the proofs about `Workloads`, `Derivatives` and `GraphRace`; and those about
`Pipeline` and `Render`.

Every safety property of a passing run is now a theorem. Worth adding next: the hazards
in `PROJECT.json` that no property watches yet, and in `Workloads` the Services and claims that `Derivatives`
looks at by themselves.

## 9. Running

```
tlc -config MCObjectGraph.cfg MCObjectGraph.tla        (every run: <run>.cfg with the module in PROJECT.json)
tlapm ReconcilersProofs.tla
tlapm RendezvousProofs.tla
tlapm WorkloadsProofs.tla
tlapm GraphRaceProofs.tla
tlapm DerivativesProofs.tla
tlapm UserHandleProofs.tla
tlapm PipelineProofs.tla
tlapm RenderProofs.tla
```

The longest passing runs, `MCWorkloads`, `MCWorkloadsKept`, `MCObjectGraph` and `MCUserHandle`, take two to
three minutes with two workers;
each module's proofs at most four minutes or so.
