----------------------------- MODULE Reconcilers -----------------------------
(***************************************************************************)
(* The three reconcilers between the API server and the object graph: the   *)
(* HelxApps, HelxUsers and HelxInsts on the API server, the informer caches *)
(* that follow them, the work queues, and each worker's reconcile.          *)
(*                                                                         *)
(* A reconcile is several steps: the graph operation on what the cache      *)
(* holds, then for each instance handed out the rendering of its artifacts  *)
(* and their application to the cluster, then the deferred status update.   *)
(* Users' edits, the caches, the other reconcilers and a restart come in    *)
(* between.  Here an application just succeeds or fails; module Workloads   *)
(* says what it does.                                                       *)
(***************************************************************************)
EXTENDS ObjectGraph

CONSTANTS
  Bare,                 \* the contents of apps none of whose services becomes a container
  Fragile,              \* the contents of triples that a template may fail on
  Present,              \* the kinds of object that exist when the controller starts
  MayUpdate, MayDelete, \* the kinds of object users update, and delete
  MaxEdits,             \* bound on what users do to the API objects
  MaxUUIDs,             \* bound on the uuids minted
  MaxFaults,            \* bound on API calls that fail for no reason of the model's
  MaxRestarts           \* bound on restarts

ASSUME BoundsAssumption ==
  /\ MaxEdits \in Nat /\ MaxUUIDs \in Nat /\ MaxFaults \in Nat /\ MaxRestarts \in Nat
  /\ Present \subseteq Controllers
  /\ MayUpdate \subseteq Controllers /\ MayDelete \subseteq Controllers
\* What a Deployment shows.
Content == [app : Revisions, user : Revisions, resources : Resources]

ASSUME ContentsAssumption == Bare \subseteq Revisions /\ Fragile \subseteq Content
ASSUME IdsAssumption == Ids = [uid : 0..MaxEdits, uuid : 1..MaxUUIDs]

VARIABLES
  api,         \* kind -> key -> the object on the API server, or Nil
  cache,       \* kind -> key -> the object in the informer's cache, or Nil
  queue,       \* kind -> keys to reconcile
  worker,      \* kind -> the reconcile in progress
  minted,      \* uuids minted so far
  edits, faults, restarts \* counters for the bounds

graph == vars
reconcilerVars == <<vars, api, cache, queue, worker, minted, edits, faults, restarts>>

KeysOf(c) == CASE c = "app" -> Apps [] c = "user" -> Users [] c = "inst" -> Insts
ContentsOf(c) == IF c = "inst" THEN InstSpecs ELSE Revisions

\* A custom resource: metadata.uid and generation, status.observedGeneration and
\* uuid, and the spec.  The record as a whole stands for its resourceVersion.
Resource(c) == [uid : 0..MaxEdits, gen : 1..(MaxEdits + 1), obs : 0..(MaxEdits + 1),
                content : ContentsOf(c), uuid : (1..MaxUUIDs) \cup {Nil}]

ASSUME NilNoneAssumption == /\ Nil \notin Nat /\ Nil \notin Key
                            /\ \A c \in Controllers : Nil \notin Resource(c)

\* A worker between reconciles.  "read" is the object the status update is for,
\* as it was read and as the reconcile changed it.
Free == [key |-> Nil, read |-> Nil, artifact |-> Nil, err |-> FALSE]
Busy(key, read) == [key |-> key, read |-> read, artifact |-> Nil, err |-> FALSE]

-----------------------------------------------------------------------------
(* Users *)

Create(c, key, content) ==
  /\ edits < MaxEdits
  /\ api[c][key] = Nil
  /\ api' = [api EXCEPT ![c][key] =
               [uid |-> edits + 1, gen |-> 1, obs |-> 0, content |-> content, uuid |-> Nil]]
  /\ edits' = edits + 1
  /\ UNCHANGED <<graph, cache, queue, worker, minted, faults, restarts>>

\* A change of an object's spec is a new generation of it.
Changed(cr, content) == [uid |-> cr.uid, gen |-> cr.gen + 1, obs |-> cr.obs,
                         content |-> content, uuid |-> cr.uuid]

Update(c, key, content) ==
  /\ c \in MayUpdate
  /\ edits < MaxEdits
  /\ api[c][key] # Nil
  /\ api[c][key].content # content
  /\ api' = [api EXCEPT ![c][key] = Changed(@, content)]
  /\ edits' = edits + 1
  /\ UNCHANGED <<graph, cache, queue, worker, minted, faults, restarts>>

Delete(c, key) ==
  /\ c \in MayDelete
  /\ edits < MaxEdits
  /\ api[c][key] # Nil
  /\ api' = [api EXCEPT ![c][key] = Nil]
  /\ edits' = edits + 1
  /\ UNCHANGED <<graph, cache, queue, worker, minted, faults, restarts>>

-----------------------------------------------------------------------------
(* Informers: each object's cache entry catches up with the API server, and a *)
(* change of a HelX object queues it.                                         *)

\* A mutant of Sync: an object whose generation is the same is not queued, as with
\* controller-runtime's GenerationChangedPredicate.
SyncGeneration(c, key) ==
  /\ cache[c][key] # api[c][key]
  /\ cache' = [cache EXCEPT ![c][key] = api[c][key]]
  /\ queue' = IF /\ cache[c][key] # Nil /\ api[c][key] # Nil
                 /\ cache[c][key].gen = api[c][key].gen
              THEN queue ELSE [queue EXCEPT ![c] = @ \cup {key}]
  /\ UNCHANGED <<graph, api, worker, minted, edits, faults, restarts>>

Sync(c, key) ==
  /\ cache[c][key] # api[c][key]
  /\ cache' = [cache EXCEPT ![c][key] = api[c][key]]
  /\ queue' = [queue EXCEPT ![c] = @ \cup {key}]
  /\ UNCHANGED <<graph, api, worker, minted, edits, faults, restarts>>

-----------------------------------------------------------------------------
(* Reconcile: the request is taken off the queue and the graph is changed *)

InstOf(key, cr) == [key |-> key, spec |-> cr.content, id |-> [uid |-> cr.uid, uuid |-> cr.uuid]]

\* A mutant of ReconcileDeleted: an instance's deletion is not acted on.
IgnoreDeletedInst(c, key) ==
  /\ cache[c][key] = Nil
  /\ \/ c = "app" /\ DeleteApp(key)
     \/ c = "user" /\ DeleteUser(key)
     \/ c = "inst" /\ UNCHANGED graph
  /\ worker' = IF job'[c] = Idle THEN worker ELSE [worker EXCEPT ![c] = Busy(key, Nil)]
  /\ UNCHANGED minted

\* The cache has no such object: the graph forgets it.  No status is written.
ReconcileDeleted(c, key) ==
  /\ cache[c][key] = Nil
  /\ \/ c = "app" /\ DeleteApp(key)
     \/ c = "user" /\ DeleteUser(key)
     \/ c = "inst" /\ Known(key) /\ DeleteInst(key)
     \/ c = "inst" /\ ~Known(key) /\ UNCHANGED graph
  /\ worker' = IF job'[c] = Idle THEN worker ELSE [worker EXCEPT ![c] = Busy(key, Nil)]
  /\ UNCHANGED minted

\* A mutant of ReconcileResync: what was observed is not stored again.
SkipResync(c, key) ==
  LET cr == cache[c][key] IN
  /\ cr # Nil /\ cr.obs >= cr.gen
  /\ UNCHANGED <<graph, worker, minted>>

\* The generation was observed before: the object is stored, nothing else.
ReconcileResync(c, key) ==
  LET cr == cache[c][key] IN
  /\ cr # Nil /\ cr.obs >= cr.gen
  /\ \/ c = "app" /\ ResyncApp(key, cr.content)
     \/ c = "user" /\ ResyncUser(key, cr.content)
     \/ c = "inst" /\ ResyncInst(InstOf(key, cr))
  /\ UNCHANGED <<worker, minted>>

\* A mutant of WithUUID: a uuid that the name determines.
WithNameAsUUID(c, cr) == IF c = "inst" /\ cr.uuid = Nil THEN [cr EXCEPT !.uuid = 1] ELSE cr

\* A generation not observed yet: an instance without a uuid gets one.
WithUUID(c, cr) == IF c = "inst" /\ cr.uuid = Nil THEN [cr EXCEPT !.uuid = minted + 1] ELSE cr

\* A mutant of ReconcileChanged: an observed generation counts as changed.
ReconcileAlways(c, key) ==
  LET cr == cache[c][key]
      new == WithUUID(c, cr)
  IN
  /\ cr # Nil /\ cr.obs <= cr.gen
  /\ minted' = IF new = cr THEN minted ELSE minted + 1
  /\ minted' <= MaxUUIDs
  /\ \/ c = "app" /\ AddApp(key, new.content)
     \/ c = "user" /\ AddUser(key, new.content)
     \/ c = "inst" /\ AddInst(InstOf(key, new))
  /\ worker' = [worker EXCEPT ![c] = Busy(key, [old |-> cr, new |-> new])]

ReconcileChanged(c, key) ==
  LET cr == cache[c][key]
      new == WithUUID(c, cr)
  IN
  /\ cr # Nil /\ cr.obs < cr.gen
  /\ minted' = IF new = cr THEN minted ELSE minted + 1
  /\ minted' <= MaxUUIDs
  /\ \/ c = "app" /\ AddApp(key, new.content)
     \/ c = "user" /\ AddUser(key, new.content)
     \/ c = "inst" /\ AddInst(InstOf(key, new))
  /\ worker' = [worker EXCEPT ![c] = Busy(key, [old |-> cr, new |-> new])]

Reconcile(c, key) ==
  /\ worker[c].key = Nil
  /\ key \in queue[c]
  /\ queue' = [queue EXCEPT ![c] = @ \ {key}]
  /\ ReconcileDeleted(c, key) \/ ReconcileResync(c, key) \/ ReconcileChanged(c, key)
  /\ UNCHANGED <<api, cache, edits, faults, restarts>>

-----------------------------------------------------------------------------
(* CreateDerivatives, an instance at a time *)

Rendered(inst) ==
  [inst |-> inst,
   content |-> [app |-> GetApp(AppKey(inst)), user |-> GetUser(UserKey(inst)),
                resources |-> inst.spec.resources]]

\* Without an app, without a user, or without a container there is no artifact, and no
\* error either: nothing is applied.
HasArtifact(inst) == Complete(inst) /\ GetApp(AppKey(inst)) \notin Bare

\* The artifact, if there is one, is rendered from the graph as it is now.
Generate(c, inst) ==
  /\ worker[c].artifact = Nil
  /\ GenerateArtifacts(c, inst)
  /\ worker' = IF HasArtifact(inst)
               THEN [worker EXCEPT ![c].artifact = Rendered(inst)]
               ELSE worker
  /\ UNCHANGED <<api, cache, queue, minted, edits, faults, restarts>>

Applied(c) ==
  /\ worker[c].artifact # Nil
  /\ worker' = [worker EXCEPT ![c].artifact = Nil]
  /\ UNCHANGED <<graph, api, cache, queue, minted, edits, faults, restarts>>

Failed(w) == [key |-> w.key, read |-> w.read, artifact |-> Nil, err |-> TRUE]

\* A template fails, and with it the reconcile: nothing of the instance is applied, and
\* the instances still to come are dropped.
GenerateFails(c, inst) ==
  /\ worker[c].artifact = Nil
  /\ inst \in job[c].insts
  /\ HasArtifact(inst) /\ Rendered(inst).content \in Fragile
  /\ Abandon(c)
  /\ worker' = [worker EXCEPT ![c] = Failed(@)]
  /\ UNCHANGED <<api, cache, queue, minted, edits, faults, restarts>>

\* The application fails, for reasons of its own or a fault, and with it the
\* reconcile: the instances still to come are dropped.
NotApplied(c) ==
  /\ worker[c].artifact # Nil
  /\ worker' = [worker EXCEPT ![c] = Failed(@)]
  /\ IF job[c].op = "create" THEN Abandon(c) ELSE UNCHANGED graph
  /\ faults' \in {faults, faults + 1} /\ faults' <= MaxFaults
  /\ UNCHANGED <<api, cache, queue, minted, edits, restarts>>

\* DeleteDerivatives; whether it fails makes no difference to the reconcile.
DeleteWorkload(c, inst) ==
  /\ DeleteDerivatives(c, inst)
  /\ faults' \in {faults, faults + 1} /\ faults' <= MaxFaults
  /\ UNCHANGED <<api, cache, queue, worker, minted, edits, restarts>>

-----------------------------------------------------------------------------
(* The end of a reconcile *)

\* Mutants of UpdateStatus: the status is merged into the object even if it has
\* changed, or its generation of that moment is marked observed.
MergeStatus(c) ==
  LET key == worker[c].key
      read == worker[c].read
  IN  /\ api' = IF read # Nil /\ api[c][key] # Nil /\ api[c][key].uid = read.old.uid
               THEN [api EXCEPT ![c][key].obs = read.new.gen, ![c][key].uuid = read.new.uuid]
               ELSE api
      /\ UNCHANGED faults

ObserveCurrent(c) ==
  LET key == worker[c].key
      read == worker[c].read
  IN  /\ api' = IF read # Nil /\ api[c][key] # Nil
               THEN [api EXCEPT ![c][key].obs = api[c][key].gen]
               ELSE api
      /\ UNCHANGED faults

\* The deferred status update: whatever came of the work, the generation read is
\* recorded as observed, unless the object has changed since it was read.
UpdateStatus(c) ==
  LET key == worker[c].key
      read == worker[c].read
  IN  \/ /\ read # Nil
         /\ api[c][key] = read.old
         /\ api' = [api EXCEPT ![c][key] = [read.new EXCEPT !.obs = read.new.gen]]
         /\ UNCHANGED faults
      \/ /\ read # Nil => api[c][key] # read.old
         /\ UNCHANGED <<api, faults>>
      \/ /\ read # Nil
         /\ faults < MaxFaults /\ faults' = faults + 1
         /\ UNCHANGED api

\* A mutant of Finish: the reconcile ends before its loop does.
FinishEarly(c) ==
  /\ worker[c].key # Nil
  /\ worker[c].artifact = Nil
  /\ UpdateStatus(c)
  /\ queue' = IF worker[c].err THEN [queue EXCEPT ![c] = @ \cup {worker[c].key}] ELSE queue
  /\ worker' = [worker EXCEPT ![c] = Free]
  /\ UNCHANGED <<graph, cache, minted, edits, restarts>>

\* A reconcile that returns an error is queued again.
Finish(c) ==
  /\ worker[c].key # Nil
  /\ job[c] = Idle
  /\ worker[c].artifact = Nil
  /\ UpdateStatus(c)
  /\ queue' = IF worker[c].err THEN [queue EXCEPT ![c] = @ \cup {worker[c].key}] ELSE queue
  /\ worker' = [worker EXCEPT ![c] = Free]
  /\ UNCHANGED <<graph, cache, minted, edits, restarts>>

-----------------------------------------------------------------------------
(* A restart: the memory is lost, the caches are listed anew and every object *)
(* that exists is queued.                                                     *)

AllKeys == [c \in Controllers |-> {key \in KeysOf(c) : api[c][key] # Nil}]

\* A mutant of RestartController: what was observed before is not queued.
RestartLazily ==
  /\ restarts < MaxRestarts
  /\ restarts' = restarts + 1
  /\ Restart
  /\ cache' = api
  /\ queue' = [c \in Controllers |-> {key \in AllKeys[c] : api[c][key].obs < api[c][key].gen}]
  /\ worker' = [c \in Controllers |-> Free]
  /\ UNCHANGED <<api, minted, edits, faults>>

RestartController ==
  /\ restarts < MaxRestarts
  /\ restarts' = restarts + 1
  /\ Restart
  /\ cache' = api
  /\ queue' = AllKeys
  /\ worker' = [c \in Controllers |-> Free]
  /\ UNCHANGED <<api, minted, edits, faults>>

-----------------------------------------------------------------------------
\* The objects of a kind at the start: none, or one of every key.
Initial(c) ==
  IF c \in Present
  THEN {[key \in KeysOf(c) |-> [uid |-> 0, gen |-> 1, obs |-> 0, content |-> x, uuid |-> Nil]] :
          x \in ContentsOf(c)}
  ELSE {[key \in KeysOf(c) |-> Nil]}

\* The controller starts as it restarts: with a list of what exists.
ReconcilersInit ==
  /\ Init
  /\ \E apps \in Initial("app"), users \in Initial("user"), insts \in Initial("inst") :
        api = [app |-> apps, user |-> users, inst |-> insts]
  /\ cache = api
  /\ queue = AllKeys
  /\ worker = [c \in Controllers |-> Free]
  /\ minted = 0 /\ edits = 0 /\ faults = 0 /\ restarts = 0

UserEdits == \E c \in Controllers : \E key \in KeysOf(c) :
               \/ \E content \in ContentsOf(c) : Create(c, key, content) \/ Update(c, key, content)
               \/ Delete(c, key)

Work(c) == \/ \E inst \in job[c].insts :
                 Generate(c, inst) \/ GenerateFails(c, inst) \/ DeleteWorkload(c, inst)
           \/ Applied(c) \/ NotApplied(c)
           \/ Finish(c)

ReconcilersNext ==
  \/ UserEdits
  \/ \E c \in Controllers : \E key \in KeysOf(c) : Sync(c, key) \/ Reconcile(c, key)
  \/ \E c \in Controllers : Work(c)
  \/ RestartController

\* Informers keep going, a worker finishes what it began, and the work queue is
\* first in first out, so that every key gets its turn.  Users, faults and
\* restarts owe nothing.
ReconcilersFairness ==
  \A c \in Controllers :
    /\ WF_reconcilerVars(Work(c))
    /\ \A key \in KeysOf(c) : /\ WF_reconcilerVars(Sync(c, key))
                              /\ SF_reconcilerVars(Reconcile(c, key))

ReconcilersSpec == ReconcilersInit /\ [][ReconcilersNext]_reconcilerVars
FairReconcilersSpec == ReconcilersSpec /\ ReconcilersFairness

-----------------------------------------------------------------------------
(* Properties *)

Artifacts == [inst : HelxInst, content : Content]
Workers == [key : Key \cup {Nil},
            read : [old : UNION {Resource(c) : c \in Controllers},
                    new : UNION {Resource(c) : c \in Controllers}] \cup {Nil},
            artifact : Artifacts \cup {Nil}, err : BOOLEAN]

ASSUME NilArtifactAssumption == Nil \notin Artifacts

\* Types, and the shape of a reconcile: a free worker holds nothing.
ReconcilersTypeOK ==
  /\ TypeOK
  /\ \A c \in Controllers :
       /\ api[c] \in [KeysOf(c) -> Resource(c) \cup {Nil}]
       /\ cache[c] \in [KeysOf(c) -> Resource(c) \cup {Nil}]
       /\ queue[c] \subseteq KeysOf(c)
       /\ worker[c] \in Workers
       /\ worker[c].key = Nil => worker[c] = Free /\ job[c] = Idle
  /\ minted \in 0..MaxUUIDs /\ edits \in 0..MaxEdits
  /\ faults \in 0..MaxFaults /\ restarts \in 0..MaxRestarts

Exists(c, key) == api[c][key] # Nil
Observed(c, key) == Exists(c, key) /\ api[c][key].obs >= api[c][key].gen

InGraph(c, key) ==
  CASE c = "app"  -> GetApp(key) = api[c][key].content
    [] c = "user" -> GetUser(key) = api[c][key].content
    [] c = "inst" -> instanceTable[key] = InstOf(key, api[c][key])

\* An object whose status says that its generation was observed is in the graph
\* with that generation's content, or will be reconciled again: the early return
\* of a resync loses nothing, neither after a restart nor when a status update
\* raced with an edit, a deletion and a re-creation.
ObservedIsKnown ==
  \A c \in Controllers : \A key \in KeysOf(c) :
    Observed(c, key) =>
      InGraph(c, key) \/ key \in queue[c] \/ cache[c][key] # api[c][key]

\* The graph has what the cache shows of an object; an instance may have a uuid that
\* its status still lacks.
Stored(c, key) ==
  /\ c = "app" => GetApp(key) = cache[c][key].content
  /\ c = "user" => GetUser(key) = cache[c][key].content
  /\ c = "inst" => /\ Known(key)
                   /\ instanceTable[key].spec = cache[c][key].content
                   /\ instanceTable[key].id.uid = cache[c][key].uid
                   /\ cache[c][key].uuid \in {Nil, instanceTable[key].id.uuid}

\* No change is lost on the way from a cache to the graph: the graph has what the
\* cache shows of every object, and no instance that the cache has not, unless the
\* request is still queued -- however many edits the cache skipped, status updates
\* failed and reconciles were resyncs.
NoRequestLost ==
  \A c \in Controllers : \A key \in KeysOf(c) :
    \/ key \in queue[c]
    \/ cache[c][key] # Nil /\ Stored(c, key)
    \/ cache[c][key] = Nil /\ (c = "inst" => ~Known(key))

\* The uuid in an instance's status never changes while the instance exists,
\* though every reconcile that reads none mints one and writes it at its end:
\* every label and every derived object's name hangs on it.
UUIDNeverReplaced ==
  [][\A i \in Insts :
       (Exists("inst", i) /\ Exists("inst", i)' /\ api'["inst"][i].uid = api["inst"][i].uid
          /\ api["inst"][i].uuid # Nil)
         => api'["inst"][i].uuid = api["inst"][i].uuid]_reconcilerVars

\* When a status update records a generation as observed, the graph holds that
\* very generation of the same object: an edit, or a deletion and re-creation, made
\* while the reconcile runs is never recorded as observed.
EditsAreNotSkipped ==
  [][\A c \in Controllers : \A key \in KeysOf(c) :
       (~Observed(c, key) /\ Observed(c, key)') => InGraph(c, key)']_reconcilerVars

\* Once users stop, the graph holds exactly the instances that exist, with their
\* spec and identity, and every app and user that exists with its content --
\* across lagging caches, conflicts, re-creations and restarts.
GraphCatchesUp ==
  <>[](/\ \A a \in Apps : Exists("app", a) => InGraph("app", a)
       /\ \A u \in Users : Exists("user", u) => InGraph("user", u)
       /\ \A i \in Insts : IF Exists("inst", i) THEN InGraph("inst", i) ELSE ~Known(i))

\* Once users stop, reconciling stops: status updates queue their own object
\* again, and failed reconciles are retried, but neither goes on for ever.
Quiesces == <>[](\A c \in Controllers : queue[c] = {} /\ worker[c] = Free)
=============================================================================
