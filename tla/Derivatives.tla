----------------------------- MODULE Derivatives -----------------------------
(***************************************************************************)
(* The objects derived from instances -- Deployments, PersistentVolumeClaims *)
(* and Services -- and the two calls that write them: CreateDerivatives,    *)
(* which applies an instance's artifacts one after the other, and           *)
(* DeleteDerivatives, the cascade of a deleted app.  Module Workloads has    *)
(* the Deployments alone, under the whole machinery of the reconcilers;      *)
(* here several instances of one app share a claim, and every write to the   *)
(* API server is a step of its own.                                          *)
(*                                                                         *)
(* A claim is named by the app, so that instances share it; Deployment and   *)
(* Service are named by the instance.  An instance stands for its uid and    *)
(* its uuid: one that is deleted and created again is another.  The user of  *)
(* the triple is always there.                                               *)
(*                                                                         *)
(* The cache is read and the write it decides on is sent in one step: how    *)
(* old the cache is, is left to chance already.  Writes fail where they meet *)
(* what the cache did not show; module Workloads has calls that fail for     *)
(* other reasons.                                                            *)
(***************************************************************************)
EXTENDS Naturals, FiniteSets

CONSTANTS
  Insts,        \* instances
  Claims,       \* names of claims
  Images,       \* the part of an app that shows in the Deployment
  Containers,   \* names of containers with ports
  AppContents,  \* the contents an app may have
  Bare,         \* those none of whose services becomes a container
  Fragile,      \* those that a template may fail on
  MaxEdits,     \* bound on what users do to the app
  MaxDeletions, \* bound on the instances they delete
  Nil

ASSUME ContentsAssumption ==
  AppContents \subseteq [image : Images, services : SUBSET Containers,
                         claims : [Claims -> {"none", "plain", "retain"}]]
ASSUME ServicesAssumption == Bare \subseteq AppContents /\ Fragile \subseteq AppContents
ASSUME ApartAssumption == /\ Nil \notin AppContents \cup Insts \cup Images \cup Containers
                          /\ "app" \notin Insts
ASSUME LimitsAssumption == MaxEdits \in Nat /\ MaxDeletions \in Nat

Name == [kind : {"deployment", "service"}, name : Insts] \cup [kind : {"claim"}, name : Claims]

\* The labels helx.renci.org/id and retain, the owner reference, and what else
\* distinguishes the object; "born" tells incarnations of a name apart and "kept"
\* whether it was created with the retain label (both history).
Object == [id : Insts, retain : BOOLEAN, owner : Insts \cup {Nil},
           data : Images \cup Containers \cup {Nil}, terminating : BOOLEAN, born : Nat, kept : BOOLEAN]
ASSUME NilObjectAssumption == Nil \notin Object

Artifact == [name : Name, id : Insts, retain : BOOLEAN, data : Images \cup Containers \cup {Nil}]

Workers == {"app", "inst"}

\* What a worker is doing: the instances still to handle; the one it handles and the
\* artifacts still to apply, or the kind being deleted and the objects listed.
Idle == [op |-> "idle", insts |-> {}, inst |-> Nil, todo |-> {}, kind |-> Nil, listed |-> {}]

VARIABLES
  app,       \* the app on the API server, or Nil
  table,     \* the app in the object graph, or Nil
  live,      \* instances on the API server
  known,     \* instances in the object graph
  changed,   \* the HelX objects queued: instances, and "app"
  worker,    \* what each worker is doing
  objects,   \* Name -> the object on the API server, or Nil
  seen,      \* Name -> the object in the informers' cache, or Nil
  births,    \* Name -> incarnations so far
  outdated,  \* instances whose Deployment's last write did not bring it up to date,
             \* or that an error, theirs or another's, passed over (history)
  edits      \* counter for the bound

graphVars == <<app, table, live, known, changed>>
clusterVars == <<objects, births>>
vars == <<graphVars, worker, clusterVars, seen, outdated, edits>>

-----------------------------------------------------------------------------
(* Users *)

DeleteInst(i) ==
  /\ i \in live
  /\ Cardinality(Insts \ live) < MaxDeletions
  /\ live' = live \ {i}
  /\ changed' = changed \cup {i}
  /\ UNCHANGED <<app, table, known, worker, clusterVars, seen, outdated, edits>>

\* The app is created, updated or deleted.
EditApp(content) ==
  /\ edits < MaxEdits /\ edits' = edits + 1
  /\ app # content
  /\ app' = content
  /\ changed' = changed \cup {"app"}
  /\ UNCHANGED <<table, live, known, worker, clusterVars, seen, outdated>>

-----------------------------------------------------------------------------
(* Reconciles: the graph changes, and copies of instances are handed out *)

Begin(op, handed) == IF handed = {} THEN Idle ELSE [Idle EXCEPT !.op = op, !.insts = handed]

\* A mutant of ReconcileApp: an update is stored and nothing is handed out.
ReconcileAppQuietly ==
  /\ "app" \in changed
  /\ worker["app"] = Idle
  /\ changed' = changed \ {"app"}
  /\ table' = IF app = Nil THEN table ELSE app
  /\ worker' = [worker EXCEPT !["app"] = Begin("delete", IF app = Nil THEN known ELSE {})]
  /\ UNCHANGED <<app, live, known, clusterVars, seen, outdated, edits>>

ReconcileApp ==
  /\ "app" \in changed
  /\ worker["app"] = Idle
  /\ changed' = changed \ {"app"}
  /\ table' = IF app = Nil THEN table ELSE app
  /\ worker' = [worker EXCEPT !["app"] = Begin(IF app = Nil THEN "delete" ELSE "create", known)]
  /\ UNCHANGED <<app, live, known, clusterVars, seen, outdated, edits>>

ReconcileInst(i) ==
  /\ i \in changed
  /\ worker["inst"] = Idle
  /\ changed' = changed \ {i}
  /\ IF i \in live
     THEN /\ known' = known \cup {i}
          /\ worker' = [worker EXCEPT !["inst"] = Begin("create", {i})]
     ELSE known' = known \ {i} /\ UNCHANGED worker
  /\ UNCHANGED <<app, table, live, clusterVars, seen, outdated, edits>>

-----------------------------------------------------------------------------
(* CreateDerivatives: rendering, then the artifacts one by one *)

\* A mutant of Artifacts: the label is the object's name.
ArtifactsByName(i, content) ==
  LET New(kind, name, retain, data) ==
        [name |-> [kind |-> kind, name |-> name], id |-> name, retain |-> retain, data |-> data]
  IN  {New("deployment", i, FALSE, content.image)}
      \cup {New("claim", c, content.claims[c] = "retain", Nil) :
              c \in {c \in Claims : content.claims[c] # "none"}}

Artifacts(i, content) ==
  LET New(kind, name, retain, data) ==
        [name |-> [kind |-> kind, name |-> name], id |-> i, retain |-> retain, data |-> data]
  IN  {New("deployment", i, FALSE, content.image)}
      \cup {New("claim", c, content.claims[c] = "retain", Nil) :
              c \in {c \in Claims : content.claims[c] # "none"}}
      \cup {New("service", i, FALSE, s) : s \in content.services}

\* The work on an instance ends; if there is no other left, so does the loop.
NextInst(w) == Begin(worker[w].op, worker[w].insts)

\* Without an app, or without a container, there is nothing to apply, and no error.
HasArtifacts == table # Nil /\ table \notin Bare

Generate(w, i) ==
  /\ worker[w].op = "create" /\ worker[w].inst = Nil
  /\ i \in worker[w].insts
  /\ worker' = [worker EXCEPT ![w] =
       IF HasArtifacts
       THEN [worker[w] EXCEPT !.insts = @ \ {i}, !.inst = i, !.todo = Artifacts(i, table)]
       ELSE Begin("create", @.insts \ {i})]
  /\ UNCHANGED <<graphVars, clusterVars, seen, outdated, edits>>

\* A template fails: nothing of the instance is applied, and the loop ends.
GenerateFails(w, i) ==
  /\ worker[w].op = "create" /\ worker[w].inst = Nil
  /\ i \in worker[w].insts
  /\ HasArtifacts /\ table \in Fragile
  /\ worker' = [worker EXCEPT ![w] = Idle]
  /\ outdated' = outdated \cup worker[w].insts
  /\ UNCHANGED <<graphVars, clusterVars, seen, edits>>

\* First the Deployment, then the claims in any order, then the Services.
Rank(a) == CASE a.name.kind = "deployment" -> 1 [] a.name.kind = "claim" -> 2 [] OTHER -> 3
Turns(w) == {a \in worker[w].todo : \A b \in worker[w].todo : Rank(a) <= Rank(b)}

\* A mutant of AcceptsRemoval: the patch of a claim is sent as it is.
AcceptsAnyRemoval(kind) == TRUE

\* The remove operations in the patch of a claim are dropped.
AcceptsRemoval(kind) == kind # "claim"

\* A mutant of Created: it is owned whether it is retained or not.
CreatedOwned(a) ==
  [id |-> a.id, retain |-> a.retain, data |-> a.data, terminating |-> FALSE, owner |-> a.id,
   born |-> births[a.name] + 1, kept |-> a.retain]

Created(a) ==
  [id |-> a.id, retain |-> a.retain, data |-> a.data, terminating |-> FALSE,
   owner |-> IF a.retain THEN Nil ELSE a.id,
   born |-> births[a.name] + 1, kept |-> a.retain]

\* What differs between the cached object and the artifact is changed in the object
\* that is there now.  A removal of what is not there fails.
CanPatch(a) ==
  LET now == objects[a.name]
      got == seen[a.name]
  IN  /\ got # Nil /\ now # Nil
      /\ AcceptsRemoval(a.name.kind) =>
           /\ got.owner # Nil => now.owner # Nil
           /\ got.terminating => now.terminating
           /\ got.retain /\ ~a.retain => now.retain

Patched(a) ==
  LET got == seen[a.name]
      removes == AcceptsRemoval(a.name.kind)
  IN  IF removes /\ got.terminating THEN Nil
      ELSE [objects[a.name] EXCEPT
              !.id = IF got.id = a.id THEN @ ELSE a.id,
              !.retain = /\ @ \/ (a.retain /\ ~got.retain)
                         /\ ~(removes /\ got.retain /\ ~a.retain),
              !.owner = IF removes /\ got.owner # Nil THEN Nil ELSE @,
              !.data = IF got.data = a.data THEN @ ELSE a.data]

CanCreate(a) == seen[a.name] = Nil /\ objects[a.name] = Nil

\* The Deployment of the artifact's instance is now as the app in the API wants it.
UpToDate(a) == /\ objects'[a.name] # Nil
               /\ ~objects'[a.name].terminating
               /\ app # Nil => objects'[a.name].data = app.image

Judged(a) == IF a.name.kind # "deployment" THEN outdated
             ELSE IF UpToDate(a) THEN outdated \ {a.id} ELSE outdated \cup {a.id}

\* After a write the next artifact is applied, failed or not, but nothing is after a
\* Deployment that failed.  What CreateDerivatives returns is the error of the last
\* write, and an error ends the loop over the instances.
Applied(w, a, failed) ==
  LET rest == worker[w].todo \ {a} IN
  worker' = [worker EXCEPT ![w] =
    CASE ~failed /\ rest = {} -> NextInst(w)
      [] failed /\ (rest = {} \/ a.name.kind = "deployment") -> Idle
      [] OTHER -> [@ EXCEPT !.todo = rest]]

CreateResource(w, a) ==
  /\ a \in Turns(w)
  /\ CanCreate(a)
  /\ objects' = [objects EXCEPT ![a.name] = Created(a)]
  /\ births' = [births EXCEPT ![a.name] = @ + 1]
  /\ Applied(w, a, FALSE)
  /\ outdated' = Judged(a)
  /\ UNCHANGED <<graphVars, seen, edits>>

PatchResource(w, a) ==
  /\ a \in Turns(w)
  /\ CanPatch(a)
  /\ objects' = [objects EXCEPT ![a.name] = Patched(a)]
  /\ Applied(w, a, FALSE)
  /\ outdated' = Judged(a)
  /\ UNCHANGED <<graphVars, births, seen, edits>>

FailResource(w, a) ==
  /\ a \in Turns(w)
  /\ ~CanCreate(a) /\ ~CanPatch(a)
  /\ Applied(w, a, TRUE)
  /\ outdated' = outdated \cup (IF a.name.kind = "deployment" THEN {a.id} ELSE {})
                          \cup (IF worker'[w] = Idle THEN worker[w].insts ELSE {})
  /\ UNCHANGED <<graphVars, clusterVars, seen, edits>>

-----------------------------------------------------------------------------
(* DeleteDerivatives: Deployments, then claims, then Services *)

After(kind) == CASE kind = Nil -> "deployment" [] kind = "deployment" -> "claim"
                 [] kind = "claim" -> "service"

\* The cached objects of the kind that bear the instance's label and are not retained.
Listed(kind, i) ==
  {[name |-> n, born |-> seen[n].born] :
     n \in {n \in Name : n.kind = kind /\ seen[n] # Nil /\ seen[n].id = i /\ ~seen[n].retain}}

\* The instance in hand, or the next one.
Handled(w) == IF worker[w].inst = Nil THEN worker[w].insts ELSE {worker[w].inst}

List(w, i) ==
  /\ worker[w].op = "delete" /\ worker[w].listed = {}
  /\ i \in Handled(w)
  /\ worker' = [worker EXCEPT ![w] =
       IF @.kind = "service" THEN NextInst(w)
       ELSE [worker[w] EXCEPT !.insts = @ \ {i}, !.inst = i, !.kind = After(@),
                              !.listed = Listed(After(worker[w].kind), i)]]
  /\ UNCHANGED <<graphVars, clusterVars, seen, outdated, edits>>

\* c.Delete by name, in the foreground: the object stays, with a finalizer, until
\* what depends on it is gone.  An error, as of an object that is not there, ends
\* the work on the instance.
DeleteListed(w, x) ==
  /\ x \in worker[w].listed
  /\ \/ /\ objects[x.name] # Nil
        /\ objects' = [objects EXCEPT ![x.name].terminating = TRUE]
        /\ worker' = [worker EXCEPT ![w].listed = @ \ {x}]
     \/ /\ objects[x.name] = Nil
        /\ worker' = [worker EXCEPT ![w] = NextInst(w)]
        /\ UNCHANGED objects
  /\ UNCHANGED <<graphVars, births, seen, outdated, edits>>

-----------------------------------------------------------------------------
(* The cluster *)

Sync(n) ==
  /\ seen[n] # objects[n]
  /\ seen' = [seen EXCEPT ![n] = objects[n]]
  /\ UNCHANGED <<graphVars, worker, clusterVars, outdated, edits>>

Terminate(n) ==
  /\ objects[n] # Nil /\ objects[n].terminating
  /\ objects' = [objects EXCEPT ![n] = Nil]
  /\ UNCHANGED <<graphVars, worker, births, seen, outdated, edits>>

\* The garbage collector deletes an object whose owner is gone; a claim stays until
\* no pod uses it.
Garbage(n) == /\ objects[n] # Nil /\ ~objects[n].terminating
              /\ objects[n].owner # Nil /\ objects[n].owner \notin live

CollectGarbage(n) ==
  /\ Garbage(n)
  /\ objects' = [objects EXCEPT ![n] =
                   IF n.kind = "claim" THEN [@ EXCEPT !.terminating = TRUE] ELSE Nil]
  /\ UNCHANGED <<graphVars, worker, births, seen, outdated, edits>>

-----------------------------------------------------------------------------
\* The app was there first.
Init ==
  /\ app \in AppContents
  /\ table = app
  /\ live = Insts
  /\ known = {}
  /\ changed = Insts
  /\ worker = [w \in Workers |-> Idle]
  /\ objects = [n \in Name |-> Nil]
  /\ seen = [n \in Name |-> Nil]
  /\ births = [n \in Name |-> 0]
  /\ outdated = {}
  /\ edits = 0

Work(w) == \/ \E i \in worker[w].insts : Generate(w, i) \/ GenerateFails(w, i)
           \/ \E a \in worker[w].todo :
                CreateResource(w, a) \/ PatchResource(w, a) \/ FailResource(w, a)
           \/ \E i \in Insts : List(w, i)
           \/ \E x \in worker[w].listed : DeleteListed(w, x)

Next == \/ \E i \in Insts : DeleteInst(i) \/ ReconcileInst(i)
        \/ \E content \in AppContents \cup {Nil} : EditApp(content)
        \/ ReconcileApp
        \/ \E w \in Workers : Work(w)
        \/ \E n \in Name : Sync(n) \/ Terminate(n) \/ CollectGarbage(n)

Spec == Init /\ [][Next]_vars

-----------------------------------------------------------------------------
(* Properties *)

Worker == [op : {"idle", "create", "delete"}, insts : SUBSET Insts, inst : Insts \cup {Nil},
           todo : SUBSET Artifact, kind : {Nil, "deployment", "claim", "service"},
           listed : SUBSET [name : Name, born : Nat]]

\* Types, and what belongs together in a worker's state.
TypeOK ==
  /\ app \in AppContents \cup {Nil} /\ table \in AppContents \cup {Nil}
  /\ live \subseteq Insts /\ known \subseteq Insts
  /\ changed \subseteq Insts \cup {"app"} /\ outdated \subseteq Insts
  /\ worker \in [Workers -> Worker]
  /\ \A w \in Workers : /\ worker[w].op = "idle" => worker[w] = Idle
                        /\ \A a \in worker[w].todo : a.id = worker[w].inst
  /\ objects \in [Name -> Object \cup {Nil}] /\ seen \in [Name -> Object \cup {Nil}]
  /\ births \in [Name -> Nat]
  /\ edits \in 0..MaxEdits

Claim(c) == objects[[kind |-> "claim", name |-> c]]
Stays(n) == objects'[n] # Nil /\ objects'[n].born = objects[n].born

\* A claim's retain label, once set, is there as long as the claim, though every
\* instance that shares the claim patches it from a copy of its own and an app may
\* no longer ask for it (PVCFromYAML).
RetainStays ==
  [][\A n \in Name : (objects[n] # Nil /\ objects[n].retain /\ Stays(n)) => objects'[n].retain]_vars

\* A claim that was created with the retain label outlives instances and cascades,
\* whatever those who share it apply later -- unless a cascade takes it for its
\* predecessor: one that listed an older claim of that name and deletes by name.
RetainedClaimKept ==
  [][\A n \in Name :
       (objects[n] # Nil /\ objects[n].kept /\ ~objects[n].terminating)
         => \/ Stays(n) /\ ~objects'[n].terminating
            \/ \E w \in Workers : \E x \in worker[w].listed : x.name = n /\ x.born # objects[n].born]_vars

AtRest ==
  /\ changed = {} /\ \A w \in Workers : worker[w] = Idle
  /\ seen = objects
  /\ \A n \in Name : ~Garbage(n) /\ (objects[n] # Nil => ~objects[n].terminating)

\* A claim that is not retained does not outlive the instance that created it,
\* whoever else patched it: the garbage collection of README.md:171, which patches
\* defeat for Deployments and Services.
PlainClaimsGo ==
  AtRest => \A c \in Claims :
    (Claim(c) # Nil /\ ~Claim(c).retain) => Claim(c).owner \in live

\* When everything is at rest, the Deployment of an instance shows the app as it is
\* on the API server, although two workers write it, each with a rendering and a
\* cached object of its own time -- unless its last write failed, carried an older
\* rendering or worked on an old copy, or an error, of a write or of a template, passed
\* the instance over.  An app without a container leaves the Deployment as it was, if
\* there was one.
AppShows ==
  AtRest => \A i \in Insts :
    (i \in live /\ app # Nil /\ app \notin Bare /\ i \notin outdated) =>
      LET d == objects[[kind |-> "deployment", name |-> i]]
      IN  d # Nil /\ d.data = app.image

-----------------------------------------------------------------------------
(* What the documentation says and the code does not do *)

\* README.md:175: objects with the retain label survive deletion.
LabelledClaimSurvives ==
  [][\A n \in Name :
       (objects[n] # Nil /\ objects[n].retain /\ ~objects[n].terminating)
         => Stays(n) /\ ~objects'[n].terminating]_vars
=============================================================================
