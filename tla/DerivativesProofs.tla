--------------------------- MODULE DerivativesProofs ---------------------------
(***************************************************************************)
(* Proofs about Derivatives: retained claims are kept, claims that are not    *)
(* retained go with the instance that created them, and the Deployments show  *)
(* the app once everything is at rest.                                        *)
(***************************************************************************)
EXTENDS Derivatives, TLAPS

(* The shape of the work *)

LEMMA ArtifactsTyped ==
  ASSUME NEW i \in Insts, NEW content \in AppContents
  PROVE  /\ Artifacts(i, content) \subseteq Artifact
         /\ \A a \in Artifacts(i, content) :
              /\ a.id = i
              /\ a.retain => a.name.kind = "claim"
              /\ a.name.kind = "deployment" => a.name.name = i
         /\ \E a \in Artifacts(i, content) : a.name = [kind |-> "deployment", name |-> i]
<1> DEFINE New(kind, name, retain, data) ==
        [name |-> [kind |-> kind, name |-> name], id |-> i, retain |-> retain, data |-> data]
<1>1. /\ content.image \in Images /\ content.services \subseteq Containers
      /\ content.claims \in [Claims -> {"none", "plain", "retain"}]
  BY ContentsAssumption
<1>2. \A a \in Artifacts(i, content) :
        \/ a = New("deployment", i, FALSE, content.image)
        \/ \E c \in Claims : a = New("claim", c, content.claims[c] = "retain", Nil)
        \/ \E s \in content.services : a = New("service", i, FALSE, s)
  BY DEF Artifacts
<1>3. New("deployment", i, FALSE, content.image) \in Artifacts(i, content)
  BY DEF Artifacts
<1>4. New("deployment", i, FALSE, content.image).name = [kind |-> "deployment", name |-> i]
  OBVIOUS
<1>5. ASSUME NEW a \in Artifacts(i, content)
      PROVE  /\ a \in Artifact /\ a.id = i
             /\ a.retain => a.name.kind = "claim"
             /\ a.name.kind = "deployment" => a.name.name = i
  <2>1. CASE a = New("deployment", i, FALSE, content.image)
    BY <1>1, <2>1 DEF Artifact, Name
  <2>2. ASSUME NEW c \in Claims, a = New("claim", c, content.claims[c] = "retain", Nil)
        PROVE  /\ a \in Artifact /\ a.id = i
               /\ a.retain => a.name.kind = "claim"
               /\ a.name.kind = "deployment" => a.name.name = i
    BY <2>2 DEF Artifact, Name
  <2>3. ASSUME NEW s \in content.services, a = New("service", i, FALSE, s)
        PROVE  /\ a \in Artifact /\ a.id = i
               /\ a.retain => a.name.kind = "claim"
               /\ a.name.kind = "deployment" => a.name.name = i
    BY <1>1, <2>3 DEF Artifact, Name
  <2> QED BY <1>2, <2>1, <2>2, <2>3
<1> QED BY <1>3, <1>4, <1>5

WorkerTyped == \A w \in Workers :
  /\ worker[w] \in Worker
  /\ worker[w].op = "idle" => worker[w] = Idle
  /\ \A a \in worker[w].todo : a.id = worker[w].inst

LEMMA BeginTyped ==
  ASSUME NEW op \in {"create", "delete"}, NEW insts \in SUBSET Insts
  PROVE  /\ Begin(op, insts) \in Worker
         /\ Begin(op, insts).op \in {"idle", op}
         /\ Begin(op, insts).op = "idle" => Begin(op, insts) = Idle
         /\ insts # {} => Begin(op, insts).op = op
         /\ Begin(op, insts).insts = insts /\ Begin(op, insts).todo = {}
         /\ Begin(op, insts).listed = {} /\ Begin(op, insts).inst = Nil
BY DEF Begin, Idle, Worker

\* A step of one worker.
Moved(w, v) == /\ worker' = [worker EXCEPT ![w] = v]
               /\ v \in Worker /\ v.op \in {"idle", worker[w].op}
               /\ v.op = "idle" => v = Idle
               /\ \A a \in v.todo : a.id = v.inst

LEMMA MovedTyped ==
  ASSUME TypeOK, NEW w \in Workers, NEW v, Moved(w, v)
  PROVE  /\ worker' \in [Workers -> Worker]
         /\ worker'[w] = v /\ \A x \in Workers \ {w} : worker'[x] = worker[x]
         /\ \A x \in Workers : /\ worker'[x].op = "idle" => worker'[x] = Idle
                               /\ \A a \in worker'[x].todo : a.id = worker'[x].inst
<1>1. /\ worker' \in [Workers -> Worker]
      /\ worker'[w] = v /\ \A x \in Workers \ {w} : worker'[x] = worker[x]
  BY DEF TypeOK, Moved
<1> QED BY <1>1 DEF TypeOK, Moved

LEMMA TypedWorker ==
  ASSUME TypeOK, NEW w \in Workers
  PROVE  /\ worker[w] \in Worker
         /\ worker[w].op = "idle" => worker[w] = Idle
         /\ \A a \in worker[w].todo : a \in Artifact /\ a.id = worker[w].inst
BY DEF TypeOK, Worker

LEMMA GenerateMoves ==
  ASSUME TypeOK, NEW w \in Workers, NEW i \in worker[w].insts, Generate(w, i)
  PROVE  \E v : /\ Moved(w, v)
                /\ worker[w].op = "create"
                /\ v.insts = worker[w].insts \ {i} /\ v.listed \subseteq worker[w].listed
                /\ v.insts # {} => v.op = "create"
                /\ \/ (table = Nil \/ table \in Bare) /\ v.todo = {}
                   \/ /\ table \in AppContents /\ v.op = "create" /\ v.inst = i
                      /\ v.todo = Artifacts(i, table)
<1>1. worker[w] \in Worker /\ worker[w].op = "create" /\ i \in Insts
  BY TypedWorker DEF Generate, Worker
<1>2. CASE ~HasArtifacts
  <2> DEFINE v == Begin("create", worker[w].insts \ {i})
  <2>1. worker' = [worker EXCEPT ![w] = v]
    BY <1>2 DEF Generate
  <2>2. worker[w].insts \ {i} \in SUBSET Insts
    BY <1>1 DEF Worker
  <2>3. /\ v \in Worker /\ v.op \in {"idle", "create"} /\ (v.op = "idle" => v = Idle)
        /\ v.insts = worker[w].insts \ {i} /\ v.todo = {} /\ v.listed = {}
        /\ v.insts # {} => v.op = "create"
    BY <2>2, BeginTyped
  <2> HIDE DEF v
  <2>4. Moved(w, v)
    BY <1>1, <2>1, <2>3 DEF Moved
  <2> QED BY <1>1, <1>2, <2>3, <2>4 DEF HasArtifacts
<1>3. CASE HasArtifacts
  <2> DEFINE v == [worker[w] EXCEPT !.insts = @ \ {i}, !.inst = i, !.todo = Artifacts(i, table)]
  <2>1. worker' = [worker EXCEPT ![w] = v]
    BY <1>3 DEF Generate
  <2>2. table \in AppContents
    BY <1>3 DEF HasArtifacts, TypeOK
  <2>3. /\ Artifacts(i, table) \subseteq Artifact
        /\ \A a \in Artifacts(i, table) : a.id = i
    <3>1. i \in Insts
      BY <1>1
    <3> QED BY <2>2, <3>1, ArtifactsTyped
  <2>4. /\ v \in Worker /\ v.op = "create" /\ v.insts = worker[w].insts \ {i} /\ v.inst = i
        /\ v.todo = Artifacts(i, table) /\ v.listed = worker[w].listed
    BY <1>1, <2>3 DEF Worker
  <2> HIDE DEF v
  <2>5. Moved(w, v)
    BY <1>1, <2>1, <2>3, <2>4 DEF Moved
  <2> QED BY <1>1, <2>2, <2>4, <2>5
<1> QED BY <1>2, <1>3

LEMMA GenerateFailsMoves ==
  ASSUME TypeOK, NEW w \in Workers, NEW i \in worker[w].insts, GenerateFails(w, i)
  PROVE  Moved(w, Idle)
<1>1. worker[w].op = "create" /\ worker' = [worker EXCEPT ![w] = Idle]
  BY DEF GenerateFails
<1>2. Idle \in Worker /\ Idle.op = "idle" /\ Idle.todo = {}
  BY DEF Idle, Worker
<1> QED BY <1>1, <1>2 DEF Moved

LEMMA AppliedMoves ==
  ASSUME TypeOK, NEW w \in Workers, NEW a \in worker[w].todo, NEW failed \in BOOLEAN,
         Applied(w, a, failed)
  PROVE  \E v : /\ Moved(w, v)
                /\ v.listed \subseteq worker[w].listed /\ v.todo \subseteq worker[w].todo
                /\ v.insts = worker[w].insts \/ (v = Idle /\ failed)
                /\ v.op = worker[w].op \/ v = Idle
                /\ v.insts # {} => v.op = worker[w].op
                /\ (worker[w].todo \ {a} # {} /\ ~(failed /\ a.name.kind = "deployment"))
                     => /\ v.op = worker[w].op /\ v.inst = worker[w].inst
                        /\ v.todo = worker[w].todo \ {a}
<1> DEFINE rest == worker[w].todo \ {a}
<1>1. worker[w] \in Worker /\ worker[w].op \in {"create", "delete"}
      /\ \A b \in worker[w].todo : b \in Artifact /\ b.id = worker[w].inst
  <2>1. worker[w].op # "idle"
    BY TypedWorker DEF Idle
  <2> QED BY <2>1, TypedWorker DEF Worker
<1>2. CASE ~failed /\ rest = {}
  <2> DEFINE v == Begin(worker[w].op, worker[w].insts)
  <2>1. worker' = [worker EXCEPT ![w] = v]
    BY <1>2 DEF Applied, NextInst
  <2>2. /\ v \in Worker /\ v.op \in {"idle", worker[w].op} /\ (v.op = "idle" => v = Idle)
        /\ v.insts = worker[w].insts /\ v.todo = {} /\ v.listed = {}
        /\ v.insts # {} => v.op = worker[w].op
    BY <1>1, BeginTyped DEF Worker
  <2> HIDE DEF v
  <2>3. Moved(w, v)
    BY <2>1, <2>2 DEF Moved
  <2> QED BY <1>2, <2>2, <2>3
<1>3. CASE failed /\ (rest = {} \/ a.name.kind = "deployment")
  <2>1. worker' = [worker EXCEPT ![w] = Idle]
    BY <1>3 DEF Applied
  <2>2. Idle \in Worker /\ Idle.op = "idle" /\ Idle.todo = {} /\ Idle.listed = {} /\ Idle.insts = {}
    BY DEF Idle, Worker
  <2>3. Moved(w, Idle)
    BY <2>1, <2>2 DEF Moved
  <2> QED BY <1>3, <2>2, <2>3
<1>4. CASE rest # {} /\ ~(failed /\ a.name.kind = "deployment")
  <2> DEFINE v == [worker[w] EXCEPT !.todo = rest]
  <2>1. worker' = [worker EXCEPT ![w] = v]
    BY <1>4 DEF Applied
  <2>2. /\ v \in Worker /\ v.op = worker[w].op /\ v.insts = worker[w].insts /\ v.todo = rest
        /\ v.listed = worker[w].listed /\ v.inst = worker[w].inst
    BY <1>1 DEF Worker
  <2> HIDE DEF v
  <2>3. Moved(w, v)
    BY <1>1, <2>1, <2>2 DEF Moved
  <2> QED BY <2>2, <2>3
<1> QED BY <1>2, <1>3, <1>4

LEMMA ListMoves ==
  ASSUME TypeOK, NEW w \in Workers, NEW i \in Insts, List(w, i)
  PROVE  \E v : /\ Moved(w, v)
                /\ worker[w].op = "delete"
                /\ v.todo = {} \/ v.todo = worker[w].todo
                /\ v.listed = {} \/ \E kind : v.listed = Listed(kind, i)
<1>1. worker[w] \in Worker /\ worker[w].op = "delete"
      /\ \A b \in worker[w].todo : b.id = worker[w].inst
  BY TypedWorker DEF List
<1>2. CASE worker[w].kind = "service"
  <2> DEFINE v == Begin(worker[w].op, worker[w].insts)
  <2>1. worker' = [worker EXCEPT ![w] = v]
    BY <1>2 DEF List, NextInst
  <2>2. /\ v \in Worker /\ v.op \in {"idle", worker[w].op} /\ (v.op = "idle" => v = Idle)
        /\ v.todo = {} /\ v.listed = {}
    BY <1>1, BeginTyped DEF Worker
  <2> HIDE DEF v
  <2>3. Moved(w, v)
    BY <2>1, <2>2 DEF Moved
  <2> QED BY <1>1, <2>2, <2>3
<1>3. CASE worker[w].kind # "service"
  <2> DEFINE kind == After(worker[w].kind)
             listed == Listed(kind, i)
             v == [worker[w] EXCEPT !.insts = @ \ {i}, !.inst = i, !.kind = kind, !.listed = listed]
  <2>1. worker' = [worker EXCEPT ![w] = v]
    BY <1>3 DEF List
  <2>2. kind \in {"deployment", "claim", "service"}
    BY <1>1, <1>3 DEF After, Worker
  <2>3. listed \in SUBSET [name : Name, born : Nat]
    BY DEF Listed, TypeOK, Object
  <2> HIDE DEF kind, listed
  <2>4. /\ v \in Worker /\ v.op = worker[w].op /\ v.inst = i /\ v.todo = worker[w].todo
        /\ v.listed = listed
    BY <1>1, <2>2, <2>3 DEF Worker
  <2>5. \A b \in v.todo : b.id = v.inst
    <3>1. worker[w].inst \in {Nil, i}
      BY <1>1 DEF List, Handled
    <3>2. \A b \in worker[w].todo : b.id \in Insts
      BY <1>1 DEF Worker, Artifact
    <3> QED BY <1>1, <2>4, <3>1, <3>2, ApartAssumption
  <2> HIDE DEF v
  <2>6. Moved(w, v)
    BY <1>1, <2>1, <2>4, <2>5 DEF Moved
  <2> QED BY <1>1, <2>4, <2>6 DEF listed
<1> QED BY <1>2, <1>3

LEMMA DeleteListedMoves ==
  ASSUME TypeOK, NEW w \in Workers, NEW x \in worker[w].listed, DeleteListed(w, x)
  PROVE  \E v : /\ Moved(w, v)
                /\ v.todo = {} \/ v.todo = worker[w].todo
                /\ v.listed \subseteq worker[w].listed
                /\ v.insts = worker[w].insts /\ v.inst \in {Nil, worker[w].inst}
<1>1. worker[w] \in Worker /\ worker[w].op \in {"create", "delete"}
      /\ \A b \in worker[w].todo : b.id = worker[w].inst
  <2>1. worker[w].op # "idle"
    BY TypedWorker DEF Idle
  <2> QED BY <2>1, TypedWorker DEF Worker
<1>2. CASE worker' = [worker EXCEPT ![w].listed = @ \ {x}]
  <2> DEFINE v == [worker[w] EXCEPT !.listed = @ \ {x}]
  <2>1. worker' = [worker EXCEPT ![w] = v]
    BY <1>2
  <2>2. /\ v \in Worker /\ v.op = worker[w].op /\ v.todo = worker[w].todo
        /\ v.inst = worker[w].inst /\ v.listed = worker[w].listed \ {x}
        /\ v.insts = worker[w].insts
    BY <1>1 DEF Worker
  <2> HIDE DEF v
  <2>3. Moved(w, v)
    BY <1>1, <2>1, <2>2 DEF Moved
  <2> QED BY <2>2, <2>3
<1>3. CASE worker' = [worker EXCEPT ![w] = NextInst(w)]
  <2> DEFINE v == Begin(worker[w].op, worker[w].insts)
  <2>1. worker' = [worker EXCEPT ![w] = v]
    BY <1>3 DEF NextInst
  <2>2. /\ v \in Worker /\ v.op \in {"idle", worker[w].op} /\ (v.op = "idle" => v = Idle)
        /\ v.todo = {} /\ v.listed = {} /\ v.insts = worker[w].insts /\ v.inst = Nil
    BY <1>1, BeginTyped DEF Worker
  <2> HIDE DEF v
  <2>3. Moved(w, v)
    BY <2>1, <2>2 DEF Moved
  <2> QED BY <2>2, <2>3
<1> QED BY <1>2, <1>3 DEF DeleteListed

-----------------------------------------------------------------------------
(* What one step may do to one object *)

LEMMA CreatedTyped ==
  ASSUME TypeOK, NEW a \in Artifact
  PROVE  /\ Created(a) \in Object /\ Created(a) # Nil
         /\ Created(a).born = births[a.name] + 1 /\ Created(a).kept = a.retain
         /\ Created(a).retain = a.retain /\ Created(a).data = a.data
         /\ Created(a).owner = (IF a.retain THEN Nil ELSE a.id) /\ ~Created(a).terminating
<1>1. births[a.name] + 1 \in Nat
  BY DEF TypeOK, Artifact
<1>2. Created(a) \in Object
  BY <1>1 DEF Created, Object, Artifact
<1> QED BY <1>2, NilObjectAssumption DEF Created

LEMMA PatchedTyped ==
  ASSUME TypeOK, NEW a \in Artifact, CanPatch(a)
  PROVE  /\ objects[a.name] \in Object /\ seen[a.name] \in Object
         /\ \/ /\ Patched(a) = Nil
               /\ a.name.kind # "claim" /\ objects[a.name].terminating
            \/ /\ Patched(a) \in Object /\ Patched(a) # Nil
               /\ Patched(a).born = objects[a.name].born /\ Patched(a).kept = objects[a.name].kept
               /\ Patched(a).terminating = objects[a.name].terminating
               /\ Patched(a).owner = objects[a.name].owner
                    \/ (Patched(a).owner = Nil /\ a.name.kind # "claim")
               /\ Patched(a).retain => objects[a.name].retain \/ a.retain
               /\ a.name.kind = "claim" => (objects[a.name].retain => Patched(a).retain)
<1> DEFINE now == objects[a.name]
           got == seen[a.name]
           removes == a.name.kind # "claim"
<1>1. now \in Object /\ got \in Object
  BY DEF TypeOK, CanPatch, Artifact
<1>2. removes => (got.terminating => now.terminating)
  BY DEF CanPatch, AcceptsRemoval
<1>3. CASE removes /\ got.terminating
  BY <1>1, <1>2, <1>3 DEF Patched, AcceptsRemoval
<1>4. CASE ~(removes /\ got.terminating)
  <2> DEFINE id == IF got.id = a.id THEN now.id ELSE a.id
             retain == /\ now.retain \/ (a.retain /\ ~got.retain)
                       /\ ~(removes /\ got.retain /\ ~a.retain)
             owner == IF removes /\ got.owner # Nil THEN Nil ELSE now.owner
             data == IF got.data = a.data THEN now.data ELSE a.data
             v == [now EXCEPT !.id = id, !.retain = retain, !.owner = owner, !.data = data]
  <2>1. Patched(a) = v
    BY <1>4 DEF Patched, AcceptsRemoval
  <2>2. id \in Insts /\ retain \in BOOLEAN /\ owner \in Insts \cup {Nil}
        /\ data \in Images \cup Containers \cup {Nil}
    BY <1>1 DEF Object, Artifact
  <2>3. /\ retain => now.retain \/ a.retain
        /\ ~removes => (now.retain => retain)
        /\ owner = now.owner \/ (owner = Nil /\ removes)
    OBVIOUS
  <2> HIDE DEF id, retain, owner, data
  <2>4. /\ v.born = now.born /\ v.kept = now.kept /\ v.terminating = now.terminating
        /\ v.owner = owner /\ v.retain = retain /\ v \in Object
    BY <1>1, <2>2 DEF Object
  <2>5. v # Nil
    BY <2>4, NilObjectAssumption
  <2> HIDE DEF v
  <2> QED BY <1>1, <2>1, <2>3, <2>4, <2>5
<1> QED BY <1>1, <1>3, <1>4

Todo(n, a) == a.name = n /\ \E w \in Workers : a \in worker[w].todo
Creates(n) == \E a \in Artifact : /\ Todo(n, a) /\ objects[n] = Nil
                                  /\ objects'[n] = Created(a) /\ births'[n] = births[n] + 1
Patches(n) == \E a \in Artifact : /\ Todo(n, a) /\ CanPatch(a) /\ objects'[n] = Patched(a)
                                  /\ births'[n] = births[n]
Marks(n) == /\ objects[n] # Nil /\ births'[n] = births[n]
            /\ \/ \E w \in Workers : \E x \in worker[w].listed : x.name = n
               \/ Garbage(n)
            /\ objects'[n] = [objects[n] EXCEPT !.terminating = TRUE]
Vanishes(n) == /\ objects[n] # Nil /\ births'[n] = births[n]
               /\ objects[n].terminating \/ (Garbage(n) /\ n.kind # "claim")
               /\ objects'[n] = Nil
Rests(n) == objects'[n] = objects[n] /\ births'[n] = births[n]
Changes(n) == Creates(n) \/ Patches(n) \/ Marks(n) \/ Vanishes(n)

LEMMA ObjectSteps ==
  ASSUME TypeOK, [Next]_vars
  PROVE  /\ objects' = [n \in Name |-> objects'[n]] /\ births' = [n \in Name |-> births'[n]]
         /\ \A n \in Name : Rests(n) \/ Changes(n)
<1> DEFINE Only(n) == /\ objects' = [m \in Name |-> objects'[m]]
                      /\ births' = [m \in Name |-> births'[m]]
                      /\ \A m \in Name \ {n} : Rests(m)
<1>d. objects = [n \in Name |-> objects[n]] /\ births = [n \in Name |-> births[n]]
  BY DEF TypeOK
<1>0. CASE UNCHANGED clusterVars
  BY <1>0, <1>d DEF clusterVars, Rests
<1>1. ASSUME NEW w \in Workers, NEW a \in worker[w].todo,
             CreateResource(w, a) \/ PatchResource(w, a)
      PROVE  a.name \in Name /\ Only(a.name) /\ Changes(a.name)
  <2>1. a \in Artifact /\ Todo(a.name, a)
    BY TypedWorker DEF Todo
  <2>2. a.name \in Name
    BY <2>1 DEF Artifact
  <2>3. CASE CreateResource(w, a)
    <3>1. /\ objects[a.name] = Nil /\ objects' = [objects EXCEPT ![a.name] = Created(a)]
          /\ births' = [births EXCEPT ![a.name] = @ + 1]
      BY <2>3 DEF CreateResource, CanCreate
    <3>2. Only(a.name) /\ objects'[a.name] = Created(a) /\ births'[a.name] = births[a.name] + 1
      BY <1>d, <2>2, <3>1 DEF Rests
    <3> QED BY <2>1, <2>2, <3>1, <3>2 DEF Changes, Creates
  <2>4. CASE PatchResource(w, a)
    <3>1. /\ CanPatch(a) /\ objects' = [objects EXCEPT ![a.name] = Patched(a)]
          /\ births' = births
      BY <2>4 DEF PatchResource
    <3>2. Only(a.name) /\ objects'[a.name] = Patched(a) /\ births'[a.name] = births[a.name]
      BY <1>d, <2>2, <3>1 DEF Rests
    <3> QED BY <2>1, <2>2, <3>1, <3>2 DEF Changes, Patches
  <2> QED BY <1>1, <2>2, <2>3, <2>4
<1>2. ASSUME NEW w \in Workers, NEW x \in worker[w].listed, DeleteListed(w, x),
             ~UNCHANGED clusterVars
      PROVE  x.name \in Name /\ Only(x.name) /\ Changes(x.name)
  <2>1. x.name \in Name
    BY TypedWorker DEF Worker
  <2>2. /\ objects[x.name] # Nil /\ births' = births
        /\ objects' = [objects EXCEPT ![x.name].terminating = TRUE]
    BY <1>2 DEF DeleteListed, clusterVars
  <2>3. Only(x.name) /\ objects'[x.name] = [objects[x.name] EXCEPT !.terminating = TRUE]
        /\ births'[x.name] = births[x.name]
    BY <1>d, <2>1, <2>2 DEF Rests
  <2> QED BY <2>1, <2>2, <2>3 DEF Changes, Marks
<1>3. ASSUME NEW n \in Name, Terminate(n)
      PROVE  Only(n) /\ Changes(n)
  <2>1. /\ objects[n] # Nil /\ objects[n].terminating /\ births' = births
        /\ objects' = [objects EXCEPT ![n] = Nil]
    BY <1>3 DEF Terminate
  <2>2. Only(n) /\ objects'[n] = Nil /\ births'[n] = births[n]
    BY <1>d, <2>1 DEF Rests
  <2> QED BY <2>1, <2>2 DEF Changes, Vanishes
<1>4. ASSUME NEW n \in Name, CollectGarbage(n)
      PROVE  Only(n) /\ Changes(n)
  <2> DEFINE v == IF n.kind = "claim" THEN [objects[n] EXCEPT !.terminating = TRUE] ELSE Nil
  <2>1. /\ Garbage(n) /\ objects[n] # Nil /\ births' = births
        /\ objects' = [objects EXCEPT ![n] = v]
    BY <1>4 DEF CollectGarbage, Garbage
  <2>2. Only(n) /\ objects'[n] = v /\ births'[n] = births[n]
    <3> HIDE DEF v
    <3> QED BY <1>d, <2>1 DEF Rests
  <2> QED BY <2>1, <2>2 DEF Changes, Vanishes, Marks
<1> HIDE DEF Only
<1>5. UNCHANGED clusterVars \/ \E n \in Name : Only(n) /\ Changes(n)
  <2>1. ASSUME NEW w \in Workers, Work(w)
        PROVE  UNCHANGED clusterVars \/ \E n \in Name : Only(n) /\ Changes(n)
    <3>1. CASE \E a \in worker[w].todo : CreateResource(w, a) \/ PatchResource(w, a)
      BY <3>1, <1>1
    <3>2. CASE \E x \in worker[w].listed : DeleteListed(w, x)
      BY <3>2, <1>2
    <3>3. CASE \/ \E i \in worker[w].insts : Generate(w, i) \/ GenerateFails(w, i)
               \/ \E a \in worker[w].todo : FailResource(w, a)
               \/ \E i \in Insts : List(w, i)
      BY <3>3 DEF Generate, GenerateFails, FailResource, List
    <3> QED BY <2>1, <3>1, <3>2, <3>3 DEF Work
  <2>2. ASSUME NEW n \in Name, Sync(n) \/ Terminate(n) \/ CollectGarbage(n)
        PROVE  UNCHANGED clusterVars \/ (Only(n) /\ Changes(n))
    BY <2>2, <1>3, <1>4 DEF Sync
  <2>3. CASE \/ \E i \in Insts : DeleteInst(i) \/ ReconcileInst(i)
             \/ \E content \in AppContents \cup {Nil} : EditApp(content)
             \/ ReconcileApp
    BY <2>3 DEF DeleteInst, ReconcileInst, EditApp, ReconcileApp
  <2>4. CASE UNCHANGED vars
    BY <2>4 DEF vars
  <2> QED BY <2>1, <2>2, <2>3, <2>4 DEF Next
<1>6. ASSUME NEW n \in Name, Only(n), Changes(n)
      PROVE  /\ objects' = [m \in Name |-> objects'[m]] /\ births' = [m \in Name |-> births'[m]]
             /\ \A m \in Name : Rests(m) \/ Changes(m)
  BY <1>6 DEF Only
<1> QED BY <1>0, <1>5, <1>6

-----------------------------------------------------------------------------
(* Types *)

LEMMA WorkMoves ==
  ASSUME TypeOK, NEW w \in Workers, Work(w)
  PROVE  \E v : /\ Moved(w, v)
                /\ \A a \in v.todo : a \in worker[w].todo \/ \E i \in Insts :
                                       table \in AppContents /\ a \in Artifacts(i, table)
                /\ \A x \in v.listed :
                     \/ x \in worker[w].listed
                     \/ worker[w].op = "delete" /\ \E kind, i : x \in Listed(kind, i)
<1>1. CASE \E i \in worker[w].insts : Generate(w, i)
  <2>1. worker[w].insts \subseteq Insts
    BY TypedWorker DEF Worker
  <2> QED BY <1>1, <2>1, GenerateMoves
<1>2. ASSUME NEW a \in worker[w].todo,
             CreateResource(w, a) \/ PatchResource(w, a) \/ FailResource(w, a)
      PROVE  \E v : /\ Moved(w, v)
                    /\ v.listed \subseteq worker[w].listed /\ v.todo \subseteq worker[w].todo
  <2>1. Applied(w, a, FALSE) \/ Applied(w, a, TRUE)
    BY <1>2 DEF CreateResource, PatchResource, FailResource
  <2>2. \A failed \in BOOLEAN : Applied(w, a, failed) =>
          \E v : /\ Moved(w, v)
                 /\ v.listed \subseteq worker[w].listed /\ v.todo \subseteq worker[w].todo
    BY AppliedMoves
  <2> QED BY <2>1, <2>2
<1>3. CASE \E i \in Insts : List(w, i)
  BY <1>3, ListMoves
<1>4. CASE \E x \in worker[w].listed : DeleteListed(w, x)
  BY <1>4, DeleteListedMoves
<1>5. CASE \E i \in worker[w].insts : GenerateFails(w, i)
  <2>1. Idle.todo = {} /\ Idle.listed = {}
    BY DEF Idle
  <2> QED BY <1>5, <2>1, GenerateFailsMoves
<1> QED BY <1>1, <1>2, <1>3, <1>4, <1>5 DEF Work

LEMMA NextWorkerTyped ==
  ASSUME TypeOK, [Next]_vars
  PROVE  /\ worker' \in [Workers -> Worker]
         /\ \A x \in Workers : /\ worker'[x].op = "idle" => worker'[x] = Idle
                               /\ \A a \in worker'[x].todo : a.id = worker'[x].inst
<1>1. ASSUME NEW w \in Workers, Work(w)
      PROVE  \E v : Moved(w, v)
  BY <1>1, WorkMoves
<1>2. CASE UNCHANGED worker
  BY <1>2 DEF TypeOK
<1>3. ASSUME NEW w \in Workers, NEW op \in {"create", "delete"}, NEW insts \in SUBSET Insts,
             worker[w] = Idle, worker' = [worker EXCEPT ![w] = Begin(op, insts)]
      PROVE  /\ worker' \in [Workers -> Worker]
             /\ \A x \in Workers : /\ worker'[x].op = "idle" => worker'[x] = Idle
                                   /\ \A a \in worker'[x].todo : a.id = worker'[x].inst
  <2> DEFINE v == Begin(op, insts)
  <2>1. v \in Worker /\ (v.op = "idle" => v = Idle) /\ v.todo = {}
    BY BeginTyped
  <2> HIDE DEF v
  <2>2. worker' = [worker EXCEPT ![w] = v]
    BY <1>3 DEF v
  <2> QED BY <2>1, <2>2 DEF TypeOK
<1>4. CASE ReconcileApp
  <2>1. known \in SUBSET Insts /\ "app" \in Workers
    BY DEF TypeOK, Workers
  <2>2. /\ worker["app"] = Idle
        /\ \/ worker' = [worker EXCEPT !["app"] = Begin("delete", known)]
           \/ worker' = [worker EXCEPT !["app"] = Begin("create", known)]
    BY <1>4 DEF ReconcileApp
  <2> QED BY <1>3, <2>1, <2>2
<1>5. ASSUME NEW i \in Insts, ReconcileInst(i), ~UNCHANGED worker
      PROVE  worker["inst"] = Idle /\ worker' = [worker EXCEPT !["inst"] = Begin("create", {i})]
  BY <1>5 DEF ReconcileInst
<1>6. \/ UNCHANGED worker \/ ReconcileApp
      \/ \E i \in Insts : ReconcileInst(i) /\ ~UNCHANGED worker
      \/ \E w \in Workers : Work(w)
  BY DEF Next, vars, DeleteInst, EditApp, Sync, Terminate, CollectGarbage
<1>7. ASSUME NEW i \in Insts, ReconcileInst(i), ~UNCHANGED worker
      PROVE  /\ worker' \in [Workers -> Worker]
             /\ \A x \in Workers : /\ worker'[x].op = "idle" => worker'[x] = Idle
                                   /\ \A a \in worker'[x].todo : a.id = worker'[x].inst
  <2>1. "inst" \in Workers /\ {i} \in SUBSET Insts
    BY DEF Workers
  <2> QED BY <1>3, <1>5, <1>7, <2>1
<1> QED BY <1>1, <1>2, <1>4, <1>6, <1>7, MovedTyped

LEMMA OutdatedTyped ==
  ASSUME TypeOK, [Next]_vars
  PROVE  outdated' \subseteq Insts
<1>1. ASSUME NEW w \in Workers, NEW a \in worker[w].todo,
             CreateResource(w, a) \/ PatchResource(w, a) \/ FailResource(w, a)
      PROVE  outdated' \subseteq Insts
  <2>1. a.id \in Insts /\ worker[w].insts \subseteq Insts
    BY TypedWorker DEF Artifact, Worker
  <2> QED BY <1>1, <2>1 DEF CreateResource, PatchResource, FailResource, Judged, TypeOK
<1>2. ASSUME NEW w \in Workers, Work(w)
      PROVE  outdated' \subseteq Insts
  <2>1. worker[w].insts \subseteq Insts
    BY TypedWorker DEF Worker
  <2> QED BY <1>1, <1>2, <2>1 DEF Work, Generate, GenerateFails, List, DeleteListed, TypeOK
<1>3. UNCHANGED outdated \/ \E w \in Workers : Work(w)
  BY DEF Next, vars, DeleteInst, ReconcileInst, EditApp, ReconcileApp, Sync, Terminate, CollectGarbage
<1> QED BY <1>2, <1>3 DEF TypeOK

LEMMA NextTypeOK == TypeOK /\ [Next]_vars => TypeOK'
<1> SUFFICES ASSUME TypeOK, [Next]_vars PROVE TypeOK'
  OBVIOUS
<1>1. \A w \in Workers : Work(w) => UNCHANGED <<graphVars, edits, seen>>
  BY DEF Work, Generate, GenerateFails, CreateResource, PatchResource, FailResource, List, DeleteListed
<1>2. /\ app' \in AppContents \cup {Nil} /\ table' \in AppContents \cup {Nil}
      /\ live' \subseteq Insts /\ known' \subseteq Insts
      /\ changed' \subseteq Insts \cup {"app"} /\ edits' \in 0..MaxEdits
  <2>1. CASE UNCHANGED <<graphVars, edits>>
    BY <2>1 DEF graphVars, TypeOK
  <2>2. ASSUME NEW i \in Insts, DeleteInst(i) \/ ReconcileInst(i)
        PROVE  UNCHANGED <<app, table, edits>> /\ live' \subseteq live /\ known' \subseteq known \cup {i}
               /\ changed' \subseteq changed \cup {i}
    BY <2>2 DEF DeleteInst, ReconcileInst
  <2>3. ASSUME NEW content \in AppContents \cup {Nil}, EditApp(content)
        PROVE  UNCHANGED <<table, live, known>> /\ app' = content /\ changed' = changed \cup {"app"}
               /\ edits < MaxEdits /\ edits' = edits + 1
    BY <2>3 DEF EditApp
  <2>4. CASE ReconcileApp
    BY <2>4 DEF ReconcileApp, TypeOK
  <2>5. \/ UNCHANGED <<graphVars, edits>>
        \/ \E i \in Insts : DeleteInst(i) \/ ReconcileInst(i)
        \/ \E content \in AppContents \cup {Nil} : EditApp(content)
        \/ ReconcileApp
    BY <1>1 DEF Next, vars, Sync, Terminate, CollectGarbage
  <2>6. ASSUME NEW content \in AppContents \cup {Nil}, EditApp(content)
        PROVE  edits' \in 0..MaxEdits
    BY <2>3, <2>6, LimitsAssumption DEF TypeOK
  <2> QED BY <2>1, <2>2, <2>3, <2>4, <2>5, <2>6 DEF TypeOK
<1>3. objects' \in [Name -> Object \cup {Nil}] /\ births' \in [Name -> Nat]
  <2>1. ASSUME NEW n \in Name
        PROVE  objects'[n] \in Object \cup {Nil} /\ births'[n] \in Nat
    <3>1. objects[n] \in Object \cup {Nil} /\ births[n] \in Nat
      BY DEF TypeOK
    <3>2. CASE Creates(n)
      BY <3>1, <3>2, CreatedTyped DEF Creates
    <3>3. CASE Patches(n)
      BY <3>1, <3>3, PatchedTyped DEF Patches
    <3>4. CASE Marks(n)
      BY <3>1, <3>4 DEF Marks, Object
    <3>5. CASE Vanishes(n)
      BY <3>1, <3>5 DEF Vanishes
    <3> QED BY <3>1, <3>2, <3>3, <3>4, <3>5, ObjectSteps DEF Rests, Changes
  <2> QED BY <2>1, ObjectSteps
<1>4. seen' \in [Name -> Object \cup {Nil}]
  <2>1. ASSUME NEW n \in Name, Sync(n)
        PROVE  seen' \in [Name -> Object \cup {Nil}]
    BY <2>1 DEF Sync, TypeOK
  <2>2. UNCHANGED seen \/ \E n \in Name : Sync(n)
    BY <1>1 DEF Next, vars, DeleteInst, ReconcileInst, EditApp, ReconcileApp, Terminate, CollectGarbage
  <2> QED BY <2>1, <2>2 DEF TypeOK
<1> QED BY <1>2, <1>3, <1>4, NextWorkerTyped, OutdatedTyped DEF TypeOK

LEMMA InitTypeOK == Init => TypeOK
BY LimitsAssumption DEF Init, TypeOK, Worker, Workers, Idle

\* Every object is whole, every artifact a worker holds belongs to the instance it is
\* at, and an idle worker holds nothing (CreateDerivatives, DeleteDerivatives).
THEOREM TypeCorrect == Spec => []TypeOK
BY InitTypeOK, NextTypeOK, PTL DEF Spec

-----------------------------------------------------------------------------
(* Claims *)

\* Only claims are retained, and a Deployment is named by its instance.
ArtifactOK(a) == /\ a.retain => a.name.kind = "claim"
                 /\ a.name.kind = "deployment" => a.name.name = a.id

\* An object, on the API server or as a cache holds it: a claim has an owner or its
\* retain label, and what was created with the label has no owner.
CopyOK(n, o) == /\ o.retain => n.kind = "claim"
                /\ o.kept => o.retain /\ o.owner = Nil
                /\ n.kind = "claim" /\ o.owner = Nil => o.retain
                /\ n.kind = "deployment" => o.owner \in {n.name, Nil}

\* Copies and lists tell incarnations of a name apart, and what was listed was not
\* created with the label.
Incarnations(n) ==
  /\ (objects[n] # Nil /\ seen[n] # Nil /\ seen[n].born = objects[n].born)
       => seen[n].kept = objects[n].kept
  /\ \A w \in Workers : \A x \in worker[w].listed :
       x.name = n => /\ x.born <= births[n]
                     /\ (objects[n] # Nil /\ x.born = objects[n].born) => ~objects[n].kept

ObjectsOK ==
  /\ \A w \in Workers : \A a \in worker[w].todo : ArtifactOK(a)
  /\ \A n \in Name :
       /\ objects[n] # Nil => CopyOK(n, objects[n]) /\ objects[n].born <= births[n]
       /\ seen[n] # Nil => CopyOK(n, seen[n]) /\ seen[n].born <= births[n]
       /\ Incarnations(n)

\* A reconcile begins with instances and nothing else.
LEMMA ReconcileBegins ==
  ASSUME TypeOK, ReconcileApp \/ \E i \in Insts : ReconcileInst(i), NEW w \in Workers
  PROVE  worker'[w] = worker[w] \/ (worker'[w].todo = {} /\ worker'[w].listed = {})
<1>1. \A op, insts : Begin(op, insts).todo = {} /\ Begin(op, insts).listed = {}
  BY DEF Begin, Idle
<1>2. \/ worker' = worker
      \/ \E y \in Workers : \E op, insts : worker' = [worker EXCEPT ![y] = Begin(op, insts)]
  BY DEF ReconcileApp, ReconcileInst, Workers
<1> QED BY <1>1, <1>2 DEF TypeOK

\* What a worker lists, it finds in the cache without the label.
LEMMA ListedFound ==
  ASSUME TypeOK, [Next]_vars, NEW w \in Workers, NEW x \in worker'[w].listed
  PROVE  \/ x \in worker[w].listed
         \/ /\ x.name \in Name /\ seen[x.name] # Nil
            /\ x.born = seen[x.name].born /\ ~seen[x.name].retain
<1>1. ASSUME NEW y \in Workers, Work(y)
      PROVE  \/ x \in worker[w].listed
             \/ \E kind, i : x \in Listed(kind, i)
  <2>1. PICK v : /\ Moved(y, v)
                 /\ \A z \in v.listed : z \in worker[y].listed \/ \E kind, i : z \in Listed(kind, i)
    BY <1>1, WorkMoves
  <2>2. worker'[y] = v /\ \A z \in Workers \ {y} : worker'[z] = worker[z]
    BY <2>1, MovedTyped
  <2> QED BY <2>1, <2>2
<1>2. CASE \E kind, i : x \in Listed(kind, i)
  BY <1>2 DEF Listed
<1>3. CASE ReconcileApp \/ \E i \in Insts : ReconcileInst(i)
  BY <1>3, ReconcileBegins
<1>4. \/ UNCHANGED worker \/ ReconcileApp \/ (\E i \in Insts : ReconcileInst(i))
      \/ \E y \in Workers : Work(y)
  BY DEF Next, vars, DeleteInst, EditApp, Sync, Terminate, CollectGarbage
<1> QED BY <1>1, <1>2, <1>3, <1>4

LEMMA ArtifactsOK ==
  ASSUME TypeOK, ObjectsOK, [Next]_vars
  PROVE  \A w \in Workers : \A a \in worker'[w].todo : ArtifactOK(a)
<1> SUFFICES ASSUME NEW w \in Workers, NEW a \in worker'[w].todo PROVE ArtifactOK(a)
  OBVIOUS
<1>1. ASSUME NEW y \in Workers, Work(y)
      PROVE  a \in worker[w].todo \/ \E i \in Insts : table \in AppContents /\ a \in Artifacts(i, table)
  <2>1. PICK v : /\ Moved(y, v)
                 /\ \A b \in v.todo : b \in worker[y].todo \/ \E i \in Insts :
                                       table \in AppContents /\ b \in Artifacts(i, table)
    BY <1>1, WorkMoves
  <2>2. worker'[y] = v /\ \A z \in Workers \ {y} : worker'[z] = worker[z]
    BY <2>1, MovedTyped
  <2> QED BY <2>1, <2>2
<1>2. ASSUME NEW i \in Insts, table \in AppContents, a \in Artifacts(i, table)
      PROVE  ArtifactOK(a)
  <2>1. \A b \in Artifacts(i, table) :
              /\ b.id = i
              /\ b.retain => b.name.kind = "claim"
              /\ b.name.kind = "deployment" => b.name.name = i
    BY <1>2, ArtifactsTyped
  <2> QED BY <1>2, <2>1 DEF ArtifactOK
<1>3. CASE ReconcileApp \/ \E i \in Insts : ReconcileInst(i)
  BY <1>3, ReconcileBegins DEF ObjectsOK
<1>4. \/ UNCHANGED worker \/ ReconcileApp \/ (\E i \in Insts : ReconcileInst(i))
      \/ \E y \in Workers : Work(y)
  BY DEF Next, vars, DeleteInst, EditApp, Sync, Terminate, CollectGarbage
<1> QED BY <1>1, <1>2, <1>3, <1>4 DEF ObjectsOK

LEMMA NextCopyOK ==
  ASSUME TypeOK, ObjectsOK, [Next]_vars, NEW n \in Name
  PROVE  /\ births'[n] \in Nat /\ births[n] <= births'[n]
         /\ objects'[n] # Nil => CopyOK(n, objects'[n]) /\ objects'[n].born <= births'[n]
<1>1. births[n] \in Nat /\ objects[n] \in Object \cup {Nil}
  BY DEF TypeOK
<1>2. CASE Rests(n)
  BY <1>1, <1>2 DEF Rests, ObjectsOK, CopyOK
<1>3. CASE Creates(n)
  <2>1. PICK a \in Artifact : /\ Todo(n, a)
                              /\ objects'[n] = Created(a) /\ births'[n] = births[n] + 1
    BY <1>3 DEF Creates
  <2>2. ArtifactOK(a) /\ a.name = n /\ a.id \in Insts
    BY <2>1 DEF Todo, ObjectsOK, Artifact
  <2>3. /\ Created(a).born = births[n] + 1 /\ Created(a).kept = a.retain
        /\ Created(a).retain = a.retain /\ Created(a).owner = (IF a.retain THEN Nil ELSE a.id)
    BY <2>2, CreatedTyped
  <2> QED BY <1>1, <2>1, <2>2, <2>3, ApartAssumption DEF ArtifactOK, CopyOK
<1>4. CASE Patches(n)
  <2>1. PICK a \in Artifact : /\ Todo(n, a) /\ CanPatch(a) /\ objects'[n] = Patched(a)
                              /\ births'[n] = births[n]
    BY <1>4 DEF Patches
  <2>2. ArtifactOK(a) /\ a.name = n
    BY <2>1 DEF Todo, ObjectsOK
  <2>3. CopyOK(n, objects[n]) /\ objects[n] \in Object /\ objects[n].born <= births[n]
    BY <1>1, <2>1, <2>2 DEF ObjectsOK, CanPatch
  <2>4. \/ Patched(a) = Nil
        \/ /\ Patched(a).born = objects[n].born /\ Patched(a).kept = objects[n].kept
           /\ Patched(a).owner = objects[n].owner \/ (Patched(a).owner = Nil /\ n.kind # "claim")
           /\ Patched(a).retain => objects[n].retain \/ a.retain
           /\ n.kind = "claim" => (objects[n].retain => Patched(a).retain)
    BY <2>1, <2>2, PatchedTyped
  <2>5. CASE Patched(a) = Nil
    BY <1>1, <2>1, <2>5
  <2>6. CASE Patched(a) # Nil
    <3>1. CopyOK(n, Patched(a))
      BY <2>2, <2>3, <2>4, <2>6 DEF ArtifactOK, CopyOK
    <3>2. Patched(a).born <= births[n]
      BY <2>3, <2>4, <2>6
    <3> QED BY <1>1, <2>1, <3>1, <3>2
  <2> QED BY <2>5, <2>6
<1>5. CASE Marks(n)
  <2>1. CopyOK(n, objects[n]) /\ objects[n] \in Object /\ objects[n].born <= births[n]
    BY <1>1, <1>5 DEF Marks, ObjectsOK
  <2>2. /\ objects'[n].retain = objects[n].retain /\ objects'[n].kept = objects[n].kept
        /\ objects'[n].owner = objects[n].owner /\ objects'[n].born = objects[n].born
    BY <1>5, <2>1 DEF Marks, Object
  <2> QED BY <1>1, <1>5, <2>1, <2>2 DEF Marks, CopyOK
<1>6. CASE Vanishes(n)
  BY <1>1, <1>6 DEF Vanishes
<1> QED BY <1>2, <1>3, <1>4, <1>5, <1>6, ObjectSteps DEF Changes

\* What happens to a name: a new incarnation, the old one as it was created, or none.
LEMMA Continues ==
  ASSUME TypeOK, ObjectsOK, [Next]_vars, NEW n \in Name, objects'[n] # Nil
  PROVE  \/ objects[n] = Nil /\ objects'[n].born = births[n] + 1
         \/ /\ objects[n] # Nil /\ objects'[n].born = objects[n].born
            /\ objects'[n].kept = objects[n].kept
<1>1. objects[n] \in Object \cup {Nil}
  BY DEF TypeOK
<1>2. CASE Creates(n)
  BY <1>2, CreatedTyped DEF Creates, Todo
<1>3. CASE Patches(n)
  BY <1>3, PatchedTyped, NilObjectAssumption DEF Patches, Todo
<1>4. CASE Marks(n) \/ Vanishes(n) \/ Rests(n)
  BY <1>1, <1>4 DEF Marks, Vanishes, Rests, Object
<1> QED BY <1>2, <1>3, <1>4, ObjectSteps DEF Changes

LEMMA NextObjectsOK == TypeOK /\ ObjectsOK /\ [Next]_vars => ObjectsOK'
<1> SUFFICES ASSUME TypeOK, ObjectsOK, [Next]_vars PROVE ObjectsOK'
  OBVIOUS
<1>1. ASSUME NEW n \in Name, seen'[n] # Nil
      PROVE  CopyOK(n, seen'[n]) /\ seen'[n].born <= births'[n] /\ seen'[n] \in {seen[n], objects[n]}
             /\ (seen'[n] = seen[n] \/ objects'[n] = objects[n])
  <2>1. seen'[n] = seen[n] \/ (seen'[n] = objects[n] /\ objects'[n] = objects[n])
    <3>1. ASSUME NEW m \in Name, Sync(m)
          PROVE  seen'[n] = seen[n] \/ (seen'[n] = objects[n] /\ objects'[n] = objects[n])
      BY <3>1 DEF Sync, TypeOK, clusterVars
    <3>2. UNCHANGED seen \/ \E m \in Name : Sync(m)
      BY DEF Next, vars, DeleteInst, ReconcileInst, EditApp, ReconcileApp, Terminate, CollectGarbage,
             Work, Generate, GenerateFails, CreateResource, PatchResource, FailResource, List, DeleteListed
    <3> QED BY <3>1, <3>2
  <2>2. CopyOK(n, seen'[n]) /\ seen'[n].born <= births[n]
    BY <1>1, <2>1 DEF ObjectsOK
  <2>3. births'[n] \in Nat /\ births[n] \in Nat /\ births[n] <= births'[n]
        /\ seen'[n].born \in Nat
    BY <1>1, <2>1, NextCopyOK DEF TypeOK, Object
  <2>4. seen'[n].born <= births'[n]
    BY <2>2, <2>3
  <2> QED BY <2>1, <2>2, <2>4
<1>2. ASSUME NEW n \in Name
      PROVE  Incarnations(n)'
  <2>t. /\ births[n] \in Nat /\ births'[n] \in Nat /\ births[n] <= births'[n]
        /\ seen[n] \in Object \cup {Nil} /\ objects[n] \in Object \cup {Nil}
    BY NextCopyOK DEF TypeOK
  <2>1. ASSUME objects'[n] # Nil, seen'[n] # Nil, seen'[n].born = objects'[n].born
        PROVE  seen'[n].kept = objects'[n].kept
    <3>1. CASE objects'[n] = objects[n] /\ seen'[n] = objects[n]
      BY <3>1
    <3>2. CASE seen'[n] = seen[n]
      <4>1. seen[n].born \in Nat /\ seen[n].born <= births[n]
        BY <2>t, <2>1, <3>2 DEF ObjectsOK, CopyOK, Object
      <4>2. objects[n] # Nil /\ objects'[n].born = objects[n].born
            /\ objects'[n].kept = objects[n].kept
        BY <2>t, <2>1, <3>2, <4>1, Continues
      <4> QED BY <2>1, <3>2, <4>2 DEF ObjectsOK, Incarnations
    <3> QED BY <1>1, <2>1, <3>1, <3>2
  <2>2. ASSUME NEW w \in Workers, NEW x \in worker'[w].listed, x.name = n
        PROVE  /\ x.born <= births[n] /\ x.born \in Nat
               /\ (objects[n] # Nil /\ x.born = objects[n].born) => ~objects[n].kept
    <3>1. CASE x \in worker[w].listed
      <4>1. x.born \in Nat
        BY <3>1, TypedWorker DEF Worker
      <4> QED BY <2>2, <3>1, <4>1 DEF ObjectsOK, Incarnations
    <3>2. CASE seen[n] # Nil /\ x.born = seen[n].born /\ ~seen[n].retain
      <4>1. CopyOK(n, seen[n]) /\ Incarnations(n) /\ seen[n].born <= births[n]
        BY <3>2 DEF ObjectsOK
      <4> QED BY <2>t, <3>2, <4>1 DEF CopyOK, Incarnations, Object
    <3> QED BY <2>2, <3>1, <3>2, ListedFound
  <2>3. ASSUME NEW w \in Workers, NEW x \in worker'[w].listed, x.name = n
        PROVE  /\ x.born <= births'[n]
               /\ (objects'[n] # Nil /\ x.born = objects'[n].born) => ~objects'[n].kept
    <3>1. x.born <= births'[n]
      BY <2>t, <2>2, <2>3
    <3>2. ASSUME objects'[n] # Nil, x.born = objects'[n].born
          PROVE  ~objects'[n].kept
      <4>1. x.born <= births[n] /\ x.born \in Nat
        BY <2>2, <2>3
      <4>2. objects[n] # Nil /\ objects'[n].born = objects[n].born
            /\ objects'[n].kept = objects[n].kept
        BY <2>t, <3>2, <4>1, Continues
      <4> QED BY <2>2, <2>3, <3>2, <4>2
    <3> QED BY <3>1, <3>2
  <2> QED BY <2>1, <2>3 DEF Incarnations
<1> QED BY <1>1, <1>2, ArtifactsOK, NextCopyOK DEF ObjectsOK, ArtifactOK

LEMMA InitObjectsOK == Init => ObjectsOK
BY DEF Init, ObjectsOK, Incarnations, Idle

LEMMA ObjectsInductive == Spec => [](TypeOK /\ ObjectsOK)
BY InitTypeOK, NextTypeOK, InitObjectsOK, NextObjectsOK, PTL DEF Spec

\* A claim's retain label is there as long as the claim: only claims are given one,
\* the patch of a claim removes nothing, and what is created without the label in
\* place of a claim that is gone is another claim (PVCFromYAML).
THEOREM RetainLabelStays == Spec => RetainStays
<1>1. ASSUME TypeOK, ObjectsOK, [Next]_vars, NEW n \in Name,
             objects[n] # Nil, objects[n].retain, Stays(n)
      PROVE  objects'[n].retain
  <2>1. objects[n] \in Object /\ n.kind = "claim" /\ objects'[n] # Nil
    BY <1>1 DEF TypeOK, ObjectsOK, CopyOK, Stays
  <2>2. CASE Patches(n)
    BY <1>1, <2>1, <2>2, PatchedTyped DEF Patches, Todo
  <2>3. CASE Rests(n) \/ Marks(n)
    BY <1>1, <2>1, <2>3 DEF Rests, Marks, Object
  <2> QED BY <1>1, <2>1, <2>2, <2>3, ObjectSteps DEF Changes, Creates, Vanishes
<1>2. TypeOK /\ ObjectsOK /\ [Next]_vars =>
        (\A n \in Name : (objects[n] # Nil /\ objects[n].retain /\ Stays(n)) => objects'[n].retain)
  BY <1>1
<1> QED BY <1>2, ObjectsInductive, PTL DEF Spec, RetainStays

\* A claim created with the label is never deleted, but by a cascade that listed an
\* older claim of its name: it has no owner for the garbage collector to miss, no
\* patch gives it one, and whoever lists it finds the label in the cached copy, which
\* is of this incarnation or of an older one (DeleteDerivatives).
THEOREM RetainedClaimStays == Spec => RetainedClaimKept
<1>1. ASSUME TypeOK, ObjectsOK, [Next]_vars, NEW n \in Name,
             objects[n] # Nil, objects[n].kept, ~objects[n].terminating
      PROVE  \/ Stays(n) /\ ~objects'[n].terminating
             \/ \E w \in Workers : \E x \in worker[w].listed : x.name = n /\ x.born # objects[n].born
  <2>1. objects[n] \in Object /\ n.kind = "claim" /\ objects[n].owner = Nil
    BY <1>1 DEF TypeOK, ObjectsOK, CopyOK
  <2>2. ~Garbage(n)
    BY <2>1 DEF Garbage
  <2>3. CASE Patches(n)
    BY <1>1, <2>1, <2>3, PatchedTyped DEF Patches, Todo, Stays
  <2>4. CASE Rests(n)
    BY <1>1, <2>4 DEF Rests, Stays
  <2>5. CASE Marks(n)
    <3>1. PICK w \in Workers : \E x \in worker[w].listed : x.name = n
      BY <2>2, <2>5 DEF Marks
    <3>2. PICK x \in worker[w].listed : x.name = n
      BY <3>1
    <3>3. x.born # objects[n].born
      BY <1>1, <3>2 DEF ObjectsOK, Incarnations
    <3> QED BY <3>2, <3>3
  <2> QED BY <1>1, <2>2, <2>3, <2>4, <2>5, ObjectSteps DEF Changes, Creates, Vanishes
<1>2. TypeOK /\ ObjectsOK /\ [Next]_vars =>
        (\A n \in Name :
          (objects[n] # Nil /\ objects[n].kept /\ ~objects[n].terminating)
            => \/ Stays(n) /\ ~objects'[n].terminating
               \/ \E w \in Workers : \E x \in worker[w].listed :
                    x.name = n /\ x.born # objects[n].born)
  BY <1>1
<1> QED BY <1>2, ObjectsInductive, PTL DEF Spec, RetainedClaimKept

\* A claim that is not retained has the owner it was created with, which patches of
\* claims leave there, and goes with it (PVCFromYAML).
THEOREM PlainClaimsCollected == Spec => []PlainClaimsGo
<1>1. TypeOK /\ ObjectsOK => PlainClaimsGo
  <2> SUFFICES ASSUME TypeOK, ObjectsOK, AtRest, NEW c \in Claims,
                      Claim(c) # Nil, ~Claim(c).retain
               PROVE  Claim(c).owner \in live
    BY DEF PlainClaimsGo
  <2> DEFINE n == [kind |-> "claim", name |-> c]
  <2>1. n \in Name /\ n.kind = "claim" /\ Claim(c) = objects[n]
    BY DEF Name, Claim
  <2> HIDE DEF n
  <2>2. objects[n].owner # Nil
    BY <2>1 DEF ObjectsOK, CopyOK
  <2>3. ~Garbage(n) /\ ~objects[n].terminating
    BY <2>1 DEF AtRest
  <2> QED BY <2>1, <2>2, <2>3 DEF Garbage
<1> QED BY <1>1, ObjectsInductive, PTL

-----------------------------------------------------------------------------
(* The Deployments *)

\* Only the app's worker deletes, and only while the app is gone or about to be
\* reconciled again; the graph has the app and the instances, but for what is queued.
Flow ==
  /\ \A w \in Workers : worker[w].listed # {} => worker[w].op = "delete"
  /\ worker["inst"].op # "delete"
  /\ worker["app"].op = "delete" => app = Nil \/ "app" \in changed
  /\ (app # Nil /\ "app" \notin changed) => table = app
  /\ live \ known \subseteq changed

D(i) == [kind |-> "deployment", name |-> i]
InHand(i) == \E w \in Workers :
  /\ worker[w].op = "create"
  /\ i \in worker[w].insts \/ \E a \in worker[w].todo : a.name = D(i)
Shows(i) == objects[D(i)] # Nil /\ ~objects[D(i)].terminating /\ objects[D(i)].data = app.image

\* A Deployment shows the app, or somebody is on the way to make it do so.
Owed(i) == "app" \in changed \/ i \in changed \/ InHand(i)
ShownOrOwed == \A i \in live :
  (app # Nil /\ app \notin Bare /\ i \notin outdated) => Owed(i) \/ Shows(i)

ShowsInv == TypeOK /\ ObjectsOK /\ Flow /\ ShownOrOwed

LEMMA NextFlow == TypeOK /\ Flow /\ [Next]_vars => Flow'
<1> SUFFICES ASSUME TypeOK, Flow, [Next]_vars PROVE Flow'
  OBVIOUS
<1>w. Workers = {"app", "inst"} /\ "app" \notin Insts
  BY ApartAssumption DEF Workers
<1>1. ASSUME NEW w \in Workers, Work(w)
      PROVE  Flow'
  <2>1. PICK v : /\ Moved(w, v)
                 /\ \A x \in v.listed :
                     \/ x \in worker[w].listed
                     \/ worker[w].op = "delete" /\ \E kind, i : x \in Listed(kind, i)
    BY <1>1, WorkMoves
  <2>2. worker'[w] = v /\ \A z \in Workers \ {w} : worker'[z] = worker[z]
    BY <2>1, MovedTyped
  <2>3. v.op \in {"idle", worker[w].op} /\ (v.op = "idle" => v.listed = {})
    BY <2>1 DEF Moved, Idle
  <2>4. UNCHANGED graphVars
    BY <1>1 DEF Work, Generate, GenerateFails, CreateResource, PatchResource, FailResource, List, DeleteListed
  <2>5. \A z \in Workers : worker'[z].listed # {} => worker'[z].op = "delete"
    BY <2>1, <2>2, <2>3 DEF Flow
  <2>6. \A z \in Workers : worker'[z].op = "delete" => worker[z].op = "delete"
    BY <2>2, <2>3
  <2> QED BY <1>w, <2>4, <2>5, <2>6 DEF Flow, graphVars
<1>2. CASE ReconcileApp
  <2> DEFINE op == IF app = Nil THEN "delete" ELSE "create"
             v == Begin(op, known)
  <2>1. v.listed = {} /\ v.op \in {"idle", op}
    BY DEF Begin, Idle
  <2>2. worker' = [worker EXCEPT !["app"] = v]
    BY <1>2 DEF ReconcileApp
  <2> HIDE DEF v
  <2>3. worker'["app"] = v /\ worker'["inst"] = worker["inst"]
    BY <1>w, <2>2 DEF TypeOK
  <2> QED BY <1>2, <1>w, <2>1, <2>3 DEF ReconcileApp, Flow, TypeOK
<1>3. ASSUME NEW i \in Insts, ReconcileInst(i)
      PROVE  Flow'
  <2>1. \/ worker' = worker
        \/ worker' = [worker EXCEPT !["inst"] = Begin("create", {i})]
    BY <1>3 DEF ReconcileInst
  <2>2. Begin("create", {i}).listed = {} /\ Begin("create", {i}).op = "create"
    BY DEF Begin, Idle
  <2>3. worker'["app"] = worker["app"]
        /\ (worker'["inst"] = worker["inst"] \/ worker'["inst"] = Begin("create", {i}))
    BY <1>w, <2>1 DEF TypeOK
  <2> QED BY <1>3, <1>w, <2>2, <2>3 DEF ReconcileInst, Flow, TypeOK
<1>4. CASE \/ \E i \in Insts : DeleteInst(i)
           \/ \E content \in AppContents \cup {Nil} : EditApp(content)
  BY <1>4 DEF DeleteInst, EditApp, Flow
<1>5. CASE UNCHANGED <<graphVars, worker>>
  BY <1>5 DEF graphVars, Flow
<1> QED BY <1>1, <1>2, <1>3, <1>4, <1>5 DEF Next, vars, Sync, Terminate, CollectGarbage

\* A step that leaves a Deployment and the work on it alone.
LEMMA StillShown ==
  ASSUME ShownOrOwed, NEW i \in live, app # Nil, app \notin Bare, i \notin outdated,
         app' = app, changed \subseteq changed', InHand(i) => Owed(i)',
         Shows(i) => objects'[D(i)] = objects[D(i)]
  PROVE  Owed(i)' \/ Shows(i)'
<1>1. Owed(i) \/ Shows(i)
  BY DEF ShownOrOwed
<1>2. Owed(i) => Owed(i)'
  BY DEF Owed
<1>3. Shows(i) => Shows(i)'
  BY DEF Shows
<1> QED BY <1>1, <1>2, <1>3

\* The work of other workers stays in hand.
LEMMA OthersInHand ==
  ASSUME TypeOK, NEW w \in Workers, NEW v, Moved(w, v), NEW i, InHand(i),
         (/\ worker[w].op = "create"
          /\ i \in worker[w].insts \/ \E a \in worker[w].todo : a.name = D(i))
           => InHand(i)'
  PROVE  InHand(i)'
BY MovedTyped DEF InHand

LEMMA GenerateShown ==
  ASSUME ShowsInv, NEW w \in Workers, NEW j \in worker[w].insts, Generate(w, j),
         NEW i \in live, app # Nil, app \notin Bare, i \notin outdated
  PROVE  Owed(i)' \/ Shows(i)'
<1>1. /\ UNCHANGED <<graphVars, clusterVars>> /\ worker[w].inst = Nil
  BY DEF Generate
<1>2. PICK v : /\ Moved(w, v)
               /\ worker[w].op = "create"
               /\ v.insts = worker[w].insts \ {j}
               /\ v.insts # {} => v.op = "create"
               /\ \/ (table = Nil \/ table \in Bare) /\ v.todo = {}
                  \/ /\ table \in AppContents /\ v.op = "create" /\ v.inst = j
                     /\ v.todo = Artifacts(j, table)
  BY GenerateMoves DEF ShowsInv
<1>3. worker'[w] = v
  BY <1>2, MovedTyped DEF ShowsInv
<1>4. j \in Insts
  BY TypedWorker DEF ShowsInv, Worker
<1>5. worker[w].todo = {}
  BY <1>1, TypedWorker, ApartAssumption DEF ShowsInv, Artifact
<1>6. CASE j = i
  <2>1. CASE table = Nil \/ table \in Bare
    <3>1. "app" \in changed
      BY <2>1 DEF ShowsInv, Flow
    <3> QED BY <1>1, <3>1 DEF Owed, graphVars
  <2>2. CASE table # Nil /\ table \notin Bare
    <3>1. table \in AppContents /\ v.op = "create" /\ v.todo = Artifacts(i, table)
      BY <1>2, <1>6, <2>2 DEF ShowsInv, TypeOK
    <3>2. \E a \in Artifacts(i, table) : a.name = D(i)
      BY <1>4, <1>6, <3>1, ArtifactsTyped DEF D
    <3>3. InHand(i)'
      BY <1>3, <3>1, <3>2 DEF InHand, D
    <3> QED BY <3>3 DEF Owed
  <2> QED BY <2>1, <2>2
<1>7. CASE j # i
  <2>1. ASSUME i \in worker[w].insts
        PROVE  InHand(i)'
    <3>1. i \in v.insts /\ v.op = "create"
      BY <1>2, <1>7, <2>1
    <3> QED BY <1>3, <3>1 DEF InHand
  <2>2. InHand(i) => InHand(i)'
    BY <1>2, <1>5, <2>1, OthersInHand DEF ShowsInv
  <2> QED BY <1>1, <2>2, StillShown DEF ShowsInv, Owed, graphVars, clusterVars
<1> QED BY <1>6, <1>7

\* A rendering that fails passes over what the worker has in hand, and nothing else.
LEMMA GenerateFailsShown ==
  ASSUME ShowsInv, NEW w \in Workers, NEW j \in worker[w].insts, GenerateFails(w, j),
         NEW i \in live, app # Nil, app \notin Bare, i \notin outdated'
  PROVE  Owed(i)' \/ Shows(i)'
<1>1. /\ UNCHANGED <<graphVars, clusterVars>> /\ worker[w].inst = Nil
      /\ i \notin outdated /\ i \notin worker[w].insts
  BY DEF GenerateFails
<1>2. Moved(w, Idle)
  BY GenerateFailsMoves DEF ShowsInv
<1>3. worker[w].todo = {}
  BY <1>1, TypedWorker, ApartAssumption DEF ShowsInv, Artifact
<1>4. InHand(i) => InHand(i)'
  BY <1>1, <1>2, <1>3, OthersInHand DEF ShowsInv
<1> QED BY <1>1, <1>4, StillShown DEF ShowsInv, Owed, graphVars, clusterVars

\* What a worker writes for i's Deployment is judged; what it writes for anything
\* else leaves that Deployment and the work on it alone.
LEMMA WriteShown ==
  ASSUME ShowsInv, NEW w \in Workers, NEW a \in worker[w].todo,
         CreateResource(w, a) \/ PatchResource(w, a) \/ FailResource(w, a),
         NEW i \in live, app # Nil, app \notin Bare, i \notin outdated'
  PROVE  Owed(i)' \/ Shows(i)'
<1>t. /\ TypeOK /\ a \in Artifact /\ ArtifactOK(a) /\ a.id = worker[w].inst /\ i \in Insts
      /\ a.name \in Name
  BY TypedWorker DEF ShowsInv, ObjectsOK, TypeOK, Artifact
<1>u. UNCHANGED graphVars
  BY DEF CreateResource, PatchResource, FailResource
<1>1. CASE a.name = D(i)
  <2>1. a.name.kind = "deployment" /\ a.id = i
    BY <1>t, <1>1 DEF ArtifactOK, D
  <2>2. ~FailResource(w, a)
    BY <2>1 DEF FailResource
  <2>3. UpToDate(a)
    BY <2>1, <2>2 DEF CreateResource, PatchResource, Judged
  <2> QED BY <1>1, <1>u, <2>3 DEF UpToDate, Shows, D, graphVars
<1>2. CASE a.name # D(i)
  <2>1. i \notin outdated
    <3>1. a.name.kind = "deployment" => a.id # i
      BY <1>t, <1>2 DEF ArtifactOK, D, Artifact, Name
    <3> QED BY <3>1 DEF CreateResource, PatchResource, FailResource, Judged
  <2>2. objects'[D(i)] = objects[D(i)]
    <3>1. \/ objects' = objects
          \/ \E o : objects' = [objects EXCEPT ![a.name] = o]
      BY DEF CreateResource, PatchResource, FailResource, clusterVars
    <3>2. D(i) \in Name
      BY <1>t DEF D, Name
    <3> QED BY <1>2, <1>t, <3>1, <3>2 DEF TypeOK
  <2>3. PICK failed \in BOOLEAN : Applied(w, a, failed) /\ (failed => FailResource(w, a))
    <3>1. Applied(w, a, FALSE) \/ (Applied(w, a, TRUE) /\ FailResource(w, a))
      BY DEF CreateResource, PatchResource, FailResource
    <3> QED BY <3>1
  <2>4. PICK v : /\ Moved(w, v)
                 /\ v.insts = worker[w].insts \/ (v = Idle /\ failed)
                 /\ v.insts # {} => v.op = worker[w].op
                 /\ (worker[w].todo \ {a} # {} /\ ~(failed /\ a.name.kind = "deployment"))
                     => /\ v.op = worker[w].op
                        /\ v.todo = worker[w].todo \ {a}
    BY <1>t, <2>3, AppliedMoves
  <2>5. worker'[w] = v
    BY <1>t, <2>4, MovedTyped
  <2>6. ASSUME worker[w].op = "create", i \in worker[w].insts
        PROVE  InHand(i)'
    <3>1. ~(v = Idle /\ failed)
      BY <2>3, <2>5, <2>6 DEF FailResource
    <3>2. i \in v.insts /\ v.op = "create"
      BY <2>4, <2>6, <3>1
    <3> QED BY <2>5, <3>2 DEF InHand
  <2>7. ASSUME worker[w].op = "create", NEW b \in worker[w].todo, b.name = D(i)
        PROVE  InHand(i)'
    <3>1. b # a /\ b.id = i /\ a.id = i
      BY <1>2, <1>t, <2>7, TypedWorker DEF ShowsInv, ObjectsOK, ArtifactOK, D
    <3>2. a.name.kind # "deployment"
      BY <1>2, <1>t, <3>1 DEF ArtifactOK, D, Artifact, Name
    <3>3. v.op = "create" /\ b \in v.todo
      BY <2>4, <2>7, <3>1, <3>2
    <3> QED BY <2>5, <2>7, <3>3 DEF InHand, D
  <2>8. InHand(i) => InHand(i)'
    BY <1>t, <2>4, <2>6, <2>7, OthersInHand
  <2> QED BY <1>u, <2>1, <2>2, <2>8, StillShown DEF ShowsInv, Owed, graphVars
<1> QED BY <1>1, <1>2

LEMMA DeleteShown ==
  ASSUME ShowsInv, NEW w \in Workers,
         (\E j \in Insts : List(w, j)) \/ (\E x \in worker[w].listed : DeleteListed(w, x)),
         NEW i \in live, app # Nil
  PROVE  Owed(i)'
<1>1. worker[w].op = "delete"
  BY DEF List, ShowsInv, Flow
<1>2. w = "app"
  BY <1>1 DEF ShowsInv, Flow, Workers
<1>3. "app" \in changed
  BY <1>1, <1>2 DEF ShowsInv, Flow
<1>4. changed' = changed
  BY DEF List, DeleteListed, graphVars
<1> QED BY <1>3, <1>4 DEF Owed

LEMMA ReconcileShown ==
  ASSUME ShowsInv, ReconcileApp \/ \E j \in Insts : ReconcileInst(j),
         NEW i \in live, app # Nil, app \notin Bare, i \notin outdated
  PROVE  Owed(i)' \/ Shows(i)'
<1>t. /\ Workers = {"app", "inst"} /\ "app" \notin Insts /\ i \in Insts
      /\ worker = [w \in Workers |-> worker[w]]
  BY ApartAssumption DEF ShowsInv, TypeOK, Workers
<1>b. \A insts : insts # {} => /\ Begin("create", insts).op = "create"
                               /\ Begin("create", insts).insts = insts
  BY DEF Begin, Idle
<1>1. CASE ReconcileApp
  <2>1. CASE i \in known
    <3>1. worker' = [worker EXCEPT !["app"] = Begin("create", known)]
      BY <1>1 DEF ReconcileApp
    <3>2. worker'["app"].op = "create" /\ i \in worker'["app"].insts
      BY <1>t, <1>b, <2>1, <3>1
    <3> QED BY <1>t, <3>2 DEF Owed, InHand
  <2>2. CASE i \notin known
    BY <1>1, <1>t, <2>2 DEF ReconcileApp, ShowsInv, Flow, Owed
  <2> QED BY <2>1, <2>2
<1>2. ASSUME NEW j \in Insts, ReconcileInst(j)
      PROVE  Owed(i)' \/ Shows(i)'
  <2>1. CASE j = i
    <3>1. worker' = [worker EXCEPT !["inst"] = Begin("create", {i})]
      BY <1>2, <2>1 DEF ReconcileInst
    <3>2. worker'["inst"].op = "create" /\ i \in worker'["inst"].insts
      BY <1>t, <1>b, <3>1
    <3> QED BY <1>t, <3>2 DEF Owed, InHand
  <2>2. CASE j # i
    <3>1. InHand(i) => worker["app"].op = "create" /\
                        (i \in worker["app"].insts \/ \E a \in worker["app"].todo : a.name = D(i))
      BY <1>2, <1>t DEF ReconcileInst, InHand, Idle
    <3>2. worker'["app"] = worker["app"]
      BY <1>2, <1>t DEF ReconcileInst
    <3>3. InHand(i) => InHand(i)'
      BY <1>t, <3>1, <3>2 DEF InHand
    <3>4. app' = app /\ objects' = objects /\ changed' = changed \ {j}
      BY <1>2 DEF ReconcileInst, clusterVars
    <3>5. Owed(i) => Owed(i)'
      BY <1>t, <2>2, <3>3, <3>4 DEF Owed
    <3>6. Shows(i) => Shows(i)'
      BY <3>4 DEF Shows
    <3> QED BY <3>5, <3>6 DEF ShowsInv, ShownOrOwed
  <2> QED BY <2>1, <2>2
<1> QED BY <1>1, <1>2

LEMMA ClusterShown ==
  ASSUME ShowsInv, NEW n \in Name, Sync(n) \/ Terminate(n) \/ CollectGarbage(n),
         NEW i \in live, app # Nil, app \notin Bare, i \notin outdated
  PROVE  Owed(i)' \/ Shows(i)'
<1>1. UNCHANGED <<graphVars, worker>>
  BY DEF Sync, Terminate, CollectGarbage
<1>2. InHand(i) => Owed(i)'
  BY <1>1 DEF InHand, Owed
<1>3. Shows(i) => objects'[D(i)] = objects[D(i)]
  <2> SUFFICES ASSUME Shows(i) PROVE objects'[D(i)] = objects[D(i)]
    OBVIOUS
  <2>1. D(i) \in Name /\ D(i).kind = "deployment" /\ D(i).name = i
    BY DEF ShowsInv, TypeOK, D, Name
  <2>2. objects[D(i)].owner \in {i, Nil}
    BY <2>1 DEF ShowsInv, ObjectsOK, CopyOK, Shows
  <2>3. ~Garbage(D(i)) /\ ~objects[D(i)].terminating
    BY <2>2 DEF Garbage, Shows
  <2>4. \/ objects' = objects
        \/ n # D(i) /\ \E o : objects' = [objects EXCEPT ![n] = o]
    BY <2>3 DEF Sync, Terminate, CollectGarbage, clusterVars
  <2> QED BY <2>1, <2>4 DEF ShowsInv, TypeOK
<1> QED BY <1>1, <1>2, <1>3, StillShown DEF ShowsInv, graphVars

LEMMA NextShownOrOwed == ShowsInv /\ [Next]_vars => ShownOrOwed'
<1> SUFFICES ASSUME ShowsInv, [Next]_vars,
                    NEW i \in live', app' # Nil, app' \notin Bare, i \notin outdated'
             PROVE  Owed(i)' \/ Shows(i)'
  BY DEF ShownOrOwed
<1>1. CASE \E content \in AppContents \cup {Nil} : EditApp(content)
  BY <1>1 DEF EditApp, Owed
<1>2. CASE ~\E content \in AppContents \cup {Nil} : EditApp(content)
  <2>1. app' = app /\ live' \subseteq live
    BY <1>2 DEF Next, vars, DeleteInst, ReconcileInst, ReconcileApp, Sync, Terminate, CollectGarbage,
                Work, Generate, GenerateFails, CreateResource, PatchResource, FailResource, List, DeleteListed,
                graphVars
  <2>2. i \in live /\ app # Nil /\ app \notin Bare
    BY <2>1
  <2>3. ASSUME NEW w \in Workers, Work(w)
        PROVE  Owed(i)' \/ Shows(i)'
    <3>1. ASSUME NEW j \in worker[w].insts, Generate(w, j)
          PROVE  Owed(i)' \/ Shows(i)'
      <4>1. i \notin outdated
        BY <3>1 DEF Generate
      <4> QED BY <2>2, <3>1, <4>1, GenerateShown
    <3>2. ASSUME NEW a \in worker[w].todo,
                 CreateResource(w, a) \/ PatchResource(w, a) \/ FailResource(w, a)
          PROVE  Owed(i)' \/ Shows(i)'
      BY <2>2, <3>2, WriteShown
    <3>4. ASSUME NEW j \in worker[w].insts, GenerateFails(w, j)
          PROVE  Owed(i)' \/ Shows(i)'
      BY <2>2, <3>4, GenerateFailsShown
    <3>3. CASE \/ \E j \in Insts : List(w, j)
               \/ \E x \in worker[w].listed : DeleteListed(w, x)
      BY <2>2, <3>3, DeleteShown
    <3> QED BY <2>3, <3>1, <3>2, <3>3, <3>4 DEF Work
  <2>4. CASE ReconcileApp \/ \E j \in Insts : ReconcileInst(j)
    <3>1. i \notin outdated
      BY <2>4 DEF ReconcileApp, ReconcileInst
    <3> QED BY <2>2, <2>4, <3>1, ReconcileShown
  <2>5. ASSUME NEW n \in Name, Sync(n) \/ Terminate(n) \/ CollectGarbage(n)
        PROVE  Owed(i)' \/ Shows(i)'
    <3>1. i \notin outdated
      BY <2>5 DEF Sync, Terminate, CollectGarbage
    <3> QED BY <2>2, <2>5, <3>1, ClusterShown
  <2>6. CASE UNCHANGED vars \/ \E j \in Insts : DeleteInst(j)
    <3>1. /\ i \notin outdated /\ changed \subseteq changed'
          /\ UNCHANGED <<worker, objects>>
      BY <2>6 DEF DeleteInst, vars, graphVars, clusterVars
    <3>2. InHand(i) => Owed(i)'
      BY <3>1 DEF InHand, Owed
    <3> QED BY <2>1, <2>2, <3>1, <3>2, StillShown DEF ShowsInv
  <2> QED BY <1>2, <2>3, <2>4, <2>5, <2>6 DEF Next
<1> QED BY <1>1, <1>2

LEMMA ShowsInductive == Spec => []ShowsInv
<1>1. Init => Flow /\ ShownOrOwed
  <2> SUFFICES ASSUME Init PROVE Flow /\ ShownOrOwed
    OBVIOUS
  <2>1. \A w \in Workers : worker[w] = Idle
    BY DEF Init
  <2>2. Flow
    BY <2>1 DEF Init, Flow, Workers, Idle
  <2>3. ShownOrOwed
    BY DEF Init, ShownOrOwed, Owed
  <2> QED BY <2>2, <2>3
<1>2. ShowsInv /\ [Next]_vars => Flow' /\ ShownOrOwed'
  BY NextFlow, NextShownOrOwed DEF ShowsInv
<1>3. ShowsInv <=> (TypeOK /\ ObjectsOK) /\ Flow /\ ShownOrOwed
  BY DEF ShowsInv
<1> QED BY <1>1, <1>2, <1>3, ObjectsInductive, PTL DEF Spec

\* Once everything is at rest, the Deployment of every instance shows the app, or its
\* last write was known to fall short: whoever changes the app or an instance queues
\* work on it, a rendering of an older app is overwritten by the one that follows it
\* or is judged when it is written, a rendering that fails counts for all that the loop
\* still had to handle, an app that the worker sees without a container is bare or about
\* to be handed out again, and a cascade deletes only where the app is gone
\* or about to be handed out again (CreateDerivatives, DeleteDerivatives).
THEOREM DeploymentsShowTheApp == Spec => []AppShows
<1>1. ShowsInv => AppShows
  <2> SUFFICES ASSUME ShowsInv, AtRest, NEW i \in Insts, i \in live,
                      app # Nil, app \notin Bare, i \notin outdated
               PROVE  objects[D(i)] # Nil /\ objects[D(i)].data = app.image
    BY DEF AppShows, D
  <2>1. changed = {} /\ \A w \in Workers : worker[w].op = "idle"
    BY DEF AtRest, Idle
  <2>2. ~Owed(i)
    BY <2>1 DEF Owed, InHand
  <2>3. Shows(i)
    BY <2>2 DEF ShowsInv, ShownOrOwed
  <2> QED BY <2>3 DEF Shows
<1> QED BY <1>1, ShowsInductive, PTL
=============================================================================
