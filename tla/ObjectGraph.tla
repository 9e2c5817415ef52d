----------------------------- MODULE ObjectGraph -----------------------------
(***************************************************************************)
(* The in-memory object graph of helxapp_operations: which HelxApp, HelxUser*)
(* and HelxInst objects the controllers have seen, which instance waits for *)
(* which app and which user, and the work each reconciler takes from it.    *)
(*                                                                         *)
(* Three reconcilers share the graph, each with one worker.  A worker makes *)
(* ONE change to the graph per reconcile and receives copies of instances; *)
(* it then handles those copies one at a time (CreateDerivatives or         *)
(* DeleteDerivatives) while the other workers change the graph under it.    *)
(* An operation of the graph is one step here; the statements inside one    *)
(* operation are not interleaved.                                           *)
(***************************************************************************)
EXTENDS Naturals, FiniteSets

CONSTANTS
  Namespaces, Names,  \* the two halves of a namespaced name
  NoNamespace,        \* the namespace half of a reference written without one
  Apps, Users, Insts, \* keys of the HelxApps, HelxUsers and HelxInsts there may be
  InstSpecs,          \* the specs an instance may be given
  Resources,          \* the rest of an instance's spec
  Revisions,          \* the contents an app or a user may have
  Ids,                \* an instance's identity: its metadata.uid and status.uuid
  Nil                 \* a nil pointer, an absent map entry

\* A namespaced name, "ns/name" in the code, and a reference to one as an
\* instance spells it: "ns/name" or a bare "name".
Key == [ns : Namespaces, name : Names]
Ref == [ns : Namespaces \cup {NoNamespace}, name : Names]

ASSUME KeysAssumption == /\ Apps \subseteq Key
                         /\ Users \subseteq Key
                         /\ Insts \subseteq Key
                         /\ NoNamespace \notin Namespaces
ASSUME SpecsAssumption == InstSpecs \subseteq [appName : Ref, userName : Ref, resources : Resources]

HelxInst == [key : Insts, spec : InstSpecs, id : Ids]

ASSUME NilAssumption == Nil \notin Revisions /\ Nil \notin HelxInst

\* TableElement: the object, nil until it is seen, and the instances that name it.
TableElement == [obj : Revisions \cup {Nil}, instSet : SUBSET Insts]
EmptyElement == [obj |-> Nil, instSet |-> {}]

Controllers == {"app", "user", "inst"}
Idle == [op |-> "idle", insts |-> {}]

VARIABLES
  appTable, userTable, \* Key -> TableElement; an absent entry is EmptyElement
  instanceTable,       \* Insts -> HelxInst or Nil
  job,                 \* per worker: the copies it still has to handle
  generated,           \* per instance: the app and user contents GenerateArtifacts
                       \* last took for its current spec, or Nil (history)
  dropped              \* instances whose current copy was thrown away by an error,
                       \* or that a resync changed without handing it out (history)

tables == <<appTable, userTable, instanceTable>>
vars == <<appTable, userTable, instanceTable, job, generated, dropped>>

-----------------------------------------------------------------------------
(* Names *)

Resolve(ns, ref) == IF ref.ns = NoNamespace THEN [ns |-> ns, name |-> ref.name]
                                            ELSE [ns |-> ref.ns, name |-> ref.name]

\* GetAppNameFromInst, GetUserNameFromInst.  (An empty reference resolves to a
\* key no object has, as does a reference to a Key outside Apps or Users.)
AppKey(inst) == Resolve(inst.key.ns, inst.spec.appName)
UserKey(inst) == Resolve(inst.key.ns, inst.spec.userName)

-----------------------------------------------------------------------------
(* The tables *)

\* A mutant of SetObj: the entry is replaced as a whole.
SetObjAfresh(table, key, obj) == [table EXCEPT ![key] = [obj |-> obj, instSet |-> {}]]

SetObj(table, key, obj) == [table EXCEPT ![key].obj = obj]

\* A mutant of Connect: the object's name where the instance's belongs.
ConnectItself(table, key, instKey) == [table EXCEPT ![key].instSet = @ \cup {key}]

\* A mutant of Connect: an instance is connected but once.
ConnectOnce(table, key, instKey) ==
  IF \E k \in Key : instKey \in table[k].instSet THEN table
  ELSE [table EXCEPT ![key].instSet = @ \cup {instKey}]

\* connectObj: an absent entry gets a nil object and the instance.
Connect(table, key, instKey) == [table EXCEPT ![key].instSet = @ \cup {instKey}]

\* The instances named in an entry that the instance table still holds.
InstList(table, key) ==
  {instanceTable[k] : k \in {k \in table[key].instSet : instanceTable[k] # Nil}}

\* DeleteInst's clean-up of one table.  It looks the element up by the reference
\* as written and deletes that same string from the element's InstSet.
Disconnect(table, ref) ==
  [k \in Key |-> IF k = ref THEN [table[k] EXCEPT !.instSet = @ \ {ref}] ELSE table[k]]

GetApp(key) == appTable[key].obj
GetUser(key) == userTable[key].obj

HandOut(op, insts) == IF insts = {} THEN Idle ELSE [op |-> op, insts |-> insts]

-----------------------------------------------------------------------------
(* Operations of the app and user reconcilers on the graph *)

\* Mutants of AddApp and AddUser: nothing is handed out.
AddAppQuietly(key, obj) ==
  /\ job["app"] = Idle
  /\ appTable' = SetObj(appTable, key, obj)
  /\ UNCHANGED <<userTable, instanceTable, job, generated, dropped>>

AddUserQuietly(key, obj) ==
  /\ job["user"] = Idle
  /\ userTable' = SetObj(userTable, key, obj)
  /\ UNCHANGED <<appTable, instanceTable, job, generated, dropped>>

\* AddApp for a new or changed app: every instance waiting for it is handed out.
AddApp(key, obj) ==
  /\ job["app"] = Idle
  /\ appTable' = SetObj(appTable, key, obj)
  /\ job' = [job EXCEPT !["app"] = HandOut("create", InstList(appTable, key))]
  /\ dropped' = dropped \ {inst.key : inst \in InstList(appTable, key)}
  /\ UNCHANGED <<userTable, instanceTable, generated>>

AddUser(key, obj) ==
  /\ job["user"] = Idle
  /\ userTable' = SetObj(userTable, key, obj)
  /\ job' = [job EXCEPT !["user"] = HandOut("create", InstList(userTable, key))]
  /\ dropped' = dropped \ {inst.key : inst \in InstList(userTable, key)}
  /\ UNCHANGED <<appTable, instanceTable, generated>>

\* AddApp, AddUser on a resync: the same call, its result ignored.  That makes a
\* difference when the object is not the one stored, as after a restart.
ResyncApp(key, obj) ==
  /\ job["app"] = Idle
  /\ appTable' = SetObj(appTable, key, obj)
  /\ dropped' = IF GetApp(key) = obj THEN dropped
                ELSE dropped \cup {inst.key : inst \in InstList(appTable, key)}
  /\ UNCHANGED <<userTable, instanceTable, job, generated>>

ResyncUser(key, obj) ==
  /\ job["user"] = Idle
  /\ userTable' = SetObj(userTable, key, obj)
  /\ dropped' = IF GetUser(key) = obj THEN dropped
                ELSE dropped \cup {inst.key : inst \in InstList(userTable, key)}
  /\ UNCHANGED <<appTable, instanceTable, job, generated>>

\* A mutant of DeleteApp: only instances known to have a workload are handed out.
DeleteAppOfGenerated(key) ==
  /\ job["app"] = Idle
  /\ job' = [job EXCEPT !["app"] =
               HandOut("delete", {inst \in InstList(appTable, key) : generated[inst.key] # Nil})]
  /\ UNCHANGED <<tables, generated, dropped>>

\* DeleteApp, DeleteUser: the instances are handed out for deletion of their
\* workloads.  The entry keeps its object.
DeleteApp(key) ==
  /\ job["app"] = Idle
  /\ job' = [job EXCEPT !["app"] = HandOut("delete", InstList(appTable, key))]
  /\ UNCHANGED <<tables, generated, dropped>>

DeleteUser(key) ==
  /\ job["user"] = Idle
  /\ job' = [job EXCEPT !["user"] = HandOut("delete", InstList(userTable, key))]
  /\ UNCHANGED <<tables, generated, dropped>>

-----------------------------------------------------------------------------
(* Operations of the instance reconciler on the graph *)

\* AddInst for a new or changed instance, which the worker then handles itself.
\* An instance that names another app than before stays in the old app's set.
AddInst(inst) ==
  /\ job["inst"] = Idle
  /\ instanceTable' = [instanceTable EXCEPT ![inst.key] = inst]
  /\ appTable' = Connect(appTable, AppKey(inst), inst.key)
  /\ userTable' = Connect(userTable, UserKey(inst), inst.key)
  /\ job' = [job EXCEPT !["inst"] = HandOut("create", {inst})]
  /\ generated' = [generated EXCEPT ![inst.key] = Nil]
  /\ dropped' = dropped \ {inst.key}

\* AddInst on a resync: the instance is stored and nothing is handed out.
ResyncInst(inst) ==
  /\ job["inst"] = Idle
  /\ instanceTable' = [instanceTable EXCEPT ![inst.key] = inst]
  /\ appTable' = Connect(appTable, AppKey(inst), inst.key)
  /\ userTable' = Connect(userTable, UserKey(inst), inst.key)
  /\ IF instanceTable[inst.key] = inst
     THEN UNCHANGED <<generated, dropped>>
     ELSE /\ generated' = [generated EXCEPT ![inst.key] = Nil]
          /\ dropped' = dropped \cup {inst.key}
  /\ UNCHANGED job

DeleteInst(key) ==
  /\ job["inst"] = Idle
  /\ instanceTable[key] # Nil
  /\ appTable' = Disconnect(appTable, instanceTable[key].spec.appName)
  /\ userTable' = Disconnect(userTable, instanceTable[key].spec.userName)
  /\ instanceTable' = [instanceTable EXCEPT ![key] = Nil]
  /\ generated' = [generated EXCEPT ![key] = Nil]
  /\ dropped' = dropped \ {key}
  /\ UNCHANGED job

-----------------------------------------------------------------------------
(* Handling the copies a worker was handed *)

\* A mutant of Done: the loop ends with the first instance.
DoneAtFirst(c, inst) == Idle

Done(c, inst) == HandOut(job[c].op, job[c].insts \ {inst})

Complete(inst) == GetApp(AppKey(inst)) # Nil /\ GetUser(UserKey(inst)) # Nil
Sources(inst) == [app |-> GetApp(AppKey(inst)), user |-> GetUser(UserKey(inst))]

\* The copy is what the instance table holds: the spec has not changed since.
IsCurrent(inst) == instanceTable[inst.key] = inst

\* CreateDerivatives on a copy: GenerateArtifacts looks the app and the user up
\* by the copy's references and yields nothing unless both are known.
GenerateArtifacts(c, inst) ==
  /\ job[c].op = "create"
  /\ inst \in job[c].insts
  /\ job' = [job EXCEPT ![c] = Done(c, inst)]
  /\ IF Complete(inst) /\ IsCurrent(inst)
     THEN generated' = [generated EXCEPT ![inst.key] = Sources(inst)]
     ELSE UNCHANGED generated
  /\ UNCHANGED <<tables, dropped>>

\* CreateDerivatives on some copy returned an error: the loop returns and the
\* copies not yet handled are forgotten with the one that failed.
Abandon(c) ==
  /\ job[c].op = "create"
  /\ job' = [job EXCEPT ![c] = Idle]
  /\ dropped' = dropped \cup {inst.key : inst \in {x \in job[c].insts : IsCurrent(x)}}
  /\ UNCHANGED <<tables, generated>>

\* DeleteDerivatives on a copy; an error is logged and the loop goes on.
DeleteDerivatives(c, inst) ==
  /\ job[c].op = "delete"
  /\ inst \in job[c].insts
  /\ job' = [job EXCEPT ![c] = Done(c, inst)]
  /\ UNCHANGED <<tables, generated, dropped>>

-----------------------------------------------------------------------------
(* The process *)

\* A restart begins with empty tables and idle workers.
Restart ==
  /\ appTable' = [k \in Key |-> EmptyElement]
  /\ userTable' = [k \in Key |-> EmptyElement]
  /\ instanceTable' = [i \in Insts |-> Nil]
  /\ job' = [c \in Controllers |-> Idle]
  /\ generated' = [i \in Insts |-> Nil]
  /\ dropped' = {}

Init ==
  /\ appTable = [k \in Key |-> EmptyElement]
  /\ userTable = [k \in Key |-> EmptyElement]
  /\ instanceTable = [i \in Insts |-> Nil]
  /\ job = [c \in Controllers |-> Idle]
  /\ generated = [i \in Insts |-> Nil]
  /\ dropped = {}

Next ==
  \/ \E key \in Apps, obj \in Revisions : AddApp(key, obj) \/ ResyncApp(key, obj)
  \/ \E key \in Users, obj \in Revisions : AddUser(key, obj) \/ ResyncUser(key, obj)
  \/ \E key \in Apps : DeleteApp(key)
  \/ \E key \in Users : DeleteUser(key)
  \/ \E inst \in HelxInst : AddInst(inst) \/ ResyncInst(inst)
  \/ \E key \in Insts : DeleteInst(key)
  \/ \E c \in Controllers : \E inst \in job[c].insts :
        GenerateArtifacts(c, inst) \/ DeleteDerivatives(c, inst)
  \/ \E c \in Controllers : Abandon(c)
  \/ Restart

Spec == Init /\ [][Next]_vars

-----------------------------------------------------------------------------
(* Properties *)

TypeOK ==
  /\ appTable \in [Key -> TableElement]
  /\ userTable \in [Key -> TableElement]
  /\ instanceTable \in [Insts -> HelxInst \cup {Nil}]
  /\ \A i \in Insts : instanceTable[i] # Nil => instanceTable[i].key = i
  /\ job \in [Controllers -> [op : {"idle", "create", "delete"}, insts : SUBSET HelxInst]]
  /\ generated \in [Insts -> [app : Revisions, user : Revisions] \cup {Nil}]
  /\ dropped \in SUBSET Insts

Known(i) == instanceTable[i] # Nil

\* The app and the user that an instance names record it among their instances,
\* however its references are spelled and whatever was deleted meanwhile: without
\* that, an app seen after the instance never reaches it.  The exception is an
\* instance with the very name of its app or its user: DeleteInst of another
\* instance that names the app as "ns/name" removes it (AddInst/connectObj against
\* DeleteInst).
Connected ==
  \A i \in Insts : Known(i) =>
    LET inst == instanceTable[i]
    IN  /\ AppKey(inst) # i => i \in appTable[AppKey(inst)].instSet
        /\ UserKey(inst) # i => i \in userTable[UserKey(inst)].instSet

OwnName(inst) == AppKey(inst) = inst.key \/ UserKey(inst) = inst.key

Pending(i) == \E c \in Controllers :
                job[c].op = "create" /\ instanceTable[i] \in job[c].insts

\* Rendezvous: in whatever order the app, the user and the instance arrive or
\* change, and whichever workers are in the middle of a loop with older copies, a
\* complete triple's workload has been generated from its current app, user and
\* spec, or some worker still holds the current copy, or it was passed over by an
\* error or a resync (dropped).
NoLostTriple ==
  \A i \in Insts :
    (Known(i) /\ Complete(instanceTable[i]) /\ ~OwnName(instanceTable[i])) =>
      \/ generated[i] = Sources(instanceTable[i])
      \/ Pending(i)
      \/ i \in dropped

\* Deleting an app puts every instance that names it, and that the graph knows,
\* on the deletion list, however the instance came to name it (DeleteObjFromMap).
CascadeReachesAll ==
  [][\A a \in Apps : DeleteApp(a) =>
       \A i \in Insts : (Known(i) /\ AppKey(instanceTable[i]) = a /\ a # i)
                           => instanceTable[i] \in job'["app"].insts]_vars

-----------------------------------------------------------------------------
(* Implementation of Rendezvous *)

\* Instances with the name of their own app or user are beyond the promise.
Promised(i) == Known(i) /\ ~OwnName(instanceTable[i])

Naming(inst) == [app |-> AppKey(inst), user |-> UserKey(inst), inst |-> inst]

ASSUME NamingAssumption == \A inst \in HelxInst : Naming(inst) # Nil

R == INSTANCE Rendezvous WITH
       Specs <- {Naming(inst) : inst \in HelxInst},
       app <- [k \in Apps |-> GetApp(k)],
       user <- [k \in Users |-> GetUser(k)],
       inst <- [i \in Insts |-> IF Promised(i) THEN Naming(instanceTable[i]) ELSE Nil],
       owed <- {i \in Insts : Promised(i) /\ Pending(i)},
       done <- [i \in Insts |-> IF Promised(i) THEN generated[i] ELSE Nil],
       passed <- {i \in dropped : Promised(i)}

\* The graph, with its tables of associations and the copies in the hands of three
\* workers, does what Rendezvous says: whoever changes what an instance was generated
\* from owes it a new generation, and a debt ends only with a generation from what is
\* known at that moment, with an error, or with the process.
ImplementsRendezvous == R!Spec
=============================================================================
