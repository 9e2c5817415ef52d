--------------------------- MODULE ReconcilersProofs ---------------------------
(***************************************************************************)
(* First the proofs about ObjectGraph, for every choice of the constants: its *)
(* types, that associations are complete, the rendezvous property, and that   *)
(* it implements Rendezvous.  Then those about Reconcilers: the reconcilers   *)
(* use the graph as ObjectGraph says, and what they record on the API server  *)
(* is what the graph holds.                                                  *)
(***************************************************************************)
EXTENDS Reconcilers, TLAPS

-----------------------------------------------------------------------------
(* The object graph *)

\* A reference resolves to a namespaced name.
LEMMA KeysAreKeys ==
  ASSUME NEW inst \in HelxInst
  PROVE  AppKey(inst) \in Key /\ UserKey(inst) \in Key
BY KeysAssumption, SpecsAssumption DEF AppKey, UserKey, Resolve, HelxInst, Key, Ref

\* What a table hands out are instances.
LEMMA InstListType ==
  ASSUME NEW table \in [Key -> TableElement], NEW key \in Key,
         instanceTable \in [Insts -> HelxInst \cup {Nil}]
  PROVE  InstList(table, key) \subseteq HelxInst
BY DEF InstList, TableElement

LEMMA ConnectType ==
  ASSUME NEW table \in [Key -> TableElement], NEW key \in Key, NEW i \in Insts
  PROVE  /\ Connect(table, key, i) \in [Key -> TableElement]
         /\ \A k \in Key : /\ Connect(table, key, i)[k].obj = table[k].obj
                           /\ table[k].instSet \subseteq Connect(table, key, i)[k].instSet
         /\ i \in Connect(table, key, i)[key].instSet
BY DEF Connect, TableElement

LEMMA SetObjType ==
  ASSUME NEW table \in [Key -> TableElement], NEW key \in Key, NEW obj \in Revisions
  PROVE  /\ SetObj(table, key, obj) \in [Key -> TableElement]
         /\ \A k \in Key : /\ SetObj(table, key, obj)[k].instSet = table[k].instSet
                           /\ SetObj(table, key, obj)[k].obj
                                = IF k = key THEN obj ELSE table[k].obj
BY DEF SetObj, TableElement

\* The clean-up of a table removes from an element only the instance with the
\* element's own name.
LEMMA DisconnectType ==
  ASSUME NEW table \in [Key -> TableElement], NEW ref
  PROVE  /\ Disconnect(table, ref) \in [Key -> TableElement]
         /\ \A k \in Key : /\ Disconnect(table, ref)[k].obj = table[k].obj
                           /\ table[k].instSet \ {k} \subseteq Disconnect(table, ref)[k].instSet
<1>1. \A k \in Key : [table[k] EXCEPT !.instSet = @ \ {ref}] \in TableElement
  BY DEF TableElement
<1>2. \A k \in Key : Disconnect(table, ref)[k] =
        IF k = ref THEN [table[k] EXCEPT !.instSet = @ \ {ref}] ELSE table[k]
  BY DEF Disconnect
<1>3. Disconnect(table, ref) \in [Key -> TableElement]
  BY <1>1 DEF Disconnect
<1>4. ASSUME NEW k \in Key
      PROVE  /\ Disconnect(table, ref)[k].obj = table[k].obj
             /\ table[k].instSet \ {k} \subseteq Disconnect(table, ref)[k].instSet
  BY <1>2 DEF TableElement
<1> QED BY <1>3, <1>4

JobType == [op : {"idle", "create", "delete"}, insts : SUBSET HelxInst]

LEMMA HandOutType ==
  ASSUME NEW op \in {"idle", "create", "delete"}, NEW S \in SUBSET HelxInst
  PROVE  HandOut(op, S) \in JobType
BY DEF HandOut, Idle, JobType

LEMMA DoneType ==
  ASSUME NEW c \in Controllers, job \in [Controllers -> JobType], NEW inst
  PROVE  Done(c, inst) \in JobType
BY HandOutType DEF Done, JobType

-----------------------------------------------------------------------------
(* Type correctness *)

LEMMA InitTypeOK == Init => TypeOK
BY DEF Init, TypeOK, EmptyElement, TableElement, Idle, Controllers

LEMMA NextTypeOK == TypeOK /\ [Next]_vars => TypeOK'
<1> SUFFICES ASSUME TypeOK, [Next]_vars PROVE TypeOK'
  OBVIOUS
<1> USE DEF TypeOK
<1>j. job \in [Controllers -> JobType]
  BY DEF JobType
<1>c. {"app", "user", "inst"} = Controllers
  BY DEF Controllers
<1>0. CASE UNCHANGED vars
  BY <1>0 DEF vars
<1>1. CASE \E key \in Apps, obj \in Revisions : AddApp(key, obj)
  <2> PICK key \in Apps, obj \in Revisions : AddApp(key, obj)
    BY <1>1
  <2>k. key \in Key
    BY KeysAssumption
  <2>1. InstList(appTable, key) \in SUBSET HelxInst
    BY InstListType, <2>k
  <2>2. appTable' \in [Key -> TableElement]
    BY SetObjType, <2>k DEF AddApp
  <2>3. job' \in [Controllers -> JobType]
    BY HandOutType, <2>1, <1>j, <1>c DEF AddApp
  <2>4. dropped' \in SUBSET Insts
    BY DEF AddApp
  <2> QED BY <2>2, <2>3, <2>4 DEF AddApp, JobType
<1>2. CASE \E key \in Users, obj \in Revisions : AddUser(key, obj)
  <2> PICK key \in Users, obj \in Revisions : AddUser(key, obj)
    BY <1>2
  <2>k. key \in Key
    BY KeysAssumption
  <2>1. InstList(userTable, key) \in SUBSET HelxInst
    BY InstListType, <2>k
  <2>2. userTable' \in [Key -> TableElement]
    BY SetObjType, <2>k DEF AddUser
  <2>3. job' \in [Controllers -> JobType]
    BY HandOutType, <2>1, <1>j, <1>c DEF AddUser
  <2>4. dropped' \in SUBSET Insts
    BY DEF AddUser
  <2> QED BY <2>2, <2>3, <2>4 DEF AddUser, JobType
<1>3. CASE \E key \in Apps : DeleteApp(key)
  <2> PICK key \in Apps : DeleteApp(key)
    BY <1>3
  <2>1. InstList(appTable, key) \in SUBSET HelxInst
    BY InstListType, KeysAssumption
  <2>2. job' \in [Controllers -> JobType]
    BY HandOutType, <2>1, <1>j, <1>c DEF DeleteApp
  <2> QED BY <2>2 DEF DeleteApp, tables, JobType
<1>4. CASE \E key \in Users : DeleteUser(key)
  <2> PICK key \in Users : DeleteUser(key)
    BY <1>4
  <2>1. InstList(userTable, key) \in SUBSET HelxInst
    BY InstListType, KeysAssumption
  <2>2. job' \in [Controllers -> JobType]
    BY HandOutType, <2>1, <1>j, <1>c DEF DeleteUser
  <2> QED BY <2>2 DEF DeleteUser, tables, JobType
<1>5. CASE \E inst \in HelxInst : AddInst(inst)
  <2> PICK inst \in HelxInst : AddInst(inst)
    BY <1>5
  <2>k. inst.key \in Insts
    BY DEF HelxInst
  <2>1. appTable' \in [Key -> TableElement] /\ userTable' \in [Key -> TableElement]
    BY ConnectType, KeysAreKeys, <2>k DEF AddInst
  <2>2. job' \in [Controllers -> JobType]
    BY HandOutType, <1>j, <1>c DEF AddInst
  <2>3. /\ instanceTable' \in [Insts -> HelxInst \cup {Nil}]
        /\ \A i \in Insts : instanceTable'[i] # Nil => instanceTable'[i].key = i
    BY <2>k DEF AddInst
  <2>4. generated' \in [Insts -> [app : Revisions, user : Revisions] \cup {Nil}]
    BY DEF AddInst
  <2> QED BY <2>1, <2>2, <2>3, <2>4 DEF AddInst, JobType
<1>6. ASSUME NEW inst \in HelxInst, ResyncInst(inst)
      PROVE  TypeOK'
  <2>k. inst.key \in Insts
    BY DEF HelxInst
  <2>1. appTable' \in [Key -> TableElement] /\ userTable' \in [Key -> TableElement]
    BY <1>6, <2>k, ConnectType, KeysAreKeys DEF ResyncInst
  <2>2. /\ instanceTable' \in [Insts -> HelxInst \cup {Nil}]
        /\ \A i \in Insts : instanceTable'[i] # Nil => instanceTable'[i].key = i
    BY <1>6, <2>k DEF ResyncInst
  <2>3. /\ generated' \in [Insts -> [app : Revisions, user : Revisions] \cup {Nil}]
        /\ dropped' \in SUBSET Insts
    BY <1>6, <2>k DEF ResyncInst
  <2> QED BY <1>6, <2>1, <2>2, <2>3 DEF ResyncInst
<1>61. ASSUME NEW key \in Apps, NEW obj \in Revisions, ResyncApp(key, obj)
       PROVE  TypeOK'
  <2>k. key \in Key
    BY KeysAssumption
  <2>1. InstList(appTable, key) \in SUBSET HelxInst
    BY InstListType, <2>k
  <2>2. appTable' \in [Key -> TableElement]
    BY <1>61, SetObjType, <2>k DEF ResyncApp
  <2>3. dropped' \in SUBSET Insts
    BY <1>61, <2>1 DEF ResyncApp, HelxInst
  <2> QED BY <1>61, <2>2, <2>3 DEF ResyncApp
<1>62. ASSUME NEW key \in Users, NEW obj \in Revisions, ResyncUser(key, obj)
       PROVE  TypeOK'
  <2>k. key \in Key
    BY KeysAssumption
  <2>1. InstList(userTable, key) \in SUBSET HelxInst
    BY InstListType, <2>k
  <2>2. userTable' \in [Key -> TableElement]
    BY <1>62, SetObjType, <2>k DEF ResyncUser
  <2>3. dropped' \in SUBSET Insts
    BY <1>62, <2>1 DEF ResyncUser, HelxInst
  <2> QED BY <1>62, <2>2, <2>3 DEF ResyncUser
<1>63. CASE Restart
  BY <1>63, InitTypeOK DEF Restart, Init, EmptyElement, TableElement, Idle, Controllers
<1>7. ASSUME NEW key \in Insts, DeleteInst(key)
      PROVE  TypeOK'
  <2>1. appTable' \in [Key -> TableElement] /\ userTable' \in [Key -> TableElement]
    BY <1>7, DisconnectType DEF DeleteInst
  <2> QED BY <1>7, <2>1 DEF DeleteInst
<1>8. ASSUME NEW c \in Controllers, NEW inst \in job[c].insts, GenerateArtifacts(c, inst)
      PROVE  TypeOK'
  <2>1. job' \in [Controllers -> JobType]
    BY <1>8, <1>j, DoneType DEF GenerateArtifacts
  <2>2. inst \in HelxInst
    BY <1>j DEF JobType
  <2>3. CASE Complete(inst) /\ IsCurrent(inst)
    <3>1. Sources(inst) \in [app : Revisions, user : Revisions]
      BY <2>2, <2>3, KeysAreKeys DEF Complete, Sources, GetApp, GetUser, TableElement
    <3>2. generated' \in [Insts -> [app : Revisions, user : Revisions] \cup {Nil}]
      BY <1>8, <2>3, <3>1 DEF GenerateArtifacts
    <3> QED BY <1>8, <2>1, <3>2 DEF GenerateArtifacts, tables, JobType
  <2>4. CASE ~(Complete(inst) /\ IsCurrent(inst))
    BY <1>8, <2>1, <2>4 DEF GenerateArtifacts, tables, JobType
  <2> QED BY <2>3, <2>4
<1>9. ASSUME NEW c \in Controllers, NEW inst \in job[c].insts, DeleteDerivatives(c, inst)
      PROVE  TypeOK'
  <2>1. job' \in [Controllers -> JobType]
    BY <1>9, <1>j, DoneType DEF DeleteDerivatives
  <2> QED BY <1>9, <2>1 DEF DeleteDerivatives, tables, JobType
<1>10. ASSUME NEW c \in Controllers, Abandon(c)
       PROVE  TypeOK'
  <2>1. job' \in [Controllers -> JobType]
    BY <1>10, <1>j DEF Abandon, Idle, JobType
  <2>2. dropped' \in SUBSET Insts
    BY <1>10, <1>j DEF Abandon, JobType, HelxInst
  <2> QED BY <1>10, <2>1, <2>2 DEF Abandon, tables, JobType
<1> QED BY <1>0, <1>1, <1>2, <1>3, <1>4, <1>5, <1>6, <1>61, <1>62, <1>63, <1>7, <1>8, <1>9,
           <1>10 DEF Next

\* Every reachable state is well typed: no step stores an object, an association
\* or a copy of an instance outside the sets the code's types give them.
THEOREM TypeCorrect == Spec => []TypeOK
BY InitTypeOK, NextTypeOK, PTL DEF Spec

-----------------------------------------------------------------------------
(* Associations *)

LEMMA InitConnected == Init => Connected
BY DEF Init, Connected, Known

LEMMA NextConnected == TypeOK /\ Connected /\ [Next]_vars => Connected'
<1> SUFFICES ASSUME TypeOK, Connected, [Next]_vars,
                    NEW i \in Insts, Known(i)'
             PROVE  LET inst == instanceTable'[i]
                    IN  /\ AppKey(inst) # i => i \in appTable'[AppKey(inst)].instSet
                        /\ UserKey(inst) # i => i \in userTable'[UserKey(inst)].instSet
  BY DEF Connected, Known
<1> DEFINE inst == instanceTable'[i]
<1>t. /\ appTable \in [Key -> TableElement]
      /\ userTable \in [Key -> TableElement]
      /\ TypeOK'
  BY NextTypeOK DEF TypeOK
<1>i. inst \in HelxInst /\ inst.key = i /\ AppKey(inst) \in Key /\ UserKey(inst) \in Key
  BY <1>t, KeysAreKeys DEF TypeOK, Known
\* Whatever keeps i's entry and loses no association but an own-name one keeps
\* i connected.
<1>k. ASSUME instanceTable'[i] = instanceTable[i],
             \A k \in Key : /\ appTable[k].instSet \ {k} \subseteq appTable'[k].instSet
                            /\ userTable[k].instSet \ {k} \subseteq userTable'[k].instSet
      PROVE  /\ AppKey(inst) # i => i \in appTable'[AppKey(inst)].instSet
             /\ UserKey(inst) # i => i \in userTable'[UserKey(inst)].instSet
  <2>1. Known(i)
    BY <1>k DEF Known
  <2>2. /\ AppKey(inst) # i => i \in appTable[AppKey(inst)].instSet
        /\ UserKey(inst) # i => i \in userTable[UserKey(inst)].instSet
    BY <1>k, <2>1 DEF Connected
  <2> QED BY <1>i, <1>k, <2>2
<1>0. CASE UNCHANGED <<appTable, userTable, instanceTable>>
  BY <1>0, <1>k
<1>1. ASSUME NEW key \in Apps, NEW obj \in Revisions, AddApp(key, obj) \/ ResyncApp(key, obj)
      PROVE  \A k \in Key : appTable'[k].instSet = appTable[k].instSet
  BY <1>1, <1>t, SetObjType, KeysAssumption DEF AddApp, ResyncApp
<1>2. ASSUME NEW key \in Users, NEW obj \in Revisions, AddUser(key, obj) \/ ResyncUser(key, obj)
      PROVE  \A k \in Key : userTable'[k].instSet = userTable[k].instSet
  BY <1>2, <1>t, SetObjType, KeysAssumption DEF AddUser, ResyncUser
<1>5. ASSUME NEW new \in HelxInst, AddInst(new) \/ ResyncInst(new)
      PROVE  /\ AppKey(inst) # i => i \in appTable'[AppKey(inst)].instSet
             /\ UserKey(inst) # i => i \in userTable'[UserKey(inst)].instSet
  <2>1. /\ new.key \in Insts /\ AppKey(new) \in Key /\ UserKey(new) \in Key
    BY KeysAreKeys DEF HelxInst
  <2>2. /\ new.key \in appTable'[AppKey(new)].instSet
        /\ new.key \in userTable'[UserKey(new)].instSet
        /\ \A k \in Key : /\ appTable[k].instSet \subseteq appTable'[k].instSet
                          /\ userTable[k].instSet \subseteq userTable'[k].instSet
    BY <1>5, <1>t, <2>1, ConnectType DEF AddInst, ResyncInst
  <2>3. CASE i = new.key
    <3>1. inst = new
      BY <1>5, <2>3 DEF AddInst, ResyncInst, TypeOK
    <3> QED BY <2>2, <2>3, <3>1
  <2>4. CASE i # new.key
    <3>1. instanceTable'[i] = instanceTable[i]
      BY <1>5, <2>4 DEF AddInst, ResyncInst, TypeOK
    <3> QED BY <2>2, <3>1, <1>k
  <2> QED BY <2>3, <2>4
<1>7. ASSUME NEW key \in Insts, DeleteInst(key)
      PROVE  /\ instanceTable'[i] = instanceTable[i]
             /\ \A k \in Key : /\ appTable[k].instSet \ {k} \subseteq appTable'[k].instSet
                               /\ userTable[k].instSet \ {k} \subseteq userTable'[k].instSet
  <2>1. i # key
    BY <1>7 DEF DeleteInst, Known, TypeOK
  <2> QED BY <1>7, <1>t, <2>1, DisconnectType DEF DeleteInst, TypeOK
<1>8. CASE \E key \in Apps, obj \in Revisions : AddApp(key, obj) \/ ResyncApp(key, obj)
  BY <1>8, <1>1, <1>k DEF AddApp, ResyncApp
<1>9. CASE \E key \in Users, obj \in Revisions : AddUser(key, obj) \/ ResyncUser(key, obj)
  BY <1>9, <1>2, <1>k DEF AddUser, ResyncUser
<1>10. CASE \E key \in Insts : DeleteInst(key)
  BY <1>10, <1>7, <1>k
<1>12. CASE Restart
  BY <1>12 DEF Restart, Known
<1>11. CASE \/ UNCHANGED vars
            \/ \E key \in Apps : DeleteApp(key)
            \/ \E key \in Users : DeleteUser(key)
            \/ \E c \in Controllers : \E x \in job[c].insts :
                  GenerateArtifacts(c, x) \/ DeleteDerivatives(c, x)
            \/ \E c \in Controllers : Abandon(c)
  BY <1>11, <1>0 DEF vars, tables, DeleteApp, DeleteUser, GenerateArtifacts,
                     DeleteDerivatives, Abandon
<1> QED BY <1>5, <1>8, <1>9, <1>10, <1>11, <1>12 DEF Next

\* In every reachable state an instance is recorded with the app and the user it
\* names, unless it has the very name of one of them.
THEOREM AssociationsComplete == Spec => []Connected
BY InitTypeOK, NextTypeOK, InitConnected, NextConnected, PTL DEF Spec

-----------------------------------------------------------------------------
(* Rendezvous *)

\* An instance is settled when its workload is up to date, or owed by a worker,
\* or lost to an error.
Settled(i) == generated[i] = Sources(instanceTable[i]) \/ Pending(i) \/ i \in dropped
Owed(i) == Known(i) /\ Complete(instanceTable[i]) /\ ~OwnName(instanceTable[i])

IInv == TypeOK /\ Connected /\ NoLostTriple

LEMMA InitNoLostTriple == Init => NoLostTriple
BY DEF Init, NoLostTriple, Known

\* Adding an instance to the work handed out leaves the others' work alone: only
\* a worker that was idle is given a job.
LEMMA HandOutPending ==
  ASSUME TypeOK, NEW c \in Controllers, job[c] = Idle, NEW op, NEW S,
         job' = [job EXCEPT ![c] = HandOut(op, S)],
         NEW i \in Insts, instanceTable'[i] = instanceTable[i], Pending(i)
  PROVE  Pending(i)'
<1>1. PICK d \in Controllers : job[d].op = "create" /\ instanceTable[i] \in job[d].insts
  BY DEF Pending
<1>2. d # c
  BY <1>1 DEF Idle
<1>3. job'[d] = job[d]
  BY <1>2 DEF TypeOK
<1> QED BY <1>1, <1>3 DEF Pending

\* An instance given to an idle worker to create is pending.
LEMMA HandedOutIsPending ==
  ASSUME TypeOK, NEW c \in Controllers, NEW S,
         job' = [job EXCEPT ![c] = HandOut("create", S)],
         NEW i \in Insts, instanceTable'[i] \in S
  PROVE  Pending(i)'
<1>1. job'[c] = [op |-> "create", insts |-> S]
  BY DEF TypeOK, HandOut
<1> QED BY <1>1 DEF Pending

\* A change of one object leaves every instance that does not name it as settled
\* as it was, and puts those that do, or that it hands out, on the worker's list.
LEMMA AddAppNoLostTriple ==
  ASSUME TypeOK, Connected, NoLostTriple, NEW key \in Apps, NEW obj \in Revisions,
         AddApp(key, obj)
  PROVE  NoLostTriple'
<1> SUFFICES ASSUME NEW i \in Insts, Owed(i)'
             PROVE  Settled(i)'
  BY DEF NoLostTriple, Owed, Settled
<1> DEFINE inst == instanceTable[i]
<1>t. appTable \in [Key -> TableElement] /\ key \in Key
  BY KeysAssumption DEF TypeOK
<1>u. instanceTable' = instanceTable /\ userTable' = userTable /\ generated' = generated
  BY DEF AddApp
<1>i. inst \in HelxInst /\ inst.key = i /\ AppKey(inst) \in Key /\ Known(i)
  BY <1>u, KeysAreKeys DEF TypeOK, Owed, Known
<1>j. job["app"] = Idle /\ "app" \in Controllers
      /\ job' = [job EXCEPT !["app"] = HandOut("create", InstList(appTable, key))]
  BY DEF AddApp, Controllers
<1>1. CASE inst \in InstList(appTable, key)
  BY <1>1, <1>u, <1>j, HandedOutIsPending DEF Settled
<1>2. CASE inst \notin InstList(appTable, key)
  <2>1. AppKey(inst) # key
    <3> SUFFICES ASSUME AppKey(inst) = key PROVE FALSE
      OBVIOUS
    <3>1. i \in appTable[key].instSet
      BY <1>i, <1>u DEF Connected, Owed, OwnName
    <3> QED BY <3>1, <1>2, <1>i DEF InstList, Known
  <2>2. appTable'[AppKey(inst)].obj = appTable[AppKey(inst)].obj
    BY <2>1, <1>t, <1>i, SetObjType DEF AddApp
  <2>3. Owed(i) /\ Sources(instanceTable[i])' = Sources(inst)
    BY <2>2, <1>u DEF Owed, Known, Complete, Sources, OwnName, GetApp, GetUser, AppKey, UserKey
  <2>4. Settled(i)
    BY <2>3 DEF NoLostTriple, Owed, Settled
  <2>5. i \in dropped => i \in dropped'
    <3> SUFFICES ASSUME NEW x \in InstList(appTable, key), x.key = i PROVE FALSE
      BY DEF AddApp
    <3>1. PICK k \in appTable[key].instSet : x = instanceTable[k] /\ instanceTable[k] # Nil
      BY DEF InstList
    <3>2. k = i
      BY <3>1, <1>t DEF TypeOK, TableElement
    <3> QED BY <3>1, <3>2, <1>2
  <2>6. Pending(i) => Pending(i)'
    BY <1>j, <1>u, HandOutPending
  <2> QED BY <2>3, <2>4, <2>5, <2>6, <1>u DEF Settled
<1> QED BY <1>1, <1>2

LEMMA AddUserNoLostTriple ==
  ASSUME TypeOK, Connected, NoLostTriple, NEW key \in Users, NEW obj \in Revisions,
         AddUser(key, obj)
  PROVE  NoLostTriple'
<1> SUFFICES ASSUME NEW i \in Insts, Owed(i)'
             PROVE  Settled(i)'
  BY DEF NoLostTriple, Owed, Settled
<1> DEFINE inst == instanceTable[i]
<1>t. userTable \in [Key -> TableElement] /\ key \in Key
  BY KeysAssumption DEF TypeOK
<1>u. instanceTable' = instanceTable /\ appTable' = appTable /\ generated' = generated
  BY DEF AddUser
<1>i. inst \in HelxInst /\ inst.key = i /\ UserKey(inst) \in Key /\ Known(i)
  BY <1>u, KeysAreKeys DEF TypeOK, Owed, Known
<1>j. job["user"] = Idle /\ "user" \in Controllers
      /\ job' = [job EXCEPT !["user"] = HandOut("create", InstList(userTable, key))]
  BY DEF AddUser, Controllers
<1>1. CASE inst \in InstList(userTable, key)
  BY <1>1, <1>u, <1>j, HandedOutIsPending DEF Settled
<1>2. CASE inst \notin InstList(userTable, key)
  <2>1. UserKey(inst) # key
    <3> SUFFICES ASSUME UserKey(inst) = key PROVE FALSE
      OBVIOUS
    <3>1. i \in userTable[key].instSet
      BY <1>i, <1>u DEF Connected, Owed, OwnName
    <3> QED BY <3>1, <1>2, <1>i DEF InstList, Known
  <2>2. userTable'[UserKey(inst)].obj = userTable[UserKey(inst)].obj
    BY <2>1, <1>t, <1>i, SetObjType DEF AddUser
  <2>3. Owed(i) /\ Sources(instanceTable[i])' = Sources(inst)
    BY <2>2, <1>u DEF Owed, Known, Complete, Sources, OwnName, GetApp, GetUser, AppKey, UserKey
  <2>4. Settled(i)
    BY <2>3 DEF NoLostTriple, Owed, Settled
  <2>5. i \in dropped => i \in dropped'
    <3> SUFFICES ASSUME NEW x \in InstList(userTable, key), x.key = i PROVE FALSE
      BY DEF AddUser
    <3>1. PICK k \in userTable[key].instSet : x = instanceTable[k] /\ instanceTable[k] # Nil
      BY DEF InstList
    <3>2. k = i
      BY <3>1, <1>t DEF TypeOK, TableElement
    <3> QED BY <3>1, <3>2, <1>2
  <2>6. Pending(i) => Pending(i)'
    BY <1>j, <1>u, HandOutPending
  <2> QED BY <2>3, <2>4, <2>5, <2>6, <1>u DEF Settled
<1> QED BY <1>1, <1>2

\* A step that changes neither i's entry nor any object keeps i owed and settled
\* if it keeps the record of what was generated and i's place on a list.
LEMMA SameObjectsNoLostTriple ==
  ASSUME NoLostTriple, TypeOK, TypeOK', NEW i \in Insts, Owed(i)',
         instanceTable'[i] = instanceTable[i],
         \A k \in Key : /\ appTable'[k].obj = appTable[k].obj
                        /\ userTable'[k].obj = userTable[k].obj,
         generated[i] = Sources(instanceTable[i]) => Settled(i)',
         Pending(i) => Settled(i)',
         i \in dropped => Settled(i)'
  PROVE  Settled(i)'
<1>1. AppKey(instanceTable[i]) \in Key /\ UserKey(instanceTable[i]) \in Key
  BY KeysAreKeys DEF TypeOK, Owed, Known
<1>2. Owed(i)
  BY <1>1 DEF Owed, Known, Complete, OwnName, GetApp, GetUser, AppKey, UserKey
<1> QED BY <1>2 DEF NoLostTriple, Owed, Settled

\* Sources of an unchanged instance over unchanged objects are unchanged.
LEMMA SameSources ==
  ASSUME TypeOK, NEW i \in Insts, Known(i), instanceTable'[i] = instanceTable[i],
         \A k \in Key : /\ appTable'[k].obj = appTable[k].obj
                        /\ userTable'[k].obj = userTable[k].obj
  PROVE  Sources(instanceTable[i])' = Sources(instanceTable[i])
<1>1. AppKey(instanceTable[i]) \in Key /\ UserKey(instanceTable[i]) \in Key
  BY KeysAreKeys DEF TypeOK, Known
<1> QED BY <1>1 DEF Sources, GetApp, GetUser, AppKey, UserKey

LEMMA AddInstNoLostTriple ==
  ASSUME TypeOK, TypeOK', NoLostTriple, NEW new \in HelxInst, AddInst(new)
  PROVE  NoLostTriple'
<1> SUFFICES ASSUME NEW i \in Insts, Owed(i)'
             PROVE  Settled(i)'
  BY DEF NoLostTriple, Owed, Settled
<1>j. job["inst"] = Idle /\ "inst" \in Controllers
      /\ job' = [job EXCEPT !["inst"] = HandOut("create", {new})]
  BY DEF AddInst, Controllers
<1>1. CASE i = new.key
  <2>1. instanceTable'[i] = new
    BY <1>1 DEF AddInst, TypeOK
  <2> QED BY <2>1, <1>j, HandedOutIsPending DEF Settled
<1>2. CASE i # new.key
  <2>1. instanceTable'[i] = instanceTable[i] /\ generated'[i] = generated[i]
    BY <1>2 DEF AddInst, TypeOK
  <2>k. new.key \in Insts /\ AppKey(new) \in Key /\ UserKey(new) \in Key
    BY KeysAreKeys DEF HelxInst
  <2>t. appTable \in [Key -> TableElement] /\ userTable \in [Key -> TableElement]
    BY DEF TypeOK
  <2>2. \A k \in Key : /\ appTable'[k].obj = appTable[k].obj
                       /\ userTable'[k].obj = userTable[k].obj
    BY <2>k, <2>t, ConnectType DEF AddInst
  <2>3. Sources(instanceTable[i])' = Sources(instanceTable[i])
    BY <2>1, <2>2, SameSources DEF Owed, Known
  <2>4. Pending(i) => Pending(i)'
    BY <1>j, <2>1, HandOutPending
  <2>5. i \in dropped => i \in dropped'
    BY <1>2 DEF AddInst
  <2> QED BY <2>1, <2>2, <2>3, <2>4, <2>5, SameObjectsNoLostTriple DEF Settled
<1> QED BY <1>1, <1>2

LEMMA ResyncInstNoLostTriple ==
  ASSUME TypeOK, TypeOK', NoLostTriple, NEW new \in HelxInst, ResyncInst(new)
  PROVE  NoLostTriple'
<1> SUFFICES ASSUME NEW i \in Insts, Owed(i)'
             PROVE  Settled(i)'
  BY DEF NoLostTriple, Owed, Settled
<1>1. CASE i = new.key /\ instanceTable[i] # new
  BY <1>1 DEF ResyncInst, Settled
<1>2. CASE ~(i = new.key /\ instanceTable[i] # new)
  <2>1. /\ instanceTable'[i] = instanceTable[i] /\ generated'[i] = generated[i]
        /\ job' = job /\ (i \in dropped => i \in dropped')
    BY <1>2 DEF ResyncInst, TypeOK
  <2>k. new.key \in Insts /\ AppKey(new) \in Key /\ UserKey(new) \in Key
    BY KeysAreKeys DEF HelxInst
  <2>t. appTable \in [Key -> TableElement] /\ userTable \in [Key -> TableElement]
    BY DEF TypeOK
  <2>2. \A k \in Key : /\ appTable'[k].obj = appTable[k].obj
                       /\ userTable'[k].obj = userTable[k].obj
    BY <2>k, <2>t, ConnectType DEF ResyncInst
  <2>3. Sources(instanceTable[i])' = Sources(instanceTable[i])
    BY <2>1, <2>2, SameSources DEF Owed, Known
  <2> QED BY <2>1, <2>2, <2>3, SameObjectsNoLostTriple DEF Settled, Pending
<1> QED BY <1>1, <1>2

LEMMA DeleteInstNoLostTriple ==
  ASSUME TypeOK, TypeOK', NoLostTriple, NEW key \in Insts, DeleteInst(key)
  PROVE  NoLostTriple'
<1> SUFFICES ASSUME NEW i \in Insts, Owed(i)'
             PROVE  Settled(i)'
  BY DEF NoLostTriple, Owed, Settled
<1>1. i # key
  BY DEF DeleteInst, Owed, Known, TypeOK
<1>2. /\ instanceTable'[i] = instanceTable[i] /\ generated'[i] = generated[i]
      /\ job' = job /\ (i \in dropped => i \in dropped')
  BY <1>1 DEF DeleteInst, TypeOK
<1>3. \A k \in Key : /\ appTable'[k].obj = appTable[k].obj
                     /\ userTable'[k].obj = userTable[k].obj
  BY DisconnectType DEF DeleteInst, TypeOK
<1>4. Sources(instanceTable[i])' = Sources(instanceTable[i])
  BY <1>2, <1>3, SameSources DEF Owed, Known
<1> QED BY <1>2, <1>3, <1>4, SameObjectsNoLostTriple DEF Settled, Pending

\* Handling a copy takes only that copy off the list.
LEMMA DonePending ==
  ASSUME TypeOK, NEW c \in Controllers, NEW x, NEW i \in Insts,
         job' = [job EXCEPT ![c] = Done(c, x)],
         instanceTable' = instanceTable, x # instanceTable[i], Pending(i)
  PROVE  Pending(i)'
<1>1. PICK d \in Controllers : job[d].op = "create" /\ instanceTable[i] \in job[d].insts
  BY DEF Pending
<1>2. CASE d = c
  <2>1. job'[c] = [op |-> "create", insts |-> job[c].insts \ {x}]
    BY <1>1, <1>2 DEF TypeOK, Done, HandOut
  <2> QED BY <1>1, <1>2, <2>1 DEF Pending
<1>3. CASE d # c
  BY <1>1, <1>3 DEF Pending, TypeOK
<1> QED BY <1>2, <1>3

LEMMA GenerateNoLostTriple ==
  ASSUME TypeOK, TypeOK', NoLostTriple, NEW c \in Controllers,
         NEW x \in job[c].insts, GenerateArtifacts(c, x)
  PROVE  NoLostTriple'
<1> SUFFICES ASSUME NEW i \in Insts, Owed(i)'
             PROVE  Settled(i)'
  BY DEF NoLostTriple, Owed, Settled
<1>1. /\ appTable' = appTable /\ userTable' = userTable
      /\ instanceTable' = instanceTable /\ dropped' = dropped
      /\ job' = [job EXCEPT ![c] = Done(c, x)]
  BY DEF GenerateArtifacts, tables
<1>2. Sources(instanceTable[i])' = Sources(instanceTable[i])
  BY <1>1 DEF Sources, GetApp, GetUser, AppKey, UserKey
<1>3. CASE x = instanceTable[i]
  <2>1. Complete(x) /\ IsCurrent(x) /\ x.key = i
    BY <1>1, <1>3 DEF Owed, Known, Complete, IsCurrent, GetApp, GetUser, AppKey, UserKey, TypeOK
  <2>2. generated'[i] = Sources(x)
    BY <2>1 DEF GenerateArtifacts, TypeOK
  <2> QED BY <1>2, <1>3, <2>2 DEF Settled
<1>4. CASE x # instanceTable[i]
  <2>1. generated'[i] = generated[i]
    BY <1>4 DEF GenerateArtifacts, IsCurrent, TypeOK
  <2>2. Pending(i) => Pending(i)'
    BY <1>1, <1>4, DonePending
  <2> QED BY <1>1, <1>2, <2>1, <2>2, SameObjectsNoLostTriple DEF Settled
<1> QED BY <1>3, <1>4

\* A step that only takes a job from one worker, and drops what it takes.
LEMMA AbandonNoLostTriple ==
  ASSUME TypeOK, TypeOK', NoLostTriple, NEW c \in Controllers, Abandon(c)
  PROVE  NoLostTriple'
<1> SUFFICES ASSUME NEW i \in Insts, Owed(i)'
             PROVE  Settled(i)'
  BY DEF NoLostTriple, Owed, Settled
<1>1. /\ appTable' = appTable /\ userTable' = userTable
      /\ instanceTable' = instanceTable /\ generated' = generated
      /\ job' = [job EXCEPT ![c] = Idle] /\ dropped \subseteq dropped'
  BY DEF Abandon, tables
<1>2. Sources(instanceTable[i])' = Sources(instanceTable[i])
  BY <1>1 DEF Sources, GetApp, GetUser, AppKey, UserKey
<1>3. ASSUME Pending(i) PROVE Settled(i)'
  <2>1. PICK d \in Controllers : job[d].op = "create" /\ instanceTable[i] \in job[d].insts
    BY <1>3 DEF Pending
  <2>2. CASE d = c
    <3>1. instanceTable[i].key = i
      BY <1>1 DEF TypeOK, Owed, Known
    <3> QED BY <2>1, <2>2, <3>1 DEF Abandon, IsCurrent, Settled
  <2>3. CASE d # c
    BY <1>1, <2>1, <2>3 DEF Pending, Settled, TypeOK
  <2> QED BY <2>2, <2>3
<1> QED BY <1>1, <1>2, <1>3, SameObjectsNoLostTriple DEF Settled

LEMMA ResyncAppNoLostTriple ==
  ASSUME TypeOK, Connected, NoLostTriple, NEW key \in Apps, NEW obj \in Revisions,
         ResyncApp(key, obj)
  PROVE  NoLostTriple'
<1> SUFFICES ASSUME NEW i \in Insts, Owed(i)'
             PROVE  Settled(i)'
  BY DEF NoLostTriple, Owed, Settled
<1> DEFINE inst == instanceTable[i]
<1>t. appTable \in [Key -> TableElement] /\ key \in Key
  BY KeysAssumption DEF TypeOK
<1>u. /\ instanceTable' = instanceTable /\ userTable' = userTable
      /\ generated' = generated /\ job' = job /\ dropped \subseteq dropped'
  BY DEF ResyncApp
<1>i. inst \in HelxInst /\ inst.key = i /\ AppKey(inst) \in Key /\ Known(i)
  BY <1>u, KeysAreKeys DEF TypeOK, Owed, Known
<1>1. CASE appTable'[AppKey(inst)].obj = appTable[AppKey(inst)].obj
  <2>1. Owed(i) /\ Sources(instanceTable[i])' = Sources(inst)
    BY <1>1, <1>u DEF Owed, Known, Complete, Sources, OwnName, GetApp, GetUser, AppKey, UserKey
  <2>2. Settled(i)
    BY <2>1 DEF NoLostTriple, Owed, Settled
  <2> QED BY <2>1, <2>2, <1>u DEF Settled, Pending
<1>2. CASE appTable'[AppKey(inst)].obj # appTable[AppKey(inst)].obj
  <2>1. AppKey(inst) = key /\ GetApp(key) # obj
    BY <1>2, <1>t, <1>i, SetObjType DEF ResyncApp, GetApp
  <2>2. i \in appTable[key].instSet
    BY <2>1, <1>i, <1>u DEF Connected, Owed, OwnName
  <2>3. inst \in InstList(appTable, key)
    BY <2>2, <1>i DEF InstList, Known
  <2> QED BY <2>1, <2>3, <1>i DEF ResyncApp, Settled
<1> QED BY <1>1, <1>2

LEMMA ResyncUserNoLostTriple ==
  ASSUME TypeOK, Connected, NoLostTriple, NEW key \in Users, NEW obj \in Revisions,
         ResyncUser(key, obj)
  PROVE  NoLostTriple'
<1> SUFFICES ASSUME NEW i \in Insts, Owed(i)'
             PROVE  Settled(i)'
  BY DEF NoLostTriple, Owed, Settled
<1> DEFINE inst == instanceTable[i]
<1>t. userTable \in [Key -> TableElement] /\ key \in Key
  BY KeysAssumption DEF TypeOK
<1>u. /\ instanceTable' = instanceTable /\ appTable' = appTable
      /\ generated' = generated /\ job' = job /\ dropped \subseteq dropped'
  BY DEF ResyncUser
<1>i. inst \in HelxInst /\ inst.key = i /\ UserKey(inst) \in Key /\ Known(i)
  BY <1>u, KeysAreKeys DEF TypeOK, Owed, Known
<1>1. CASE userTable'[UserKey(inst)].obj = userTable[UserKey(inst)].obj
  <2>1. Owed(i) /\ Sources(instanceTable[i])' = Sources(inst)
    BY <1>1, <1>u DEF Owed, Known, Complete, Sources, OwnName, GetApp, GetUser, AppKey, UserKey
  <2>2. Settled(i)
    BY <2>1 DEF NoLostTriple, Owed, Settled
  <2> QED BY <2>1, <2>2, <1>u DEF Settled, Pending
<1>2. CASE userTable'[UserKey(inst)].obj # userTable[UserKey(inst)].obj
  <2>1. UserKey(inst) = key /\ GetUser(key) # obj
    BY <1>2, <1>t, <1>i, SetObjType DEF ResyncUser, GetUser
  <2>2. i \in userTable[key].instSet
    BY <2>1, <1>i, <1>u DEF Connected, Owed, OwnName
  <2>3. inst \in InstList(userTable, key)
    BY <2>2, <1>i DEF InstList, Known
  <2> QED BY <2>1, <2>3, <1>i DEF ResyncUser, Settled
<1> QED BY <1>1, <1>2

LEMMA NextNoLostTriple == IInv /\ [Next]_vars => NoLostTriple'
<1> SUFFICES ASSUME TypeOK, Connected, NoLostTriple, [Next]_vars
             PROVE  NoLostTriple'
  BY DEF IInv
<1>t. TypeOK'
  BY NextTypeOK
<1>1. ASSUME UNCHANGED <<appTable, userTable, instanceTable, generated, dropped>>,
             \A i \in Insts : Pending(i) => Pending(i)'
      PROVE  NoLostTriple'
  BY <1>1 DEF NoLostTriple, Known, Complete, OwnName, Sources, GetApp, GetUser, AppKey, UserKey
<1>2. CASE UNCHANGED vars
  BY <1>1, <1>2 DEF vars, Pending
<1>3. ASSUME NEW key \in Apps, DeleteApp(key)
      PROVE  NoLostTriple'
  <2>1. "app" \in Controllers
    BY DEF Controllers
  <2>2. \A i \in Insts : Pending(i) => Pending(i)'
    BY <1>3, <2>1, HandOutPending DEF DeleteApp, tables
  <2> QED BY <1>1, <1>3, <2>2 DEF DeleteApp, tables
<1>4. ASSUME NEW key \in Users, DeleteUser(key)
      PROVE  NoLostTriple'
  <2>1. "user" \in Controllers
    BY DEF Controllers
  <2>2. \A i \in Insts : Pending(i) => Pending(i)'
    BY <1>4, <2>1, HandOutPending DEF DeleteUser, tables
  <2> QED BY <1>1, <1>4, <2>2 DEF DeleteUser, tables
<1>5. ASSUME NEW c \in Controllers, NEW x \in job[c].insts, DeleteDerivatives(c, x)
      PROVE  NoLostTriple'
  <2>1. ASSUME NEW i \in Insts, Pending(i)
        PROVE  Pending(i)'
    <3>1. PICK d \in Controllers : job[d].op = "create" /\ instanceTable[i] \in job[d].insts
      BY <2>1 DEF Pending
    <3> QED BY <1>5, <3>1 DEF DeleteDerivatives, tables, Pending, TypeOK
  <2> QED BY <1>1, <1>5, <2>1 DEF DeleteDerivatives, tables
<1>6. CASE Restart
  BY <1>6 DEF Restart, NoLostTriple, Known
<1> QED BY <1>t, <1>2, <1>3, <1>4, <1>5, <1>6, AddAppNoLostTriple, AddUserNoLostTriple,
           ResyncAppNoLostTriple, ResyncUserNoLostTriple,
           AddInstNoLostTriple, ResyncInstNoLostTriple, DeleteInstNoLostTriple,
           GenerateNoLostTriple, AbandonNoLostTriple DEF Next

LEMMA InductiveInvariant == Spec => []IInv
<1>1. Init => IInv
  BY InitTypeOK, InitConnected, InitNoLostTriple DEF IInv
<1>2. IInv /\ [Next]_vars => IInv'
  BY NextTypeOK, NextConnected, NextNoLostTriple DEF IInv
<1> QED BY <1>1, <1>2, PTL DEF Spec

\* No order of arrivals, changes and deletions, and no interleaving of the three
\* workers' loops, leaves a complete triple behind its app's, its user's or its own
\* current content without a worker still holding it or an error having dropped it.
THEOREM TripleRendezvous == Spec => []NoLostTriple
BY InductiveInvariant, PTL DEF IInv

\* Deleting an app hands every known instance that names it to DeleteDerivatives.
THEOREM Cascade == Spec => CascadeReachesAll
<1>1. ASSUME IInv, NEW a \in Apps, DeleteApp(a), NEW i \in Insts, Known(i),
             AppKey(instanceTable[i]) = a, a # i
      PROVE  instanceTable[i] \in job'["app"].insts
  <2>1. instanceTable[i] \in InstList(appTable, a)
    BY <1>1 DEF IInv, Connected, Known, InstList
  <2>2. job'["app"] = [op |-> "delete", insts |-> InstList(appTable, a)]
    BY <1>1, <2>1 DEF DeleteApp, HandOut, IInv, TypeOK, Controllers
  <2> QED BY <2>1, <2>2
<1>2. IInv /\ [Next]_vars =>
        [\A a \in Apps : DeleteApp(a) =>
           \A i \in Insts : (Known(i) /\ AppKey(instanceTable[i]) = a /\ a # i)
                               => instanceTable[i] \in job'["app"].insts]_vars
  BY <1>1
<1> QED BY <1>2, InductiveInvariant, PTL DEF Spec, CascadeReachesAll

-----------------------------------------------------------------------------
(* ObjectGraph implements Rendezvous: every step of the graph is a step of the *)
(* abstract specification under the mapping R of ObjectGraph, or changes       *)
(* nothing that Rendezvous sees.                                               *)

\* What the mapping substitutes for the variables of Rendezvous.
AbsApp == [k \in Apps |-> GetApp(k)]
AbsUser == [k \in Users |-> GetUser(k)]
AbsInst == [i \in Insts |-> IF Promised(i) THEN Naming(instanceTable[i]) ELSE Nil]
AbsOwed == {i \in Insts : Promised(i) /\ Pending(i)}
AbsDone == [i \in Insts |-> IF Promised(i) THEN generated[i] ELSE Nil]
AbsPassed == {i \in dropped : Promised(i)}
AbsVars == <<AbsApp, AbsUser, AbsInst, AbsOwed, AbsDone, AbsPassed>>

\* Objects are seen only under names that an app or a user may have.
SeenAreNamed == /\ \A k \in Key \ Apps : GetApp(k) = Nil
                /\ \A k \in Key \ Users : GetUser(k) = Nil

LEMMA NextSeenAreNamed == TypeOK /\ SeenAreNamed /\ [Next]_vars => SeenAreNamed'
<1> SUFFICES ASSUME TypeOK, SeenAreNamed, [Next]_vars PROVE SeenAreNamed'
  OBVIOUS
<1>t. appTable \in [Key -> TableElement] /\ userTable \in [Key -> TableElement]
  BY DEF TypeOK
<1>s. ASSUME \A k \in Key \ Apps : appTable'[k].obj = appTable[k].obj,
             \A k \in Key \ Users : userTable'[k].obj = userTable[k].obj
      PROVE  SeenAreNamed'
  BY <1>s DEF SeenAreNamed, GetApp, GetUser
<1>u. CASE UNCHANGED <<appTable, userTable>>
  BY <1>s, <1>u
<1>1. ASSUME NEW key \in Apps, NEW obj \in Revisions,
             AddApp(key, obj) \/ ResyncApp(key, obj)
      PROVE  SeenAreNamed'
  <2>1. appTable' = SetObj(appTable, key, obj) /\ userTable' = userTable
    BY <1>1 DEF AddApp, ResyncApp
  <2>2. key \in Key /\ \A k \in Key : k # key => appTable'[k].obj = appTable[k].obj
    BY <1>t, <2>1, SetObjType, KeysAssumption
  <2> QED BY <1>s, <2>1, <2>2
<1>2. ASSUME NEW key \in Users, NEW obj \in Revisions,
             AddUser(key, obj) \/ ResyncUser(key, obj)
      PROVE  SeenAreNamed'
  <2>1. userTable' = SetObj(userTable, key, obj) /\ appTable' = appTable
    BY <1>2 DEF AddUser, ResyncUser
  <2>2. key \in Key /\ \A k \in Key : k # key => userTable'[k].obj = userTable[k].obj
    BY <1>t, <2>1, SetObjType, KeysAssumption
  <2> QED BY <1>s, <2>1, <2>2
<1>3. ASSUME NEW inst \in HelxInst, AddInst(inst) \/ ResyncInst(inst)
      PROVE  SeenAreNamed'
  <2>1. AppKey(inst) \in Key /\ UserKey(inst) \in Key /\ inst.key \in Insts
    BY KeysAreKeys DEF HelxInst
  <2> QED BY <1>3, <1>s, <1>t, <2>1, ConnectType DEF AddInst, ResyncInst
<1>4. ASSUME NEW key \in Insts, DeleteInst(key)
      PROVE  SeenAreNamed'
  BY <1>4, <1>s, <1>t, DisconnectType DEF DeleteInst
<1>5. CASE Restart
  BY <1>5 DEF Restart, SeenAreNamed, GetApp, GetUser, EmptyElement
<1>6. CASE UNCHANGED vars
  BY <1>6, <1>u DEF vars
<1>7. ASSUME NEW key, DeleteApp(key) \/ DeleteUser(key) PROVE SeenAreNamed'
  BY <1>7, <1>u DEF DeleteApp, DeleteUser, tables
<1>8. ASSUME NEW c \in Controllers, NEW inst,
             GenerateArtifacts(c, inst) \/ DeleteDerivatives(c, inst) \/ Abandon(c)
      PROVE  SeenAreNamed'
  BY <1>8, <1>u DEF GenerateArtifacts, DeleteDerivatives, Abandon, tables
<1> QED BY <1>1, <1>2, <1>3, <1>4, <1>5, <1>6, <1>7, <1>8 DEF Next

RInv == IInv /\ SeenAreNamed

LEMMA RefinementInvariant == Spec => []RInv
<1>1. Init => SeenAreNamed
  BY DEF Init, SeenAreNamed, GetApp, GetUser, EmptyElement
<1>2. IInv /\ SeenAreNamed /\ [Next]_vars => SeenAreNamed'
  BY NextSeenAreNamed DEF IInv
<1> QED BY <1>1, <1>2, InductiveInvariant, PTL DEF Spec, RInv

-----------------------------------------------------------------------------
(* What the abstract state sees of a step *)

\* A known instance is a record of its own: the abstract specification knows it.
LEMMA PromisedIsKnown ==
  ASSUME TypeOK, NEW i \in Insts, Promised(i)
  PROVE  /\ instanceTable[i] \in HelxInst /\ instanceTable[i].key = i
         /\ AppKey(instanceTable[i]) \in Key /\ AppKey(instanceTable[i]) # i
         /\ UserKey(instanceTable[i]) \in Key /\ UserKey(instanceTable[i]) # i
         /\ AbsInst[i] = Naming(instanceTable[i]) /\ AbsInst[i] # Nil
         /\ AbsInst[i].app = AppKey(instanceTable[i])
         /\ AbsInst[i].user = UserKey(instanceTable[i])
<1>1. instanceTable[i] \in HelxInst /\ instanceTable[i].key = i
  BY DEF TypeOK, Promised, Known
<1>2. AppKey(instanceTable[i]) # i /\ UserKey(instanceTable[i]) # i
  BY <1>1 DEF Promised, OwnName
<1>3. AbsInst[i] = Naming(instanceTable[i])
  BY DEF AbsInst
<1> QED BY <1>1, <1>2, <1>3, KeysAreKeys, NamingAssumption DEF Naming

LEMMA AbsKnown == TypeOK => R!Known = {i \in Insts : Promised(i)}
BY PromisedIsKnown DEF R!Known, AbsInst

\* A step that changes no object and no instance, and leaves everybody as owed, as
\* up to date and as passed over as it was, is invisible.
LEMMA Invisible ==
  ASSUME TypeOK, UNCHANGED <<instanceTable, AbsApp, AbsUser>>,
         \A i \in Insts : Promised(i) =>
            /\ generated'[i] = generated[i]
            /\ i \in dropped' <=> i \in dropped
            /\ Pending(i)' <=> Pending(i),
         dropped' \in SUBSET Insts
  PROVE  UNCHANGED R!vars
<1>1. \A i \in Insts : Promised(i)' <=> Promised(i)
  BY DEF Promised, Known, OwnName, AppKey, UserKey
<1>2. UNCHANGED <<AbsInst, AbsDone>>
  BY <1>1 DEF AbsInst, AbsDone, Naming, AppKey, UserKey
<1>3. UNCHANGED <<AbsOwed, AbsPassed>>
  BY <1>1 DEF AbsOwed, AbsPassed, TypeOK
<1> QED BY <1>2, <1>3
        DEF R!vars, AbsApp, AbsUser, AbsInst, AbsOwed, AbsDone, AbsPassed

\* An idle worker that is given any copies but an instance's current one owes that
\* instance nothing new.
LEMMA HandOutOwesNoMore ==
  ASSUME TypeOK, NEW c \in Controllers, job[c] = Idle, NEW op, NEW S,
         job' = [job EXCEPT ![c] = HandOut(op, S)],
         NEW i \in Insts, instanceTable'[i] = instanceTable[i],
         instanceTable[i] \notin S, Pending(i)'
  PROVE  Pending(i)
<1>1. PICK d \in Controllers : job'[d].op = "create" /\ instanceTable[i] \in job'[d].insts
  BY DEF Pending
<1>2. CASE d = c
  <2>1. job'[c] = HandOut(op, S)
    BY DEF TypeOK
  <2> QED BY <1>1, <1>2, <2>1 DEF HandOut, Idle
<1>3. CASE d # c
  BY <1>1, <1>3 DEF Pending, TypeOK
<1> QED BY <1>2, <1>3

LEMMA DoneOwesNoMore ==
  ASSUME TypeOK, NEW c \in Controllers, NEW x, NEW i \in Insts,
         job' = [job EXCEPT ![c] = Done(c, x)],
         instanceTable' = instanceTable, Pending(i)'
  PROVE  Pending(i)
<1>1. PICK d \in Controllers : job'[d].op = "create" /\ instanceTable[i] \in job'[d].insts
  BY DEF Pending
<1>2. CASE d = c
  <2>1. job'[c] = HandOut(job[c].op, job[c].insts \ {x})
    BY DEF TypeOK, Done
  <2> QED BY <1>1, <1>2, <2>1 DEF HandOut, Idle, Pending
<1>3. CASE d # c
  BY <1>1, <1>3 DEF Pending, TypeOK
<1> QED BY <1>2, <1>3
-----------------------------------------------------------------------------
(* Sightings *)

LEMMA SeeAppMaps ==
  ASSUME TypeOK, NEW k \in Apps, NEW obj \in Revisions, NEW S \in SUBSET Insts,
         AbsApp' = [AbsApp EXCEPT ![k] = obj], UNCHANGED <<AbsUser, AbsDone, AbsInst>>,
         \A i \in S : Promised(i),
         \A i \in Insts : Promised(i) /\ AppKey(instanceTable[i]) = k => i \in S,
         \/ AbsOwed' = AbsOwed \cup S /\ AbsPassed' = AbsPassed \ S
         \/ AbsOwed' = AbsOwed /\ AbsPassed' = AbsPassed \cup S
  PROVE  R!SeeApp(k, obj)
<1>1. R!Known = {i \in Insts : Promised(i)}
  BY AbsKnown
<1>2. R!NamingApp(k) \subseteq S
  BY <1>1, PromisedIsKnown DEF R!NamingApp, AbsInst
<1>3. S \in SUBSET R!Known
  BY <1>1
<1>4. R!Owe(R!NamingApp(k))
  BY <1>2, <1>3 DEF R!Owe, AbsOwed, AbsPassed
<1> QED BY <1>4 DEF R!SeeApp, AbsApp, AbsUser, AbsDone, AbsInst

LEMMA SeeUserMaps ==
  ASSUME TypeOK, NEW k \in Users, NEW obj \in Revisions, NEW S \in SUBSET Insts,
         AbsUser' = [AbsUser EXCEPT ![k] = obj], UNCHANGED <<AbsApp, AbsDone, AbsInst>>,
         \A i \in S : Promised(i),
         \A i \in Insts : Promised(i) /\ UserKey(instanceTable[i]) = k => i \in S,
         \/ AbsOwed' = AbsOwed \cup S /\ AbsPassed' = AbsPassed \ S
         \/ AbsOwed' = AbsOwed /\ AbsPassed' = AbsPassed \cup S
  PROVE  R!SeeUser(k, obj)
<1>1. R!Known = {i \in Insts : Promised(i)}
  BY AbsKnown
<1>2. R!NamingUser(k) \subseteq S
  BY <1>1, PromisedIsKnown DEF R!NamingUser, AbsInst
<1>3. S \in SUBSET R!Known
  BY <1>1
<1>4. R!Owe(R!NamingUser(k))
  BY <1>2, <1>3 DEF R!Owe, AbsOwed, AbsPassed
<1> QED BY <1>4 DEF R!SeeUser, AbsApp, AbsUser, AbsDone, AbsInst

LEMMA AddAppMaps ==
  ASSUME IInv, NEW key \in Apps, NEW obj \in Revisions, AddApp(key, obj)
  PROVE  R!SeeApp(key, obj)
<1> DEFINE S == {i \in Insts : Promised(i) /\ instanceTable[i] \in InstList(appTable, key)}
<1>t. /\ TypeOK /\ appTable \in [Key -> TableElement] /\ key \in Key
      /\ "app" \in Controllers
  BY KeysAssumption DEF IInv, TypeOK, Controllers
<1>u. /\ instanceTable' = instanceTable /\ userTable' = userTable /\ generated' = generated
      /\ appTable' = SetObj(appTable, key, obj) /\ job["app"] = Idle
      /\ job' = [job EXCEPT !["app"] = HandOut("create", InstList(appTable, key))]
  BY DEF AddApp
<1>p. \A i \in Insts : Promised(i)' <=> Promised(i)
  BY <1>u DEF Promised, Known, OwnName, AppKey, UserKey
<1>1. AbsApp' = [AbsApp EXCEPT ![key] = obj]
  <2>1. \A k \in Apps : k \in Key /\ appTable'[k].obj = IF k = key THEN obj ELSE appTable[k].obj
    BY <1>t, <1>u, SetObjType, KeysAssumption
  <2> QED BY <2>1 DEF AbsApp, GetApp
<1>2. UNCHANGED <<AbsUser, AbsDone, AbsInst>>
  BY <1>u, <1>p DEF AbsUser, GetUser, AbsDone, AbsInst, Naming, AppKey, UserKey
<1>3. \A i \in Insts : Promised(i) /\ AppKey(instanceTable[i]) = key => i \in S
  <2> SUFFICES ASSUME NEW i \in Insts, Promised(i), AppKey(instanceTable[i]) = key
               PROVE  instanceTable[i] \in InstList(appTable, key)
    OBVIOUS
  <2>1. i \in appTable[key].instSet
    BY <1>t, PromisedIsKnown DEF IInv, Connected, Promised
  <2> QED BY <2>1 DEF InstList, Promised, Known
<1>4. AbsOwed' = AbsOwed \cup S
  <2> SUFFICES ASSUME NEW i \in Insts, Promised(i)
               PROVE  Pending(i)' <=> Pending(i) \/ instanceTable[i] \in InstList(appTable, key)
    BY <1>p DEF AbsOwed
  <2>1. Pending(i) => Pending(i)'
    BY <1>t, <1>u, HandOutPending
  <2>2. instanceTable[i] \in InstList(appTable, key) => Pending(i)'
    BY <1>t, <1>u, HandedOutIsPending
  <2>3. instanceTable[i] \notin InstList(appTable, key) /\ Pending(i)' => Pending(i)
    BY <1>t, <1>u, HandOutOwesNoMore
  <2> QED BY <2>1, <2>2, <2>3
<1>5. AbsPassed' = AbsPassed \ S
  <2>1. dropped' = dropped \ {inst.key : inst \in InstList(appTable, key)}
    BY DEF AddApp
  <2>2. ASSUME NEW i \in Insts, Promised(i)
        PROVE  i \in {inst.key : inst \in InstList(appTable, key)}
                 <=> instanceTable[i] \in InstList(appTable, key)
    BY <1>t, <2>2, PromisedIsKnown DEF InstList, TableElement, TypeOK
  <2> QED BY <1>p, <1>t, <2>1, <2>2 DEF AbsPassed, TypeOK
<1> HIDE DEF S
<1>6. S \in SUBSET Insts /\ \A i \in S : Promised(i)
  BY DEF S
<1> QED BY <1>t, <1>1, <1>2, <1>3, <1>4, <1>5, <1>6, SeeAppMaps

LEMMA AddUserMaps ==
  ASSUME IInv, NEW key \in Users, NEW obj \in Revisions, AddUser(key, obj)
  PROVE  R!SeeUser(key, obj)
<1> DEFINE S == {i \in Insts : Promised(i) /\ instanceTable[i] \in InstList(userTable, key)}
<1>t. /\ TypeOK /\ userTable \in [Key -> TableElement] /\ key \in Key
      /\ "user" \in Controllers
  BY KeysAssumption DEF IInv, TypeOK, Controllers
<1>u. /\ instanceTable' = instanceTable /\ appTable' = appTable /\ generated' = generated
      /\ userTable' = SetObj(userTable, key, obj) /\ job["user"] = Idle
      /\ job' = [job EXCEPT !["user"] = HandOut("create", InstList(userTable, key))]
  BY DEF AddUser
<1>p. \A i \in Insts : Promised(i)' <=> Promised(i)
  BY <1>u DEF Promised, Known, OwnName, AppKey, UserKey
<1>1. AbsUser' = [AbsUser EXCEPT ![key] = obj]
  <2>1. \A k \in Users : k \in Key /\ userTable'[k].obj = IF k = key THEN obj ELSE userTable[k].obj
    BY <1>t, <1>u, SetObjType, KeysAssumption
  <2> QED BY <2>1 DEF AbsUser, GetUser
<1>2. UNCHANGED <<AbsApp, AbsDone, AbsInst>>
  BY <1>u, <1>p DEF AbsApp, GetApp, AbsDone, AbsInst, Naming, AppKey, UserKey
<1>3. \A i \in Insts : Promised(i) /\ UserKey(instanceTable[i]) = key => i \in S
  <2> SUFFICES ASSUME NEW i \in Insts, Promised(i), UserKey(instanceTable[i]) = key
               PROVE  instanceTable[i] \in InstList(userTable, key)
    OBVIOUS
  <2>1. i \in userTable[key].instSet
    BY <1>t, PromisedIsKnown DEF IInv, Connected, Promised
  <2> QED BY <2>1 DEF InstList, Promised, Known
<1>4. AbsOwed' = AbsOwed \cup S
  <2> SUFFICES ASSUME NEW i \in Insts, Promised(i)
               PROVE  Pending(i)' <=> Pending(i) \/ instanceTable[i] \in InstList(userTable, key)
    BY <1>p DEF AbsOwed
  <2>1. Pending(i) => Pending(i)'
    BY <1>t, <1>u, HandOutPending
  <2>2. instanceTable[i] \in InstList(userTable, key) => Pending(i)'
    BY <1>t, <1>u, HandedOutIsPending
  <2>3. instanceTable[i] \notin InstList(userTable, key) /\ Pending(i)' => Pending(i)
    BY <1>t, <1>u, HandOutOwesNoMore
  <2> QED BY <2>1, <2>2, <2>3
<1>5. AbsPassed' = AbsPassed \ S
  <2>1. dropped' = dropped \ {inst.key : inst \in InstList(userTable, key)}
    BY DEF AddUser
  <2>2. ASSUME NEW i \in Insts, Promised(i)
        PROVE  i \in {inst.key : inst \in InstList(userTable, key)}
                 <=> instanceTable[i] \in InstList(userTable, key)
    BY <1>t, <2>2, PromisedIsKnown DEF InstList, TableElement, TypeOK
  <2> QED BY <1>p, <1>t, <2>1, <2>2 DEF AbsPassed, TypeOK
<1> HIDE DEF S
<1>6. S \in SUBSET Insts /\ \A i \in S : Promised(i)
  BY DEF S
<1> QED BY <1>t, <1>1, <1>2, <1>3, <1>4, <1>5, <1>6, SeeUserMaps

LEMMA ResyncAppMaps ==
  ASSUME IInv, TypeOK', NEW key \in Apps, NEW obj \in Revisions, ResyncApp(key, obj)
  PROVE  R!SeeApp(key, obj) \/ UNCHANGED R!vars
<1> DEFINE S == {i \in Insts : Promised(i) /\ instanceTable[i] \in InstList(appTable, key)}
<1>t. TypeOK /\ appTable \in [Key -> TableElement] /\ key \in Key
  BY KeysAssumption DEF IInv, TypeOK
<1>u. /\ instanceTable' = instanceTable /\ userTable' = userTable /\ generated' = generated
      /\ appTable' = SetObj(appTable, key, obj) /\ job' = job
  BY DEF ResyncApp
<1>p. \A i \in Insts : (Promised(i)' <=> Promised(i)) /\ (Pending(i)' <=> Pending(i))
  BY <1>u DEF Promised, Known, OwnName, AppKey, UserKey, Pending
<1>1. AbsApp' = [AbsApp EXCEPT ![key] = obj]
  <2>1. \A k \in Apps : k \in Key /\ appTable'[k].obj = IF k = key THEN obj ELSE appTable[k].obj
    BY <1>t, <1>u, SetObjType, KeysAssumption
  <2> QED BY <2>1 DEF AbsApp, GetApp
<1>2. UNCHANGED <<AbsUser, AbsDone, AbsInst>>
  BY <1>u, <1>p DEF AbsUser, GetUser, AbsDone, AbsInst, Naming, AppKey, UserKey
<1>3. CASE GetApp(key) = obj
  <2>1. AbsApp' = AbsApp
    BY <1>1, <1>3 DEF AbsApp
  <2>2. dropped' = dropped
    BY <1>3 DEF ResyncApp
  <2> QED BY <1>t, <1>u, <1>p, <1>2, <2>1, <2>2, Invisible DEF TypeOK
<1>4. CASE GetApp(key) # obj
  <2>1. \A i \in Insts : Promised(i) /\ AppKey(instanceTable[i]) = key => i \in S
    <3> SUFFICES ASSUME NEW i \in Insts, Promised(i), AppKey(instanceTable[i]) = key
                 PROVE  instanceTable[i] \in InstList(appTable, key)
      OBVIOUS
    <3>1. i \in appTable[key].instSet
      BY <1>t, PromisedIsKnown DEF IInv, Connected, Promised
    <3> QED BY <3>1 DEF InstList, Promised, Known
  <2>2. AbsOwed' = AbsOwed
    BY <1>p DEF AbsOwed
  <2>3. AbsPassed' = AbsPassed \cup S
    <3>1. dropped' = dropped \cup {inst.key : inst \in InstList(appTable, key)}
      BY <1>4 DEF ResyncApp
    <3>2. ASSUME NEW i \in Insts, Promised(i)
          PROVE  i \in {inst.key : inst \in InstList(appTable, key)}
                   <=> instanceTable[i] \in InstList(appTable, key)
      BY <1>t, <3>2, PromisedIsKnown DEF InstList, TableElement, TypeOK
    <3> QED BY <1>p, <1>t, <3>1, <3>2 DEF AbsPassed, TypeOK
  <2> HIDE DEF S
  <2>4. S \in SUBSET Insts /\ \A i \in S : Promised(i)
    BY DEF S
  <2> QED BY <1>t, <1>1, <1>2, <2>1, <2>2, <2>3, <2>4, SeeAppMaps
<1> QED BY <1>3, <1>4

LEMMA ResyncUserMaps ==
  ASSUME IInv, TypeOK', NEW key \in Users, NEW obj \in Revisions, ResyncUser(key, obj)
  PROVE  R!SeeUser(key, obj) \/ UNCHANGED R!vars
<1> DEFINE S == {i \in Insts : Promised(i) /\ instanceTable[i] \in InstList(userTable, key)}
<1>t. TypeOK /\ userTable \in [Key -> TableElement] /\ key \in Key
  BY KeysAssumption DEF IInv, TypeOK
<1>u. /\ instanceTable' = instanceTable /\ appTable' = appTable /\ generated' = generated
      /\ userTable' = SetObj(userTable, key, obj) /\ job' = job
  BY DEF ResyncUser
<1>p. \A i \in Insts : (Promised(i)' <=> Promised(i)) /\ (Pending(i)' <=> Pending(i))
  BY <1>u DEF Promised, Known, OwnName, AppKey, UserKey, Pending
<1>1. AbsUser' = [AbsUser EXCEPT ![key] = obj]
  <2>1. \A k \in Users : k \in Key /\ userTable'[k].obj = IF k = key THEN obj ELSE userTable[k].obj
    BY <1>t, <1>u, SetObjType, KeysAssumption
  <2> QED BY <2>1 DEF AbsUser, GetUser
<1>2. UNCHANGED <<AbsApp, AbsDone, AbsInst>>
  BY <1>u, <1>p DEF AbsApp, GetApp, AbsDone, AbsInst, Naming, AppKey, UserKey
<1>3. CASE GetUser(key) = obj
  <2>1. AbsUser' = AbsUser
    BY <1>1, <1>3 DEF AbsUser
  <2>2. dropped' = dropped
    BY <1>3 DEF ResyncUser
  <2> QED BY <1>t, <1>u, <1>p, <1>2, <2>1, <2>2, Invisible DEF TypeOK
<1>4. CASE GetUser(key) # obj
  <2>1. \A i \in Insts : Promised(i) /\ UserKey(instanceTable[i]) = key => i \in S
    <3> SUFFICES ASSUME NEW i \in Insts, Promised(i), UserKey(instanceTable[i]) = key
                 PROVE  instanceTable[i] \in InstList(userTable, key)
      OBVIOUS
    <3>1. i \in userTable[key].instSet
      BY <1>t, PromisedIsKnown DEF IInv, Connected, Promised
    <3> QED BY <3>1 DEF InstList, Promised, Known
  <2>2. AbsOwed' = AbsOwed
    BY <1>p DEF AbsOwed
  <2>3. AbsPassed' = AbsPassed \cup S
    <3>1. dropped' = dropped \cup {inst.key : inst \in InstList(userTable, key)}
      BY <1>4 DEF ResyncUser
    <3>2. ASSUME NEW i \in Insts, Promised(i)
          PROVE  i \in {inst.key : inst \in InstList(userTable, key)}
                   <=> instanceTable[i] \in InstList(userTable, key)
      BY <1>t, <3>2, PromisedIsKnown DEF InstList, TableElement, TypeOK
    <3> QED BY <1>p, <1>t, <3>1, <3>2 DEF AbsPassed, TypeOK
  <2> HIDE DEF S
  <2>4. S \in SUBSET Insts /\ \A i \in S : Promised(i)
    BY DEF S
  <2> QED BY <1>t, <1>1, <1>2, <2>1, <2>2, <2>3, <2>4, SeeUserMaps
<1> QED BY <1>3, <1>4

\* The deletion of an app or a user hands out copies to delete, which nobody is owed.
LEMMA DeletionInvisible ==
  ASSUME TypeOK, NEW c \in Controllers, NEW S, job[c] = Idle,
         job' = [job EXCEPT ![c] = HandOut("delete", S)],
         UNCHANGED <<tables, generated, dropped>>
  PROVE  UNCHANGED R!vars
<1>1. UNCHANGED <<instanceTable, AbsApp, AbsUser>>
  BY DEF tables, AbsApp, AbsUser, GetApp, GetUser
<1>2. ASSUME NEW i \in Insts PROVE Pending(i)' <=> Pending(i)
  <2>1. instanceTable'[i] = instanceTable[i]
    BY <1>1
  <2>2. Pending(i) => Pending(i)'
    BY <2>1, HandOutPending
  <2>3. Pending(i)' => Pending(i)
    <3>1. job'[c].op # "create" /\ \A d \in Controllers \ {c} : job'[d] = job[d]
      BY DEF TypeOK, HandOut, Idle
    <3> QED BY <2>1, <3>1 DEF Pending
  <2> QED BY <2>2, <2>3
<1>3. generated' = generated /\ dropped' = dropped /\ dropped \in SUBSET Insts
  BY DEF TypeOK
<1> QED BY <1>1, <1>2, <1>3, Invisible

-----------------------------------------------------------------------------
(* Instances *)

\* The objects an instance reconciler's step leaves alone.
LEMMA SameObjects ==
  ASSUME \A k \in Key : appTable'[k].obj = appTable[k].obj /\ userTable'[k].obj = userTable[k].obj
  PROVE  UNCHANGED <<AbsApp, AbsUser>>
BY KeysAssumption DEF AbsApp, AbsUser, GetApp, GetUser

\* What an instance reconciler's step does to other instances than its own.
OthersKept(key) ==
  \A i \in Insts \ {key} :
     /\ instanceTable'[i] = instanceTable[i] /\ generated'[i] = generated[i]
     /\ i \in dropped' <=> i \in dropped
     /\ Promised(i) => (Pending(i)' <=> Pending(i))

\* A step after which the instance is unknown, or beyond the promise.
LEMMA ForgetMaps ==
  ASSUME TypeOK, TypeOK', NEW key \in Insts, UNCHANGED <<AbsApp, AbsUser>>,
         OthersKept(key), ~Promised(key)'
  PROVE  R!Forget(key)
<1>1. \A i \in Insts \ {key} : Promised(i)' <=> Promised(i)
  BY DEF OthersKept, Promised, Known, OwnName, AppKey, UserKey
<1>2. AbsInst' = [AbsInst EXCEPT ![key] = Nil] /\ AbsDone' = [AbsDone EXCEPT ![key] = Nil]
  BY <1>1 DEF OthersKept, AbsInst, AbsDone, Naming, AppKey, UserKey
<1>3. AbsOwed' = AbsOwed \ {key} /\ AbsPassed' = AbsPassed \ {key}
  BY <1>1 DEF OthersKept, AbsOwed, AbsPassed, TypeOK
<1> QED BY <1>2, <1>3
        DEF R!Forget, AbsApp, AbsUser, AbsInst, AbsOwed, AbsDone, AbsPassed

\* A step after which the instance is known with this spec, owed or passed over.
LEMMA SeeInstMaps ==
  ASSUME TypeOK, TypeOK', NEW new \in HelxInst, UNCHANGED <<AbsApp, AbsUser>>,
         OthersKept(new.key), Promised(new.key)',
         instanceTable'[new.key] = new, generated'[new.key] = Nil,
         \/ Pending(new.key)' /\ new.key \notin dropped'
         \/ new.key \in dropped'
  PROVE  R!SeeInst(new.key)
<1> DEFINE key == new.key
<1>k. key \in Insts
  BY DEF HelxInst
<1>1. \A i \in Insts \ {key} : Promised(i)' <=> Promised(i)
  BY DEF OthersKept, Promised, Known, OwnName, AppKey, UserKey
<1>2. AbsInst' = [AbsInst EXCEPT ![key] = Naming(new)]
  BY <1>1, <1>k DEF OthersKept, AbsInst, Naming, AppKey, UserKey
<1>3. AbsDone' = [AbsDone EXCEPT ![key] = Nil]
  BY <1>1, <1>k DEF OthersKept, AbsDone
<1>4. \/ AbsOwed' = AbsOwed \cup {key} /\ AbsPassed' = AbsPassed \ {key}
      \/ AbsOwed' \in {AbsOwed \ {key}, AbsOwed \cup {key}} /\ AbsPassed' = AbsPassed \cup {key}
  <2>1. AbsOwed' = IF Pending(key)' THEN AbsOwed \cup {key} ELSE AbsOwed \ {key}
    BY <1>1, <1>k DEF OthersKept, AbsOwed
  <2>2. AbsPassed' = IF key \in dropped' THEN AbsPassed \cup {key} ELSE AbsPassed \ {key}
    BY <1>1, <1>k DEF OthersKept, AbsPassed, TypeOK
  <2> QED BY <2>1, <2>2
<1>5. \E spec \in {Naming(inst) : inst \in HelxInst} : AbsInst' = [AbsInst EXCEPT ![key] = spec]
  BY <1>2
<1> QED BY <1>3, <1>4, <1>5
        DEF R!SeeInst, AbsApp, AbsUser, AbsInst, AbsOwed, AbsDone, AbsPassed

LEMMA AddInstMaps ==
  ASSUME IInv, TypeOK', NEW new \in HelxInst, AddInst(new)
  PROVE  R!SeeInst(new.key) \/ R!Forget(new.key)
<1>t. /\ TypeOK /\ new.key \in Insts /\ AppKey(new) \in Key /\ UserKey(new) \in Key
      /\ appTable \in [Key -> TableElement] /\ userTable \in [Key -> TableElement]
      /\ "inst" \in Controllers
  BY KeysAreKeys DEF IInv, TypeOK, HelxInst, Controllers
<1>u. /\ job["inst"] = Idle /\ job' = [job EXCEPT !["inst"] = HandOut("create", {new})]
      /\ instanceTable' = [instanceTable EXCEPT ![new.key] = new]
      /\ generated' = [generated EXCEPT ![new.key] = Nil]
      /\ dropped' = dropped \ {new.key}
  BY DEF AddInst
<1>1. UNCHANGED <<AbsApp, AbsUser>>
  <2>1. \A k \in Key : appTable'[k].obj = appTable[k].obj /\ userTable'[k].obj = userTable[k].obj
    BY <1>t, ConnectType DEF AddInst
  <2> QED BY <2>1, SameObjects
<1>2. /\ instanceTable'[new.key] = new /\ generated'[new.key] = Nil
      /\ new.key \notin dropped' /\ Known(new.key)'
  <2>1. instanceTable'[new.key] = new /\ generated'[new.key] = Nil /\ new.key \notin dropped'
    BY <1>t, <1>u DEF TypeOK
  <2>2. new # Nil
    BY NilAssumption
  <2> QED BY <2>1, <2>2 DEF Known
<1>3. Pending(new.key)'
  BY <1>t, <1>u, <1>2, HandedOutIsPending
<1>4. OthersKept(new.key)
  <2> SUFFICES ASSUME NEW i \in Insts \ {new.key}
               PROVE  /\ instanceTable'[i] = instanceTable[i] /\ generated'[i] = generated[i]
                      /\ i \in dropped' <=> i \in dropped
                      /\ Promised(i) => (Pending(i)' <=> Pending(i))
    BY DEF OthersKept
  <2>1. /\ instanceTable'[i] = instanceTable[i] /\ generated'[i] = generated[i]
        /\ i \in dropped' <=> i \in dropped
    BY <1>t, <1>u DEF TypeOK
  <2>2. Pending(i) => Pending(i)'
    BY <1>t, <1>u, <2>1, HandOutPending
  <2>3. ASSUME Promised(i), Pending(i)' PROVE Pending(i)
    <3>1. instanceTable[i] \notin {new}
      BY <1>t, <2>3, PromisedIsKnown
    <3> QED BY <1>t, <1>u, <2>1, <2>3, <3>1, HandOutOwesNoMore
  <2> QED BY <2>1, <2>2, <2>3
<1>5. CASE Promised(new.key)'
  BY <1>t, <1>1, <1>2, <1>3, <1>4, <1>5, SeeInstMaps
<1>6. CASE ~Promised(new.key)'
  BY <1>t, <1>1, <1>4, <1>6, ForgetMaps
<1> QED BY <1>5, <1>6

LEMMA ResyncInstMaps ==
  ASSUME IInv, TypeOK', NEW new \in HelxInst, ResyncInst(new)
  PROVE  R!SeeInst(new.key) \/ R!Forget(new.key) \/ UNCHANGED R!vars
<1>t. /\ TypeOK /\ new.key \in Insts /\ AppKey(new) \in Key /\ UserKey(new) \in Key
      /\ appTable \in [Key -> TableElement] /\ userTable \in [Key -> TableElement]
  BY KeysAreKeys DEF IInv, TypeOK, HelxInst
<1>u. job' = job /\ instanceTable' = [instanceTable EXCEPT ![new.key] = new]
  BY DEF ResyncInst
<1>1. UNCHANGED <<AbsApp, AbsUser>>
  <2>1. \A k \in Key : appTable'[k].obj = appTable[k].obj /\ userTable'[k].obj = userTable[k].obj
    BY <1>t, ConnectType DEF ResyncInst
  <2> QED BY <2>1, SameObjects
<1>2. CASE instanceTable[new.key] = new
  <2>1. instanceTable' = instanceTable /\ generated' = generated /\ dropped' = dropped
    BY <1>t, <1>u, <1>2 DEF ResyncInst, TypeOK
  <2>2. \A i \in Insts : Pending(i)' <=> Pending(i)
    BY <1>u, <2>1 DEF Pending
  <2> QED BY <1>t, <1>1, <2>1, <2>2, Invisible DEF TypeOK
<1>3. CASE instanceTable[new.key] # new
  <2>u. generated' = [generated EXCEPT ![new.key] = Nil] /\ dropped' = dropped \cup {new.key}
    BY <1>3 DEF ResyncInst
  <2>1. /\ instanceTable'[new.key] = new /\ generated'[new.key] = Nil
        /\ new.key \in dropped'
    BY <1>t, <1>u, <2>u DEF TypeOK
  <2>2. OthersKept(new.key)
    BY <1>t, <1>u, <2>u DEF OthersKept, Pending, TypeOK
  <2>3. CASE Promised(new.key)'
    BY <1>t, <1>1, <2>1, <2>2, <2>3, SeeInstMaps
  <2>4. CASE ~Promised(new.key)'
    BY <1>t, <1>1, <2>2, <2>4, ForgetMaps
  <2> QED BY <2>3, <2>4
<1> QED BY <1>2, <1>3

LEMMA DeleteInstMaps ==
  ASSUME IInv, TypeOK', NEW key \in Insts, DeleteInst(key)
  PROVE  R!Forget(key)
<1>t. TypeOK
  BY DEF IInv
<1>1. UNCHANGED <<AbsApp, AbsUser>>
  <2>1. \A k \in Key : appTable'[k].obj = appTable[k].obj /\ userTable'[k].obj = userTable[k].obj
    BY <1>t, DisconnectType DEF DeleteInst, TypeOK
  <2> QED BY <2>1, SameObjects
<1>2. OthersKept(key)
  BY <1>t DEF OthersKept, DeleteInst, Pending, TypeOK
<1>3. ~Promised(key)'
  BY <1>t DEF DeleteInst, Promised, Known, TypeOK
<1> QED BY <1>t, <1>1, <1>2, <1>3, ForgetMaps

-----------------------------------------------------------------------------
(* Handling copies *)

LEMMA GenerateMaps ==
  ASSUME RInv, TypeOK', NEW c \in Controllers, NEW x \in job[c].insts, GenerateArtifacts(c, x)
  PROVE  R!Settle(x.key) \/ UNCHANGED R!vars
<1>t. TypeOK /\ SeenAreNamed /\ x \in HelxInst /\ x.key \in Insts
  BY DEF RInv, IInv, TypeOK, HelxInst
<1>u. /\ UNCHANGED <<tables, dropped>> /\ instanceTable' = instanceTable
      /\ job' = [job EXCEPT ![c] = Done(c, x)]
      /\ job[c].op = "create"
  BY DEF GenerateArtifacts, tables
<1>1. UNCHANGED <<instanceTable, AbsApp, AbsUser>>
  BY <1>u DEF tables, AbsApp, AbsUser, GetApp, GetUser
<1>2. ASSUME NEW i \in Insts, x # instanceTable[i] PROVE Pending(i)' <=> Pending(i)
  <2>1. Pending(i) => Pending(i)'
    BY <1>t, <1>u, <1>2, DonePending
  <2>2. Pending(i)' => Pending(i)
    BY <1>t, <1>u, DoneOwesNoMore
  <2> QED BY <2>1, <2>2
<1>3. CASE IsCurrent(x) /\ Promised(x.key)
  <2> DEFINE i == x.key
  <2>1. x = instanceTable[i] /\ Pending(i)
    BY <1>t, <1>u, <1>3 DEF IsCurrent, Pending
  <2>p. \A j \in Insts : Promised(j)' <=> Promised(j)
    BY <1>1 DEF Promised, Known, OwnName, AppKey, UserKey
  <2>2. AbsOwed' \in {AbsOwed, AbsOwed \ {i}} /\ i \in AbsOwed
    <3>1. \A j \in Insts \ {i} : Promised(j) => (Pending(j)' <=> Pending(j))
      BY <1>t, <1>2, PromisedIsKnown
    <3> QED BY <1>t, <1>3, <2>1, <2>p, <3>1 DEF AbsOwed
  <2>3. UNCHANGED <<AbsApp, AbsUser, AbsInst, AbsPassed>>
    BY <1>t, <1>u, <1>1, <2>p DEF AbsInst, AbsPassed, Naming, AppKey, UserKey, TypeOK
  <2>4. R!Complete(i) <=> Complete(x)
    <3>1. i \in R!Known /\ AbsInst[i].app = AppKey(x) /\ AbsInst[i].user = UserKey(x)
          /\ AppKey(x) \in Key /\ UserKey(x) \in Key
      BY <1>t, <1>3, <2>1, AbsKnown, PromisedIsKnown
    <3> QED BY <1>t, <3>1 DEF R!Complete, Complete, SeenAreNamed, AbsInst
  <2>5. R!Complete(i) => R!Sources(i) = Sources(x)
    <3>1. AbsInst[i].app = AppKey(x) /\ AbsInst[i].user = UserKey(x)
      BY <1>t, <1>3, <2>1, PromisedIsKnown
    <3> QED BY <3>1 DEF R!Complete, R!Sources, Sources, AbsInst
  <2>6. AbsDone' = IF R!Complete(i) THEN [AbsDone EXCEPT ![i] = R!Sources(i)] ELSE AbsDone
    <3>1. CASE Complete(x)
      <4>1. generated' = [generated EXCEPT ![i] = Sources(x)]
        BY <1>3, <3>1 DEF GenerateArtifacts
      <4> QED BY <1>t, <1>3, <2>p, <2>4, <2>5, <3>1, <4>1 DEF AbsDone, TypeOK
    <3>2. CASE ~Complete(x)
      <4>1. generated' = generated
        BY <3>2 DEF GenerateArtifacts
      <4> QED BY <2>p, <2>4, <3>2, <4>1 DEF AbsDone
    <3> QED BY <3>1, <3>2
  <2> QED BY <2>2, <2>3, <2>6
          DEF R!Settle, AbsApp, AbsUser, AbsInst, AbsOwed, AbsDone, AbsPassed
<1>4. CASE ~(IsCurrent(x) /\ Promised(x.key))
  <2> SUFFICES ASSUME NEW i \in Insts, Promised(i)
               PROVE  generated'[i] = generated[i] /\ (Pending(i)' <=> Pending(i))
    BY <1>t, <1>u, <1>1, Invisible DEF TypeOK
  <2>1. x # instanceTable[i]
    BY <1>t, <1>4, PromisedIsKnown DEF IsCurrent
  <2>2. generated'[i] = generated[i]
    BY <1>t, <1>4, PromisedIsKnown DEF GenerateArtifacts, IsCurrent, TypeOK
  <2> QED BY <1>2, <2>1, <2>2
<1> QED BY <1>3, <1>4

LEMMA DeletionDoneInvisible ==
  ASSUME TypeOK, NEW c \in Controllers, NEW x \in job[c].insts, DeleteDerivatives(c, x)
  PROVE  UNCHANGED R!vars
<1>1. /\ UNCHANGED <<tables, generated, dropped>> /\ instanceTable' = instanceTable
      /\ job' = [job EXCEPT ![c] = Done(c, x)] /\ job[c].op = "delete"
  BY DEF DeleteDerivatives, tables
<1>2. UNCHANGED <<AbsApp, AbsUser>>
  BY <1>1 DEF tables, AbsApp, AbsUser, GetApp, GetUser
<1>3. /\ job'[c].op # "create"
      /\ \A d \in Controllers \ {c} : job'[d] = job[d]
  BY <1>1 DEF TypeOK, Done, HandOut, Idle
<1>4. \A i \in Insts : Pending(i)' <=> Pending(i)
  BY <1>1, <1>3 DEF Pending
<1> QED BY <1>1, <1>2, <1>4, Invisible DEF TypeOK

LEMMA AbandonMaps ==
  ASSUME TypeOK, TypeOK', NEW c \in Controllers, Abandon(c)
  PROVE  R!GiveUp
<1>1. /\ UNCHANGED <<tables, generated>> /\ instanceTable' = instanceTable
      /\ job' = [job EXCEPT ![c] = Idle]
      /\ dropped' = dropped \cup {inst.key : inst \in {x \in job[c].insts : IsCurrent(x)}}
  BY DEF Abandon, tables
<1>p. \A i \in Insts : Promised(i)' <=> Promised(i)
  BY <1>1 DEF Promised, Known, OwnName, AppKey, UserKey
<1>2. UNCHANGED <<AbsApp, AbsUser, AbsInst, AbsDone>>
  BY <1>1, <1>p DEF tables, AbsApp, AbsUser, GetApp, GetUser, AbsInst, AbsDone,
                    Naming, AppKey, UserKey
<1>3. ASSUME NEW i \in Insts, Promised(i), Pending(i)' PROVE Pending(i)
  <2>1. PICK d \in Controllers : job'[d].op = "create" /\ instanceTable[i] \in job'[d].insts
    BY <1>1, <1>3 DEF Pending
  <2>2. d # c
    BY <1>1, <2>1 DEF Idle, TypeOK
  <2> QED BY <1>1, <2>1, <2>2 DEF Pending, TypeOK
<1>4. ASSUME NEW i \in Insts, Promised(i), Pending(i), ~Pending(i)' PROVE i \in dropped'
  <2>1. PICK d \in Controllers : job[d].op = "create" /\ instanceTable[i] \in job[d].insts
    BY <1>4 DEF Pending
  <2>2. d = c
    BY <1>1, <1>4, <2>1 DEF Pending, TypeOK
  <2>3. IsCurrent(instanceTable[i]) /\ instanceTable[i].key = i
    BY <1>4, PromisedIsKnown DEF IsCurrent
  <2> QED BY <1>1, <2>1, <2>2, <2>3
<1>5. AbsOwed' \in SUBSET AbsOwed
  BY <1>p, <1>3 DEF AbsOwed
<1>6. AbsPassed \subseteq AbsPassed' /\ AbsOwed \subseteq AbsOwed' \cup AbsPassed'
  BY <1>p, <1>1, <1>4 DEF AbsOwed, AbsPassed, TypeOK
<1>7. AbsPassed' \subseteq AbsPassed \cup AbsOwed
  <2> SUFFICES ASSUME NEW i \in dropped', Promised(i)', i \notin dropped
               PROVE  i \in AbsOwed
    BY <1>p DEF AbsPassed, TypeOK
  <2>1. PICK x \in job[c].insts : IsCurrent(x) /\ i = x.key
    BY <1>1
  <2>2. i \in Insts /\ Promised(i)
    BY <1>p DEF TypeOK
  <2>3. Pending(i)
    BY <2>1 DEF IsCurrent, Pending, Abandon
  <2> QED BY <2>2, <2>3 DEF AbsOwed
<1> QED BY <1>2, <1>5, <1>6, <1>7
        DEF R!GiveUp, AbsApp, AbsUser, AbsInst, AbsOwed, AbsDone, AbsPassed

\* Empty tables and idle workers map to the initial abstract state.
LEMMA InitMaps == Init => R!Init
<1> SUFFICES ASSUME Init PROVE R!Init
  OBVIOUS
<1>1. \A k \in Key : GetApp(k) = Nil /\ GetUser(k) = Nil
  BY DEF Init, GetApp, GetUser, EmptyElement
<1>2. \A i \in Insts : ~Promised(i)
  BY DEF Init, Promised, Known
<1> QED BY <1>1, <1>2, KeysAssumption DEF R!Init, Init

LEMMA RestartMaps == Restart => R!Restart
<1> SUFFICES ASSUME Restart PROVE R!Restart
  OBVIOUS
<1>1. \A k \in Key : (GetApp(k) = Nil /\ GetUser(k) = Nil)'
  BY DEF Restart, GetApp, GetUser, EmptyElement
<1>2. \A i \in Insts : ~Promised(i)'
  BY DEF Restart, Promised, Known
<1> QED BY <1>1, <1>2, KeysAssumption DEF R!Restart, Restart

-----------------------------------------------------------------------------
(* Implementation *)

LEMMA NextMaps == RInv /\ RInv' /\ [Next]_vars => [R!Next]_(R!vars)
<1> SUFFICES ASSUME RInv, RInv', [Next]_vars PROVE R!Next \/ UNCHANGED R!vars
  OBVIOUS
<1>t. IInv /\ TypeOK /\ TypeOK'
  BY DEF RInv, IInv
<1>0. CASE UNCHANGED vars
  <2>1. UNCHANGED <<instanceTable, AbsApp, AbsUser>> /\ job' = job
        /\ generated' = generated /\ dropped' = dropped
    BY <1>0 DEF vars, AbsApp, AbsUser, GetApp, GetUser
  <2>2. \A i \in Insts : Pending(i)' <=> Pending(i)
    BY <2>1 DEF Pending
  <2> QED BY <1>t, <2>1, <2>2, Invisible DEF TypeOK
<1>1. ASSUME NEW key \in Apps, NEW obj \in Revisions, AddApp(key, obj) \/ ResyncApp(key, obj)
      PROVE  R!Next \/ UNCHANGED R!vars
  BY <1>t, <1>1, AddAppMaps, ResyncAppMaps DEF R!Next
<1>2. ASSUME NEW key \in Users, NEW obj \in Revisions, AddUser(key, obj) \/ ResyncUser(key, obj)
      PROVE  R!Next \/ UNCHANGED R!vars
  BY <1>t, <1>2, AddUserMaps, ResyncUserMaps DEF R!Next
<1>3. ASSUME NEW key, DeleteApp(key) \/ DeleteUser(key)
      PROVE  UNCHANGED R!vars
  BY <1>t, <1>3, DeletionInvisible DEF DeleteApp, DeleteUser, Controllers
<1>4. ASSUME NEW inst \in HelxInst, AddInst(inst) \/ ResyncInst(inst)
      PROVE  R!Next \/ UNCHANGED R!vars
  <2>1. inst.key \in Insts
    BY DEF HelxInst
  <2> QED BY <1>t, <1>4, <2>1, AddInstMaps, ResyncInstMaps DEF R!Next
<1>5. ASSUME NEW key \in Insts, DeleteInst(key)
      PROVE  R!Next
  BY <1>t, <1>5, DeleteInstMaps DEF R!Next
<1>6. ASSUME NEW c \in Controllers, NEW inst \in job[c].insts,
             GenerateArtifacts(c, inst) \/ DeleteDerivatives(c, inst)
      PROVE  R!Next \/ UNCHANGED R!vars
  <2>1. inst.key \in Insts
    BY <1>t DEF TypeOK, HelxInst
  <2> QED BY <1>t, <1>6, <2>1, GenerateMaps, DeletionDoneInvisible DEF R!Next
<1>7. ASSUME NEW c \in Controllers, Abandon(c)
      PROVE  R!Next
  BY <1>t, <1>7, AbandonMaps DEF R!Next
<1>8. CASE Restart
  BY <1>8, RestartMaps DEF R!Next
<1> QED BY <1>0, <1>1, <1>2, <1>3, <1>4, <1>5, <1>6, <1>7, <1>8 DEF Next

\* The object graph implements Rendezvous: whatever the tables of associations and the
\* three workers' copies do, an instance whose app, user or spec changed is owed a
\* generation, and the debt ends only with a generation from what is known then, with
\* an error or a resync, with the instance, or with the process.
THEOREM Implementation == Spec => ImplementsRendezvous
<1>1. RInv /\ RInv' /\ [Next]_vars => [R!Next]_(R!vars)
  BY NextMaps
<1> QED BY <1>1, InitMaps, RefinementInvariant, PTL DEF Spec, ImplementsRendezvous, R!Spec

-----------------------------------------------------------------------------
(* The reconcilers *)

(* The invariant *)

\* The four tables have an entry for each controller.
Shape ==
  /\ api = [c \in Controllers |-> api[c]]
  /\ cache = [c \in Controllers |-> cache[c]]
  /\ queue = [c \in Controllers |-> queue[c]]
  /\ worker = [c \in Controllers |-> worker[c]]

\* What may be stored of a kind: a generation is observed at most as it is, and an
\* instance of which one was observed has its uuid.
Sound(c) == {cr \in Resource(c) : cr.obs <= cr.gen /\ (c = "inst" /\ cr.obs > 0 => cr.uuid # Nil)}

ObjectsSound ==
  \A c \in Controllers :
    /\ api[c] \in [KeysOf(c) -> Sound(c) \cup {Nil}]
    /\ cache[c] \in [KeysOf(c) -> Sound(c) \cup {Nil}]
    /\ queue[c] \subseteq KeysOf(c)
    /\ \A key \in KeysOf(c) : api[c][key] # Nil => api[c][key].gen <= edits + 1

CountersOK == /\ minted \in 0..MaxUUIDs /\ edits \in 0..MaxEdits
              /\ faults \in 0..MaxFaults /\ restarts \in 0..MaxRestarts

\* The graph holds this object under this key.
Holds(c, key, cr) == /\ c = "app" => GetApp(key) = cr.content
                     /\ c = "user" => GetUser(key) = cr.content
                     /\ c = "inst" => instanceTable[key] = InstOf(key, cr)

\* A reconcile that will write a status holds the object as read and as changed:
\* they differ at most in a uuid that the object did not have, and the graph holds
\* what will be written.
ReadOK(c, key, read) ==
  /\ read.old \in Sound(c) /\ read.new \in Sound(c)
  /\ read = [old |-> read.old, new |-> read.new]
  /\ read.new.uid = read.old.uid /\ read.new.gen = read.old.gen
  /\ read.new.content = read.old.content
  /\ read.old.uuid # Nil => read.new.uuid = read.old.uuid
  /\ c = "inst" => read.new.uuid # Nil
  /\ key \in KeysOf(c)
  /\ Holds(c, key, read.new)

WorkerOK(c) ==
  /\ worker[c] \in Workers
  /\ worker[c].key \in KeysOf(c) \cup {Nil}
  /\ worker[c].key = Nil => worker[c] = Free /\ job[c] = Idle
  /\ worker[c].read # Nil => ReadOK(c, worker[c].key, worker[c].read)

WorkersOK == \A c \in Controllers : WorkerOK(c)

RecInv == TypeOK /\ Shape /\ ObjectsSound /\ CountersOK /\ WorkersOK

-----------------------------------------------------------------------------
(* Kinds *)

LEMMA Kinds ==
  /\ Controllers = {"app", "user", "inst"}
  /\ KeysOf("app") = Apps /\ KeysOf("user") = Users /\ KeysOf("inst") = Insts
  /\ ContentsOf("app") = Revisions /\ ContentsOf("user") = Revisions
  /\ ContentsOf("inst") = InstSpecs
  /\ \A c \in Controllers : KeysOf(c) \subseteq Key
<1>1. Controllers = {"app", "user", "inst"}
  BY DEF Controllers
<1>2. KeysOf("app") = Apps /\ KeysOf("user") = Users /\ KeysOf("inst") = Insts
  BY DEF KeysOf
<1>3. /\ ContentsOf("app") = Revisions /\ ContentsOf("user") = Revisions
      /\ ContentsOf("inst") = InstSpecs
  BY DEF ContentsOf
<1> QED BY <1>1, <1>2, <1>3, KeysAssumption

LEMMA InGraphHolds ==
  ASSUME NEW c \in Controllers, NEW key
  PROVE  /\ InGraph(c, key) <=> Holds(c, key, api[c][key])
         /\ InGraph(c, key)' <=> Holds(c, key, api[c][key])'
<1>1. CASE c = "app"
  BY <1>1 DEF InGraph, Holds
<1>2. CASE c = "user"
  BY <1>2 DEF InGraph, Holds
<1>3. CASE c = "inst"
  BY <1>3 DEF InGraph, Holds
<1> QED BY <1>1, <1>2, <1>3, Kinds

\* An instance on the API server that has its uuid is one of the graph's.
LEMMA InstOfType ==
  ASSUME NEW key \in Insts, NEW cr \in Resource("inst"), cr.uuid # Nil
  PROVE  InstOf(key, cr) \in HelxInst /\ InstOf(key, cr).key = key
<1>1. cr.uuid \in 1..MaxUUIDs /\ cr.uid \in 0..MaxEdits /\ cr.content \in InstSpecs
  BY Kinds DEF Resource
<1>2. [uid |-> cr.uid, uuid |-> cr.uuid] \in Ids
  BY <1>1, IdsAssumption
<1> QED BY <1>1, <1>2 DEF InstOf, HelxInst

\* Writing one entry of a table of tables.
LEMMA Put ==
  ASSUME NEW f, f = [x \in Controllers |-> f[x]], NEW c \in Controllers,
         NEW K, NEW S, f[c] \in [K -> S], NEW k \in K, NEW v \in S,
         NEW g, g = [f EXCEPT ![c][k] = v]
  PROVE  /\ g = [x \in Controllers |-> g[x]]
         /\ \A d \in Controllers \ {c} : g[d] = f[d]
         /\ g[c] \in [K -> S] /\ g[c][k] = v
         /\ \A k2 \in K \ {k} : g[c][k2] = f[c][k2]
OBVIOUS

LEMMA WithUUIDSound ==
  ASSUME NEW c \in Controllers, NEW cr \in Sound(c), CountersOK,
         (IF WithUUID(c, cr) = cr THEN minted ELSE minted + 1) <= MaxUUIDs
  PROVE  LET new == WithUUID(c, cr)
         IN  /\ new \in Sound(c)
             /\ new.uid = cr.uid /\ new.gen = cr.gen /\ new.content = cr.content /\ new.obs = cr.obs
             /\ cr.uuid # Nil => new.uuid = cr.uuid
             /\ c = "inst" => new.uuid # Nil
<1> DEFINE new == WithUUID(c, cr)
<1>r. cr \in Resource(c) /\ minted \in 0..MaxUUIDs /\ MaxUUIDs \in Nat /\ Nil \notin Nat
  BY BoundsAssumption, NilNoneAssumption DEF Sound, CountersOK
<1>1. CASE c = "inst" /\ cr.uuid = Nil
  <2>1. new = [cr EXCEPT !.uuid = minted + 1]
    BY <1>1 DEF WithUUID
  <2>2. new.uuid = minted + 1
    BY <1>r, <2>1 DEF Resource
  <2>3. minted + 1 # Nil /\ new # cr
    BY <1>r, <1>1, <2>2
  <2>4. minted + 1 \in 1..MaxUUIDs
    BY <1>r, <2>3
  <2>5. new \in Resource(c)
    BY <1>r, <2>1, <2>4 DEF Resource
  <2>6. new.uid = cr.uid /\ new.gen = cr.gen /\ new.content = cr.content /\ new.obs = cr.obs
    BY <1>r, <2>1 DEF Resource
  <2> QED BY <1>1, <2>2, <2>3, <2>5, <2>6 DEF Sound
<1>2. CASE ~(c = "inst" /\ cr.uuid = Nil)
  BY <1>2 DEF WithUUID
<1> QED BY <1>1, <1>2

-----------------------------------------------------------------------------
(* The reconcilers use the graph as ObjectGraph says *)

\* What a reconcile does to the graph: one operation, on an object of its type.
LEMMA ReconcileForms ==
  ASSUME RecInv, NEW c \in Controllers, NEW key \in KeysOf(c), Reconcile(c, key)
  PROVE  \/ /\ c = "app" /\ key \in Apps
            /\ DeleteApp(key) \/ \E obj \in Revisions : AddApp(key, obj) \/ ResyncApp(key, obj)
         \/ /\ c = "user" /\ key \in Users
            /\ DeleteUser(key) \/ \E obj \in Revisions : AddUser(key, obj) \/ ResyncUser(key, obj)
         \/ /\ c = "inst" /\ key \in Insts
            /\ \/ DeleteInst(key)
               \/ \E new \in HelxInst : new.key = key /\ (AddInst(new) \/ ResyncInst(new))
         \/ UNCHANGED vars
<1>c. cache[c][key] \in Sound(c) \cup {Nil}
  BY DEF RecInv, ObjectsSound
<1>k. (c = "app" => key \in Apps) /\ (c = "user" => key \in Users) /\ (c = "inst" => key \in Insts)
  BY Kinds
<1>1. CASE ReconcileDeleted(c, key)
  BY <1>1, <1>k DEF ReconcileDeleted, graph
<1>2. CASE ReconcileResync(c, key)
  <2> DEFINE cr == cache[c][key]
  <2>1. cr \in Sound(c) /\ cr.obs >= cr.gen
    BY <1>2, <1>c DEF ReconcileResync
  <2>2. c \in {"app", "user"} => cr.content \in Revisions
    BY <2>1, Kinds DEF Sound, Resource
  <2>3. c = "inst" => InstOf(key, cr) \in HelxInst /\ InstOf(key, cr).key = key
    <3> SUFFICES ASSUME c = "inst" PROVE InstOf(key, cr) \in HelxInst /\ InstOf(key, cr).key = key
      OBVIOUS
    <3>1. cr \in Resource("inst") /\ cr.obs > 0
      BY <2>1, BoundsAssumption DEF Sound, Resource
    <3> QED BY <1>k, <2>1, <3>1, InstOfType DEF Sound
  <2> HIDE DEF cr
  <2>4. \/ c = "app" /\ ResyncApp(key, cr.content)
        \/ c = "user" /\ ResyncUser(key, cr.content)
        \/ c = "inst" /\ ResyncInst(InstOf(key, cr))
    BY <1>2 DEF ReconcileResync, cr
  <2> QED BY <1>k, <2>2, <2>3, <2>4
<1>3. CASE ReconcileChanged(c, key)
  <2> DEFINE new == WithUUID(c, cache[c][key])
  <2>1. cache[c][key] \in Sound(c)
    BY <1>3, <1>c DEF ReconcileChanged
  <2>2. new \in Sound(c) /\ (c = "inst" => new.uuid # Nil)
    BY <1>3, <2>1, WithUUIDSound DEF ReconcileChanged, RecInv
  <2>3. c \in {"app", "user"} => new.content \in Revisions
    BY <2>2, Kinds DEF Sound, Resource
  <2>4. c = "inst" => InstOf(key, new) \in HelxInst /\ InstOf(key, new).key = key
    BY <1>k, <2>2, InstOfType DEF Sound
  <2> HIDE DEF new
  <2>5. \/ c = "app" /\ AddApp(key, new.content)
        \/ c = "user" /\ AddUser(key, new.content)
        \/ c = "inst" /\ AddInst(InstOf(key, new))
    BY <1>3 DEF ReconcileChanged, new
  <2> QED BY <1>k, <2>3, <2>4, <2>5
<1> QED BY <1>1, <1>2, <1>3 DEF Reconcile

LEMMA NextIsGraphNext == RecInv /\ [ReconcilersNext]_reconcilerVars => [Next]_vars
<1> SUFFICES ASSUME RecInv, [ReconcilersNext]_reconcilerVars PROVE Next \/ UNCHANGED vars
  OBVIOUS
<1>0. CASE UNCHANGED reconcilerVars
  BY <1>0 DEF reconcilerVars, vars
<1>1. CASE UserEdits
  BY <1>1 DEF UserEdits, Create, Update, Delete, graph
<1>2. ASSUME NEW c \in Controllers, NEW key \in KeysOf(c), Sync(c, key)
      PROVE  UNCHANGED vars
  BY <1>2 DEF Sync, graph
<1>3. ASSUME NEW c \in Controllers, NEW key \in KeysOf(c), Reconcile(c, key)
      PROVE  Next \/ UNCHANGED vars
  BY <1>3, ReconcileForms DEF Next
<1>4. ASSUME NEW c \in Controllers, Work(c)
      PROVE  Next \/ UNCHANGED vars
  BY <1>4 DEF Work, Generate, GenerateFails, DeleteWorkload, Applied, NotApplied, Finish, graph, Next
<1>5. CASE RestartController
  BY <1>5 DEF RestartController, Next
<1> QED BY <1>0, <1>1, <1>2, <1>3, <1>4, <1>5 DEF ReconcilersNext

LEMMA GraphTypeOK == RecInv /\ [ReconcilersNext]_reconcilerVars => TypeOK'
BY NextIsGraphNext, NextTypeOK DEF RecInv

-----------------------------------------------------------------------------
(* Users and informers *)

LEMMA WorkersKept ==
  ASSUME WorkersOK, UNCHANGED <<vars, worker>>
  PROVE  WorkersOK'
BY DEF WorkersOK, WorkerOK, vars, ReadOK, Holds, GetApp, GetUser

\* One object is written, or deleted, on the API server.
LEMMA ApiWritten ==
  ASSUME Shape, ObjectsSound, NEW c \in Controllers, NEW key \in KeysOf(c),
         NEW v \in Sound(c) \cup {Nil}, api' = [api EXCEPT ![c][key] = v],
         edits \in Nat, edits' \in {edits, edits + 1}, v # Nil => v.gen <= edits' + 1
  PROVE  /\ api' = [d \in Controllers |-> api'[d]]
         /\ api'[c][key] = v
         /\ \A d \in Controllers : \A k \in KeysOf(d) :
              d # c \/ k # key => api'[d][k] = api[d][k]
         /\ \A d \in Controllers :
              /\ api'[d] \in [KeysOf(d) -> Sound(d) \cup {Nil}]
              /\ \A k \in KeysOf(d) : api'[d][k] # Nil => api'[d][k].gen <= edits' + 1
<1>1. /\ api' = [d \in Controllers |-> api'[d]]
      /\ \A d \in Controllers \ {c} : api'[d] = api[d]
      /\ api'[c] \in [KeysOf(c) -> Sound(c) \cup {Nil}] /\ api'[c][key] = v
      /\ \A k \in KeysOf(c) \ {key} : api'[c][k] = api[c][k]
  <2>1. api = [d \in Controllers |-> api[d]] /\ api[c] \in [KeysOf(c) -> Sound(c) \cup {Nil}]
    BY DEF Shape, ObjectsSound
  <2> QED BY <2>1, Put
<1>2. \A d \in Controllers : \A k \in KeysOf(d) :
        d # c \/ k # key => api'[d][k] = api[d][k]
  BY <1>1
<1>3. \A d \in Controllers : api'[d] \in [KeysOf(d) -> Sound(d) \cup {Nil}]
  BY <1>1 DEF ObjectsSound
<1>4. ASSUME NEW d \in Controllers, NEW k \in KeysOf(d), api'[d][k] # Nil
      PROVE  api'[d][k].gen <= edits' + 1
  <2>1. CASE d = c /\ k = key
    BY <1>1, <1>4, <2>1
  <2>2. CASE d # c \/ k # key
    <3>1. api'[d][k] = api[d][k]
      BY <1>2, <2>2
    <3>2. api[d][k].gen <= edits + 1 /\ api[d][k].gen \in Nat
      BY <1>4, <3>1, BoundsAssumption DEF ObjectsSound, Sound, Resource
    <3> QED BY <3>1, <3>2
  <2> QED BY <2>1, <2>2
<1> QED BY <1>1, <1>2, <1>3, <1>4

\* What an edit makes of an object: a change of content is a new generation.
LEMMA EditsWrite ==
  ASSUME RecInv, UserEdits
  PROVE  \E c \in Controllers : \E key \in KeysOf(c) : \E v \in Sound(c) \cup {Nil} :
           /\ api' = [api EXCEPT ![c][key] = v] /\ edits' = edits + 1
           /\ edits + 1 <= MaxEdits
           /\ v # Nil => v.gen <= edits' + 1 /\ v.obs < v.gen
           /\ v # Nil /\ api[c][key] # Nil =>
                v.uid = api[c][key].uid /\ v.uuid = api[c][key].uuid
           /\ v # Nil => v.uid = IF api[c][key] = Nil THEN edits + 1 ELSE api[c][key].uid
<1>e. edits \in 0..MaxEdits /\ MaxEdits \in Nat
  BY BoundsAssumption DEF RecInv, CountersOK
<1>1. ASSUME NEW c \in Controllers, NEW key \in KeysOf(c), NEW content \in ContentsOf(c),
             Create(c, key, content)
      PROVE  \E v \in Sound(c) \cup {Nil} :
               /\ api' = [api EXCEPT ![c][key] = v] /\ edits' = edits + 1
               /\ edits + 1 <= MaxEdits
               /\ v # Nil => v.gen <= edits' + 1 /\ v.obs < v.gen
               /\ v # Nil /\ api[c][key] # Nil =>
                    v.uid = api[c][key].uid /\ v.uuid = api[c][key].uuid
               /\ v # Nil => v.uid = IF api[c][key] = Nil THEN edits + 1 ELSE api[c][key].uid
  <2> DEFINE v == [uid |-> edits + 1, gen |-> 1, obs |-> 0, content |-> content, uuid |-> Nil]
  <2>1. v \in Sound(c)
    BY <1>e, <1>1 DEF Create, Sound, Resource
  <2>2. v.gen <= edits + 1 + 1 /\ v.obs < v.gen /\ v.uid = edits + 1
    BY <1>e
  <2>3. /\ api' = [api EXCEPT ![c][key] = v] /\ edits' = edits + 1 /\ api[c][key] = Nil
        /\ edits + 1 <= MaxEdits
    BY <1>1, <1>e DEF Create
  <2> HIDE DEF v
  <2> QED BY <1>e, <2>1, <2>2, <2>3
<1>2. ASSUME NEW c \in Controllers, NEW key \in KeysOf(c), NEW content \in ContentsOf(c),
             Update(c, key, content)
      PROVE  \E v \in Sound(c) \cup {Nil} :
               /\ api' = [api EXCEPT ![c][key] = v] /\ edits' = edits + 1
               /\ edits + 1 <= MaxEdits
               /\ v # Nil => v.gen <= edits' + 1 /\ v.obs < v.gen
               /\ v # Nil /\ api[c][key] # Nil =>
                    v.uid = api[c][key].uid /\ v.uuid = api[c][key].uuid
               /\ v # Nil => v.uid = IF api[c][key] = Nil THEN edits + 1 ELSE api[c][key].uid
  <2> DEFINE cr == api[c][key]
             v == Changed(cr, content)
  <2>1. cr # Nil /\ cr \in Sound(c) /\ cr.gen <= edits + 1 /\ edits + 1 <= MaxEdits
    BY <1>e, <1>2 DEF Update, RecInv, ObjectsSound
  <2>4. api' = [api EXCEPT ![c][key] = v] /\ edits' = edits + 1
    BY <1>2 DEF Update
  <2>2. v \in Resource(c) /\ v.gen = cr.gen + 1 /\ v.obs = cr.obs /\ v.uid = cr.uid /\ v.uuid = cr.uuid
    <3>1. cr.gen + 1 \in 1..(MaxEdits + 1)
      BY <1>e, <2>1 DEF Sound, Resource
    <3> QED BY <2>1, <3>1 DEF Changed, Sound, Resource
  <2> HIDE DEF v
  <2>3. v \in Sound(c) /\ v.obs < v.gen /\ v.gen <= edits + 1 + 1
    BY <1>e, <2>1, <2>2 DEF Sound, Resource
  <2> QED BY <2>1, <2>2, <2>3, <2>4
<1>3. ASSUME NEW c \in Controllers, NEW key \in KeysOf(c), Delete(c, key)
      PROVE  /\ api' = [api EXCEPT ![c][key] = Nil] /\ edits' = edits + 1
             /\ edits + 1 <= MaxEdits
  BY <1>3, <1>e DEF Delete
<1> QED BY <1>1, <1>2, <1>3 DEF UserEdits

LEMMA EditsRecInv == RecInv /\ TypeOK' /\ UserEdits => RecInv'
<1> SUFFICES ASSUME RecInv, TypeOK', UserEdits PROVE RecInv'
  OBVIOUS
<1>u. UNCHANGED <<vars, cache, queue, worker, minted, faults, restarts>>
  BY DEF UserEdits, Create, Update, Delete, graph
<1>c. PICK c \in Controllers : \E key \in KeysOf(c) : \E v \in Sound(c) \cup {Nil} :
           /\ api' = [api EXCEPT ![c][key] = v] /\ edits' = edits + 1
           /\ edits + 1 <= MaxEdits
           /\ v # Nil => v.gen <= edits' + 1 /\ v.obs < v.gen
  BY EditsWrite
<1>k. PICK key \in KeysOf(c) : \E v \in Sound(c) \cup {Nil} :
           /\ api' = [api EXCEPT ![c][key] = v] /\ edits' = edits + 1
           /\ edits + 1 <= MaxEdits
           /\ v # Nil => v.gen <= edits' + 1 /\ v.obs < v.gen
  BY <1>c
<1>1. PICK v \in Sound(c) \cup {Nil} :
           /\ api' = [api EXCEPT ![c][key] = v] /\ edits' = edits + 1
           /\ edits + 1 <= MaxEdits
           /\ v # Nil => v.gen <= edits' + 1 /\ v.obs < v.gen
  BY <1>k
<1>e. edits \in Nat /\ MaxEdits \in Nat
  BY BoundsAssumption DEF RecInv, CountersOK
<1>2. Shape' /\ ObjectsSound'
  BY <1>u, <1>1, <1>e, ApiWritten DEF RecInv, Shape, ObjectsSound
<1>3. CountersOK'
  BY <1>u, <1>1, <1>e DEF RecInv, CountersOK
<1>4. WorkersOK'
  BY <1>u, WorkersKept DEF RecInv
<1> QED BY <1>2, <1>3, <1>4 DEF RecInv

LEMMA SyncRecInv ==
  ASSUME RecInv, TypeOK', NEW c \in Controllers, NEW key \in KeysOf(c), Sync(c, key)
  PROVE  RecInv'
<1>u. /\ UNCHANGED <<vars, api, worker, minted, edits, faults, restarts>>
      /\ cache' = [cache EXCEPT ![c][key] = api[c][key]]
      /\ queue' = [queue EXCEPT ![c] = @ \cup {key}]
  BY DEF Sync, graph
<1>1. /\ cache' = [d \in Controllers |-> cache'[d]]
      /\ \A d \in Controllers \ {c} : cache'[d] = cache[d]
      /\ cache'[c] \in [KeysOf(c) -> Sound(c) \cup {Nil}]
  <2>1. /\ cache = [d \in Controllers |-> cache[d]] /\ cache[c] \in [KeysOf(c) -> Sound(c) \cup {Nil}]
        /\ api[c][key] \in Sound(c) \cup {Nil}
    BY DEF RecInv, Shape, ObjectsSound
  <2> QED BY <1>u, <2>1, Put
<1>2. queue' = [d \in Controllers |-> queue'[d]] /\ \A d \in Controllers : queue'[d] \subseteq KeysOf(d)
  BY <1>u DEF RecInv, Shape, ObjectsSound
<1>3. Shape' /\ ObjectsSound' /\ CountersOK'
  BY <1>u, <1>1, <1>2 DEF RecInv, Shape, ObjectsSound, CountersOK
<1>4. WorkersOK'
  BY <1>u, WorkersKept DEF RecInv
<1> QED BY <1>3, <1>4 DEF RecInv

-----------------------------------------------------------------------------
(* Reconciles *)

\* A reconcile changes the graph for its own object only.
LEMMA ReconcileFrame ==
  ASSUME RecInv, NEW c \in Controllers, NEW key \in KeysOf(c), Reconcile(c, key)
  PROVE  /\ \A k \in Key : c # "app" \/ k # key => appTable'[k].obj = appTable[k].obj
         /\ \A k \in Key : c # "user" \/ k # key => userTable'[k].obj = userTable[k].obj
         /\ \A i \in Insts : c # "inst" \/ i # key => instanceTable'[i] = instanceTable[i]
         /\ \A d \in Controllers \ {c} : job'[d] = job[d]
<1>t. /\ appTable \in [Key -> TableElement] /\ userTable \in [Key -> TableElement]
      /\ instanceTable \in [Insts -> HelxInst \cup {Nil}] /\ key \in Key
      /\ job = [d \in Controllers |-> job[d]]
  BY Kinds DEF RecInv, TypeOK
<1>1. ASSUME c = "app", NEW obj \in Revisions, AddApp(key, obj) \/ ResyncApp(key, obj)
      PROVE  /\ \A k \in Key \ {key} : appTable'[k].obj = appTable[k].obj
             /\ userTable' = userTable /\ instanceTable' = instanceTable
             /\ \A d \in Controllers \ {c} : job'[d] = job[d]
  <2>1. appTable' = SetObj(appTable, key, obj)
    BY <1>1 DEF AddApp, ResyncApp
  <2>2. \A k \in Key \ {key} : appTable'[k].obj = appTable[k].obj
    BY <1>t, <2>1, SetObjType
  <2> QED BY <1>1, <1>t, <2>2 DEF AddApp, ResyncApp
<1>2. ASSUME c = "user", NEW obj \in Revisions, AddUser(key, obj) \/ ResyncUser(key, obj)
      PROVE  /\ \A k \in Key \ {key} : userTable'[k].obj = userTable[k].obj
             /\ appTable' = appTable /\ instanceTable' = instanceTable
             /\ \A d \in Controllers \ {c} : job'[d] = job[d]
  <2>1. userTable' = SetObj(userTable, key, obj)
    BY <1>2 DEF AddUser, ResyncUser
  <2>2. \A k \in Key \ {key} : userTable'[k].obj = userTable[k].obj
    BY <1>t, <2>1, SetObjType
  <2> QED BY <1>2, <1>t, <2>2 DEF AddUser, ResyncUser
<1>3. ASSUME c = "inst", NEW new \in HelxInst, new.key = key, AddInst(new) \/ ResyncInst(new)
      PROVE  /\ \A k \in Key : appTable'[k].obj = appTable[k].obj /\ userTable'[k].obj = userTable[k].obj
             /\ \A i \in Insts \ {key} : instanceTable'[i] = instanceTable[i]
             /\ \A d \in Controllers \ {c} : job'[d] = job[d]
  <2>1. AppKey(new) \in Key /\ UserKey(new) \in Key /\ key \in Insts
    BY <1>3, Kinds, KeysAreKeys
  <2>2. /\ appTable' = Connect(appTable, AppKey(new), key)
        /\ userTable' = Connect(userTable, UserKey(new), key)
    BY <1>3 DEF AddInst, ResyncInst
  <2>3. \A k \in Key : appTable'[k].obj = appTable[k].obj /\ userTable'[k].obj = userTable[k].obj
    BY <1>t, <2>1, <2>2, ConnectType
  <2> QED BY <1>3, <1>t, <2>3 DEF AddInst, ResyncInst
<1>4. CASE c = "app" /\ DeleteApp(key)
  BY <1>t, <1>4 DEF DeleteApp, tables
<1>5. CASE c = "user" /\ DeleteUser(key)
  BY <1>t, <1>5 DEF DeleteUser, tables
<1>6. CASE c = "inst" /\ DeleteInst(key)
  <2>1. \A k \in Key : appTable'[k].obj = appTable[k].obj /\ userTable'[k].obj = userTable[k].obj
    BY <1>t, <1>6, DisconnectType DEF DeleteInst
  <2> QED BY <1>t, <1>6, <2>1 DEF DeleteInst
<1>7. CASE UNCHANGED vars
  BY <1>7 DEF vars
<1> QED BY <1>1, <1>2, <1>3, <1>4, <1>5, <1>6, <1>7, ReconcileForms

\* The worker of a reconcile that changed the graph holds what the graph holds.
LEMMA ReconcileWorker ==
  ASSUME RecInv, TypeOK', NEW c \in Controllers, NEW key \in KeysOf(c), Reconcile(c, key)
  PROVE  /\ worker' = [d \in Controllers |-> worker'[d]]
         /\ \A d \in Controllers \ {c} : worker'[d] = worker[d]
         /\ WorkerOK(c)'
         /\ minted' \in 0..MaxUUIDs
<1>t. /\ worker = [d \in Controllers |-> worker[d]] /\ worker[c] = Free /\ job[c] = Idle
      /\ Free \in Workers /\ Free.key = Nil /\ Free.read = Nil
      /\ key \in Key /\ key # Nil /\ minted \in 0..MaxUUIDs
      /\ cache[c][key] \in Sound(c) \cup {Nil}
  <2>1. worker[c] = Free /\ job[c] = Idle
    BY DEF RecInv, WorkersOK, WorkerOK, Reconcile
  <2>2. Free \in Workers /\ Free.key = Nil /\ Free.read = Nil
    BY DEF Free, Workers
  <2>3. key \in Key /\ key # Nil
    BY Kinds, NilNoneAssumption
  <2> QED BY <2>1, <2>2, <2>3 DEF RecInv, Shape, CountersOK, ObjectsSound
<1>1. CASE ReconcileDeleted(c, key)
  <2>1. worker' = IF job'[c] = Idle THEN worker ELSE [worker EXCEPT ![c] = Busy(key, Nil)]
    BY <1>1 DEF ReconcileDeleted
  <2>2. /\ Busy(key, Nil) \in Workers /\ Busy(key, Nil).key = key /\ Busy(key, Nil).read = Nil
    BY <1>t DEF Busy, Workers
  <2> QED BY <1>1, <1>t, <2>1, <2>2 DEF ReconcileDeleted, WorkerOK
<1>2. CASE ReconcileResync(c, key)
  BY <1>2, <1>t DEF ReconcileResync, ResyncApp, ResyncUser, ResyncInst, WorkerOK
<1>3. CASE ReconcileChanged(c, key)
  <2>a. PICK cr : cr = cache[c][key]
    OBVIOUS
  <2>b. PICK new : new = WithUUID(c, cr)
    OBVIOUS
  <2>1. cr \in Sound(c) /\ (IF new = cr THEN minted ELSE minted + 1) <= MaxUUIDs
    BY <1>3, <1>t, <2>a, <2>b DEF ReconcileChanged
  <2>2. /\ new \in Sound(c)
        /\ new.uid = cr.uid /\ new.gen = cr.gen /\ new.content = cr.content
        /\ cr.uuid # Nil => new.uuid = cr.uuid
        /\ c = "inst" => new.uuid # Nil
    BY <2>1, <2>b, WithUUIDSound DEF RecInv
  <2> DEFINE read == [old |-> cr, new |-> new]
  <2>3. worker' = [worker EXCEPT ![c] = Busy(key, read)]
    BY <1>3, <2>a, <2>b DEF ReconcileChanged
  <2>4. minted' \in 0..MaxUUIDs
    BY <1>3, <1>t, <2>1, <2>a, <2>b, BoundsAssumption DEF ReconcileChanged
  <2>5. \/ c = "app" /\ AddApp(key, new.content)
        \/ c = "user" /\ AddUser(key, new.content)
        \/ c = "inst" /\ AddInst(InstOf(key, new))
    BY <1>3, <2>a, <2>b DEF ReconcileChanged
  <2>6. Holds(c, key, new)'
    <3>1. CASE c = "app" /\ AddApp(key, new.content)
      <4>1. new.content \in Revisions
        BY <2>2, <3>1, Kinds DEF Sound, Resource
      <4>2. appTable'[key].obj = new.content
        BY <1>t, <3>1, <4>1, SetObjType DEF AddApp, RecInv, TypeOK
      <4> QED BY <3>1, <4>2 DEF Holds, GetApp
    <3>2. CASE c = "user" /\ AddUser(key, new.content)
      <4>1. new.content \in Revisions
        BY <2>2, <3>2, Kinds DEF Sound, Resource
      <4>2. userTable'[key].obj = new.content
        BY <1>t, <3>2, <4>1, SetObjType DEF AddUser, RecInv, TypeOK
      <4> QED BY <3>2, <4>2 DEF Holds, GetUser
    <3>3. CASE c = "inst" /\ AddInst(InstOf(key, new))
      <4>1. InstOf(key, new) \in HelxInst /\ InstOf(key, new).key = key /\ key \in Insts
        BY <2>2, <3>3, Kinds, InstOfType DEF Sound
      <4>2. instanceTable'[key] = InstOf(key, new)
        BY <3>3, <4>1 DEF AddInst, RecInv, TypeOK
      <4> QED BY <3>3, <4>2 DEF Holds
    <3> QED BY <2>5, <3>1, <3>2, <3>3
  <2>7. ReadOK(c, key, read)'
    BY <2>1, <2>2, <2>6 DEF ReadOK
  <2>8. read \in [old : UNION {Resource(d) : d \in Controllers},
                  new : UNION {Resource(d) : d \in Controllers}]
    BY <2>1, <2>2 DEF Sound
  <2> HIDE DEF read
  <2>9. /\ Busy(key, read) \in Workers
        /\ Busy(key, read).key = key /\ Busy(key, read).read = read
    BY <1>t, <2>8 DEF Busy, Workers
  <2>10. worker'[c] = Busy(key, read)
    BY <1>t, <2>3
  <2>11. WorkerOK(c)'
    BY <1>t, <2>7, <2>9, <2>10 DEF WorkerOK
  <2> QED BY <1>t, <2>3, <2>4, <2>11
<1> QED BY <1>1, <1>2, <1>3 DEF Reconcile

LEMMA ReconcileRecInv ==
  ASSUME RecInv, TypeOK', NEW c \in Controllers, NEW key \in KeysOf(c), Reconcile(c, key)
  PROVE  RecInv'
<1>u. /\ UNCHANGED <<api, cache, edits, faults, restarts>>
      /\ queue' = [queue EXCEPT ![c] = @ \ {key}]
  BY DEF Reconcile
<1>1. Shape' /\ CountersOK'
  BY <1>u, ReconcileWorker DEF RecInv, Shape, CountersOK
<1>2. ObjectsSound'
  BY <1>u DEF RecInv, Shape, ObjectsSound
<1>3. ASSUME NEW d \in Controllers \ {c}
      PROVE  WorkerOK(d)'
  <2>a. PICK w : w = worker[d]
    OBVIOUS
  <2>1. worker'[d] = w /\ job'[d] = job[d]
    BY <2>a, ReconcileWorker, ReconcileFrame
  <2>2. ASSUME NEW k \in KeysOf(d), NEW cr, Holds(d, k, cr)
        PROVE  Holds(d, k, cr)'
    BY <2>2, ReconcileFrame, Kinds DEF Holds, GetApp, GetUser
  <2>3. /\ w \in Workers /\ w.key \in KeysOf(d) \cup {Nil}
        /\ w.key = Nil => w = Free /\ job[d] = Idle
        /\ w.read # Nil => ReadOK(d, w.key, w.read)
    BY <2>a DEF RecInv, WorkersOK, WorkerOK
  <2>4. w.read # Nil => ReadOK(d, w.key, w.read)'
    BY <2>2, <2>3 DEF ReadOK
  <2> QED BY <2>1, <2>3, <2>4 DEF WorkerOK
<1>4. WorkersOK'
  BY <1>3, ReconcileWorker DEF WorkersOK
<1> QED BY <1>1, <1>2, <1>4 DEF RecInv

-----------------------------------------------------------------------------
(* The work of a reconcile and its end *)

\* Of the workers, this one's artifact or error changes.
WorkedOn(c) ==
  /\ worker' = [d \in Controllers |-> worker'[d]]
  /\ \A d \in Controllers \ {c} : worker'[d] = worker[d]
  /\ worker'[c] \in Workers
  /\ worker'[c].key = worker[c].key /\ worker'[c].read = worker[c].read

\* Such a step keeps the invariant if it leaves the objects alone.
LEMMA WorkRecInv ==
  ASSUME RecInv, TypeOK', NEW c \in Controllers, worker[c].key # Nil,
         UNCHANGED <<api, cache, queue, minted, edits, restarts>>, faults' \in 0..MaxFaults,
         \A k \in Key : appTable'[k].obj = appTable[k].obj /\ userTable'[k].obj = userTable[k].obj,
         instanceTable' = instanceTable,
         \A d \in Controllers \ {c} : job'[d] = job[d],
         WorkedOn(c)
  PROVE  RecInv'
<1>1. Shape' /\ ObjectsSound' /\ CountersOK'
  BY DEF RecInv, Shape, ObjectsSound, CountersOK, WorkedOn
<1>2. ASSUME NEW d \in Controllers PROVE WorkerOK(d)'
  <2>a. PICK x : x = worker[d]
    OBVIOUS
  <2>1. ASSUME NEW k \in KeysOf(d), NEW cr, Holds(d, k, cr)
        PROVE  Holds(d, k, cr)'
    BY <2>1, Kinds DEF Holds, GetApp, GetUser
  <2>2. /\ x \in Workers /\ x.key \in KeysOf(d) \cup {Nil}
        /\ x.key = Nil => x = Free /\ job[d] = Idle
        /\ x.read # Nil => ReadOK(d, x.key, x.read)
    BY <2>a DEF RecInv, WorkersOK, WorkerOK
  <2>3. x.read # Nil => ReadOK(d, x.key, x.read)'
    BY <2>1, <2>2 DEF ReadOK
  <2>4. CASE d = c
    <3>1. worker'[d] \in Workers /\ worker'[d].key = x.key /\ worker'[d].read = x.read /\ x.key # Nil
      BY <2>a, <2>4 DEF WorkedOn
    <3> QED BY <2>2, <2>3, <3>1 DEF WorkerOK
  <2>5. CASE d # c
    <3>1. worker'[d] = x /\ job'[d] = job[d]
      BY <2>a, <2>5 DEF WorkedOn
    <3> QED BY <2>2, <2>3, <3>1 DEF WorkerOK
  <2> QED BY <2>4, <2>5
<1>3. WorkersOK'
  BY <1>2 DEF WorkersOK
<1> QED BY <1>1, <1>3 DEF RecInv

LEMMA GenerateRecInv ==
  ASSUME RecInv, TypeOK', NEW c \in Controllers, NEW inst \in job[c].insts, Generate(c, inst)
  PROVE  RecInv'
<1>u. /\ UNCHANGED <<api, cache, queue, minted, edits, faults, restarts>>
      /\ UNCHANGED tables /\ job[c].op = "create"
      /\ job' = [job EXCEPT ![c] = Done(c, inst)]
      /\ worker' = IF HasArtifact(inst) THEN [worker EXCEPT ![c].artifact = Rendered(inst)] ELSE worker
  BY DEF Generate, GenerateArtifacts
<1>1. worker[c].key # Nil
  BY <1>u DEF RecInv, WorkersOK, WorkerOK, Idle
<1>2. inst \in HelxInst /\ AppKey(inst) \in Key /\ UserKey(inst) \in Key
  BY KeysAreKeys DEF RecInv, TypeOK
<1>3. HasArtifact(inst) => Rendered(inst) \in Artifacts
  <2> SUFFICES ASSUME HasArtifact(inst) PROVE Rendered(inst) \in Artifacts
    OBVIOUS
  <2>1. GetApp(AppKey(inst)) \in Revisions /\ GetUser(UserKey(inst)) \in Revisions
    BY <1>2 DEF HasArtifact, Complete, GetApp, GetUser, RecInv, TypeOK, TableElement
  <2>2. inst.spec.resources \in Resources
    BY <1>2, SpecsAssumption DEF HelxInst
  <2> QED BY <1>2, <2>1, <2>2 DEF Rendered, Artifacts, Content
<1>4. WorkedOn(c)
  BY <1>u, <1>3 DEF WorkedOn, Workers, RecInv, Shape, WorkersOK, WorkerOK
<1>7. /\ \A k \in Key : appTable'[k].obj = appTable[k].obj /\ userTable'[k].obj = userTable[k].obj
      /\ instanceTable' = instanceTable
      /\ \A d \in Controllers \ {c} : job'[d] = job[d]
      /\ faults' \in 0..MaxFaults
  BY <1>u DEF tables, RecInv, TypeOK, CountersOK
<1> QED BY <1>u, <1>1, <1>4, <1>7, WorkRecInv

LEMMA GenerateFailsRecInv ==
  ASSUME RecInv, TypeOK', NEW c \in Controllers, NEW inst \in job[c].insts, GenerateFails(c, inst)
  PROVE  RecInv'
<1>u. /\ UNCHANGED <<api, cache, queue, minted, edits, faults, restarts>>
      /\ UNCHANGED tables /\ job[c].op = "create"
      /\ job' = [job EXCEPT ![c] = Idle]
      /\ worker' = [worker EXCEPT ![c] = Failed(worker[c])]
  BY DEF GenerateFails, Abandon
<1>1. worker[c].key # Nil
  BY <1>u DEF RecInv, WorkersOK, WorkerOK, Idle
<1>2. worker[c] \in Workers /\ worker = [d \in Controllers |-> worker[d]]
  BY DEF RecInv, Shape, WorkersOK, WorkerOK
<1>3. WorkedOn(c)
  <2>1. Failed(worker[c]) \in Workers
    BY <1>2 DEF Workers, Failed
  <2> QED BY <1>u, <1>2, <2>1 DEF Failed, WorkedOn
<1>4. /\ \A k \in Key : appTable'[k].obj = appTable[k].obj /\ userTable'[k].obj = userTable[k].obj
      /\ instanceTable' = instanceTable
      /\ \A d \in Controllers \ {c} : job'[d] = job[d]
      /\ faults' \in 0..MaxFaults
  BY <1>u DEF tables, RecInv, TypeOK, CountersOK
<1> QED BY <1>u, <1>1, <1>3, <1>4, WorkRecInv

LEMMA DeleteWorkloadRecInv ==
  ASSUME RecInv, TypeOK', NEW c \in Controllers, NEW inst \in job[c].insts, DeleteWorkload(c, inst)
  PROVE  RecInv'
<1>u. /\ UNCHANGED <<api, cache, queue, worker, minted, edits, restarts>>
      /\ UNCHANGED tables /\ job[c].op = "delete"
      /\ job' = [job EXCEPT ![c] = Done(c, inst)]
      /\ faults' \in {faults, faults + 1} /\ faults' <= MaxFaults
  BY DEF DeleteWorkload, DeleteDerivatives
<1>1. worker[c].key # Nil
  BY <1>u DEF RecInv, WorkersOK, WorkerOK, Idle
<1>2. WorkedOn(c)
  BY <1>u DEF WorkedOn, RecInv, Shape, WorkersOK, WorkerOK
<1>3. /\ \A k \in Key : appTable'[k].obj = appTable[k].obj /\ userTable'[k].obj = userTable[k].obj
      /\ instanceTable' = instanceTable
      /\ \A d \in Controllers \ {c} : job'[d] = job[d]
      /\ faults' \in 0..MaxFaults
  BY <1>u, BoundsAssumption DEF tables, RecInv, TypeOK, CountersOK
<1> QED BY <1>u, <1>1, <1>2, <1>3, WorkRecInv

LEMMA AppliedRecInv ==
  ASSUME RecInv, TypeOK', NEW c \in Controllers, Applied(c) \/ NotApplied(c)
  PROVE  RecInv'
<1>u. /\ UNCHANGED <<api, cache, queue, minted, edits, restarts>>
      /\ UNCHANGED tables /\ worker[c].artifact # Nil
      /\ job' = job \/ job' = [job EXCEPT ![c] = Idle]
      /\ faults' \in {faults, faults + 1} /\ (faults' = faults \/ faults' <= MaxFaults)
  BY DEF Applied, NotApplied, Abandon, graph, vars, tables
<1>1. worker[c].key # Nil
  BY <1>u DEF RecInv, WorkersOK, WorkerOK, Free
<1>4. worker[c] \in Workers /\ worker = [d \in Controllers |-> worker[d]]
  BY DEF RecInv, Shape, WorkersOK, WorkerOK
<1>5. WorkedOn(c)
  <2>1. CASE Applied(c)
    BY <1>4, <2>1 DEF Applied, WorkedOn, Workers
  <2>2. CASE NotApplied(c)
    <3>1. Failed(worker[c]) \in Workers
      BY <1>4 DEF Workers, Failed
    <3> QED BY <1>4, <2>2, <3>1 DEF NotApplied, Failed, WorkedOn
  <2> QED BY <2>1, <2>2
<1>7. /\ \A k \in Key : appTable'[k].obj = appTable[k].obj /\ userTable'[k].obj = userTable[k].obj
      /\ instanceTable' = instanceTable
      /\ \A d \in Controllers \ {c} : job'[d] = job[d]
      /\ faults' \in 0..MaxFaults
  BY <1>u, BoundsAssumption DEF tables, RecInv, TypeOK, CountersOK
<1> QED BY <1>u, <1>1, <1>5, <1>7, WorkRecInv

\* The status update writes, if anything, what the graph holds, over the object that
\* was read.
LEMMA StatusWrites ==
  ASSUME RecInv, NEW c \in Controllers, worker[c].key # Nil, UpdateStatus(c)
  PROVE  \/ api' = api
         \/ \E v \in Sound(c) :
              /\ worker[c].key \in KeysOf(c)
              /\ api' = [api EXCEPT ![c][worker[c].key] = v]
              /\ api[c][worker[c].key] \in Sound(c) /\ Holds(c, worker[c].key, v)
              /\ v.gen = api[c][worker[c].key].gen
              /\ api[c][worker[c].key].uuid # Nil => v.uuid = api[c][worker[c].key].uuid
<1> DEFINE key == worker[c].key
           read == worker[c].read
           v == [read.new EXCEPT !.obs = read.new.gen]
<1> SUFFICES ASSUME api' # api
             PROVE  \E x \in Sound(c) :
                      /\ key \in KeysOf(c)
                      /\ api' = [api EXCEPT ![c][key] = x]
                      /\ api[c][key] \in Sound(c) /\ Holds(c, key, x)
                      /\ x.gen = api[c][key].gen
                      /\ api[c][key].uuid # Nil => x.uuid = api[c][key].uuid
  OBVIOUS
<1>1. read # Nil /\ api[c][key] = read.old /\ api' = [api EXCEPT ![c][key] = v]
  BY DEF UpdateStatus
<1>2. ReadOK(c, key, read)
  BY <1>1 DEF RecInv, WorkersOK, WorkerOK
<1> HIDE DEF key, read
<1>3. /\ v \in Resource(c) /\ v.obs = v.gen /\ v.gen = read.new.gen /\ v.content = read.new.content
      /\ v.uid = read.new.uid /\ v.uuid = read.new.uuid
  BY <1>2, BoundsAssumption DEF ReadOK, Sound, Resource
<1> HIDE DEF v
<1>4. v \in Sound(c)
  BY <1>2, <1>3, BoundsAssumption DEF ReadOK, Sound, Resource
<1>5. Holds(c, key, v)
  BY <1>2, <1>3 DEF ReadOK, Holds, InstOf
<1> QED BY <1>1, <1>2, <1>3, <1>4, <1>5 DEF ReadOK

LEMMA FinishRecInv ==
  ASSUME RecInv, TypeOK', NEW c \in Controllers, Finish(c)
  PROVE  RecInv'
<1>u. /\ UNCHANGED <<vars, cache, minted, edits, restarts>>
      /\ worker[c].key # Nil /\ job[c] = Idle /\ UpdateStatus(c)
      /\ worker' = [worker EXCEPT ![c] = Free]
      /\ queue' = queue \/ queue' = [queue EXCEPT ![c] = @ \cup {worker[c].key}]
  BY DEF Finish, graph
<1>k. worker[c].key \in KeysOf(c)
  BY <1>u DEF RecInv, WorkersOK, WorkerOK
<1>1. /\ api' = [d \in Controllers |-> api'[d]]
      /\ \A d \in Controllers :
           /\ api'[d] \in [KeysOf(d) -> Sound(d) \cup {Nil}]
           /\ \A k \in KeysOf(d) : api'[d][k] # Nil => api'[d][k].gen <= edits' + 1
  <2>1. CASE api' = api
    BY <1>u, <2>1 DEF RecInv, Shape, ObjectsSound
  <2>2. CASE api' # api
    <3>1. PICK v \in Sound(c) :
            /\ api' = [api EXCEPT ![c][worker[c].key] = v]
            /\ api[c][worker[c].key] \in Sound(c) /\ v.gen = api[c][worker[c].key].gen
      BY <1>u, <2>2, StatusWrites
    <3>2. api[c][worker[c].key] # Nil
      BY <3>1, NilNoneAssumption DEF Sound
    <3>3. v.gen <= edits + 1
      BY <1>k, <3>1, <3>2 DEF RecInv, ObjectsSound
    <3>4. edits \in Nat
      BY BoundsAssumption DEF RecInv, CountersOK
    <3> QED BY <1>u, <1>k, <3>1, <3>3, <3>4, ApiWritten DEF RecInv
  <2> QED BY <2>1, <2>2
<1>2. Shape' /\ ObjectsSound'
  <2>1. /\ queue' = [d \in Controllers |-> queue'[d]]
        /\ \A d \in Controllers : queue'[d] \subseteq KeysOf(d)
    BY <1>u, <1>k DEF RecInv, Shape, ObjectsSound
  <2> QED BY <1>u, <1>1, <2>1 DEF RecInv, Shape, ObjectsSound
<1>3. CountersOK'
  BY <1>u, BoundsAssumption DEF UpdateStatus, RecInv, CountersOK
<1>4. ASSUME NEW d \in Controllers PROVE WorkerOK(d)'
  <2>1. CASE d = c
    <3>1. worker'[d] = Free /\ job'[d] = Idle
      BY <1>u, <2>1 DEF RecInv, Shape, vars
    <3>2. Free \in Workers /\ Free.key = Nil /\ Free.read = Nil
      BY DEF Free, Workers
    <3> QED BY <3>1, <3>2 DEF WorkerOK
  <2>2. CASE d # c
    <3>1. worker'[d] = worker[d] /\ UNCHANGED vars
      BY <1>u, <2>2 DEF RecInv, Shape
    <3> QED BY <3>1 DEF RecInv, WorkersOK, WorkerOK, ReadOK, Holds, GetApp, GetUser, vars
  <2> QED BY <2>1, <2>2
<1>5. WorkersOK'
  BY <1>4 DEF WorkersOK
<1> QED BY <1>2, <1>3, <1>5 DEF RecInv

LEMMA RestartRecInv == RecInv /\ TypeOK' /\ RestartController => RecInv'
<1> SUFFICES ASSUME RecInv, TypeOK', RestartController PROVE RecInv'
  OBVIOUS
<1>u. /\ UNCHANGED <<api, minted, edits, faults>> /\ restarts < MaxRestarts /\ restarts' = restarts + 1
      /\ cache' = api /\ queue' = AllKeys
      /\ worker' = [c \in Controllers |-> Free] /\ job' = [c \in Controllers |-> Idle]
  BY DEF RestartController, Restart
<1>1. Shape' /\ ObjectsSound'
  BY <1>u DEF RecInv, Shape, ObjectsSound, AllKeys
<1>2. CountersOK'
  BY <1>u, BoundsAssumption DEF RecInv, CountersOK
<1>3. Free \in Workers /\ Free.key = Nil /\ Free.read = Nil
  BY DEF Free, Workers
<1>4. WorkersOK'
  BY <1>u, <1>3 DEF WorkersOK, WorkerOK
<1> QED BY <1>1, <1>2, <1>4 DEF RecInv

LEMMA InitRecInv == ReconcilersInit => RecInv
<1> SUFFICES ASSUME ReconcilersInit PROVE RecInv
  OBVIOUS
<1>1. TypeOK
  BY InitTypeOK DEF ReconcilersInit
<1>2. \A c \in Controllers : api[c] \in Initial(c)
  BY DEF ReconcilersInit, Controllers
<1>3. ASSUME NEW c \in Controllers
      PROVE  /\ api[c] \in [KeysOf(c) -> Sound(c) \cup {Nil}]
             /\ \A key \in KeysOf(c) : api[c][key] # Nil => api[c][key].gen <= 1
  <2>1. CASE c \in Present
    <3>1. PICK x \in ContentsOf(c) : api[c] = [key \in KeysOf(c) |->
                   [uid |-> 0, gen |-> 1, obs |-> 0, content |-> x, uuid |-> Nil]]
      BY <1>2, <2>1 DEF Initial
    <3>2. [uid |-> 0, gen |-> 1, obs |-> 0, content |-> x, uuid |-> Nil] \in Sound(c)
      BY BoundsAssumption DEF Sound, Resource
    <3> QED BY <3>1, <3>2
  <2>2. CASE c \notin Present
    BY <1>2, <2>2 DEF Initial
  <2> QED BY <2>1, <2>2
<1>4. api = [c \in Controllers |-> api[c]]
  BY DEF ReconcilersInit, Controllers
<1>5. Shape /\ ObjectsSound /\ CountersOK
  BY <1>3, <1>4, BoundsAssumption DEF ReconcilersInit, Shape, ObjectsSound, CountersOK, AllKeys
<1>6. Free \in Workers /\ Free.key = Nil /\ Free.read = Nil
  BY DEF Free, Workers
<1>7. WorkersOK
  BY <1>6 DEF ReconcilersInit, Init, WorkersOK, WorkerOK
<1> QED BY <1>1, <1>5, <1>7 DEF RecInv

LEMMA NextRecInv == RecInv /\ [ReconcilersNext]_reconcilerVars => RecInv'
<1> SUFFICES ASSUME RecInv, [ReconcilersNext]_reconcilerVars PROVE RecInv'
  OBVIOUS
<1>t. TypeOK'
  BY GraphTypeOK
<1>1. CASE UNCHANGED reconcilerVars
  <2>1. WorkersOK'
    BY <1>1, WorkersKept DEF reconcilerVars, RecInv
  <2> QED BY <1>1, <1>t, <2>1 DEF reconcilerVars, RecInv, Shape, ObjectsSound, CountersOK
<1>2. CASE UserEdits
  BY <1>t, <1>2, EditsRecInv
<1>3. ASSUME NEW c \in Controllers, NEW key \in KeysOf(c), Sync(c, key) \/ Reconcile(c, key)
      PROVE  RecInv'
  BY <1>t, <1>3, SyncRecInv, ReconcileRecInv
<1>4. ASSUME NEW c \in Controllers, Work(c)
      PROVE  RecInv'
  BY <1>t, <1>4, GenerateRecInv, GenerateFailsRecInv, DeleteWorkloadRecInv, AppliedRecInv,
     FinishRecInv DEF Work
<1>5. CASE RestartController
  BY <1>t, <1>5, RestartRecInv
<1> QED BY <1>1, <1>2, <1>3, <1>4, <1>5 DEF ReconcilersNext

LEMMA RecInductive == ReconcilersSpec => []RecInv
BY InitRecInv, NextRecInv, PTL DEF ReconcilersSpec

-----------------------------------------------------------------------------
(* What holds of the reconcilers *)

\* Types, and the shape of a reconcile, whatever the keys, the contents and the bounds.
THEOREM ReconcilersTypeCorrect == ReconcilersSpec => []ReconcilersTypeOK
<1>1. RecInv => ReconcilersTypeOK
  <2> SUFFICES ASSUME RecInv PROVE ReconcilersTypeOK
    OBVIOUS
  <2>1. ASSUME NEW c \in Controllers
        PROVE  /\ api[c] \in [KeysOf(c) -> Resource(c) \cup {Nil}]
               /\ cache[c] \in [KeysOf(c) -> Resource(c) \cup {Nil}]
               /\ queue[c] \subseteq KeysOf(c)
               /\ worker[c] \in Workers
               /\ worker[c].key = Nil => worker[c] = Free /\ job[c] = Idle
    <3>1. Sound(c) \subseteq Resource(c)
      BY DEF Sound
    <3> QED BY <3>1 DEF RecInv, ObjectsSound, WorkersOK, WorkerOK
  <2> QED BY <2>1 DEF RecInv, CountersOK, ReconcilersTypeOK
<1> QED BY <1>1, RecInductive, PTL

\* The reconcilers drive the graph as ObjectGraph says, whatever users, caches, failures
\* and restarts do: what is proved of the graph holds of the controller.
THEOREM GraphImplemented == ReconcilersSpec => Spec
<1>1. ReconcilersInit => Init
  BY DEF ReconcilersInit
<1>2. RecInv /\ [ReconcilersNext]_reconcilerVars => [Next]_vars
  BY NextIsGraphNext
<1> QED BY <1>1, <1>2, RecInductive, PTL DEF ReconcilersSpec, Spec

\* In the running controller no complete triple is lost.
THEOREM NoTripleLost == ReconcilersSpec => []NoLostTriple
BY GraphImplemented, TripleRendezvous, PTL

\* The uuid in an instance's status never changes while the instance exists.
THEOREM UUIDKept == ReconcilersSpec => UUIDNeverReplaced
<1>1. ASSUME RecInv, [ReconcilersNext]_reconcilerVars, NEW i \in Insts,
             Exists("inst", i), Exists("inst", i)', api["inst"][i].uuid # Nil
      PROVE  api'["inst"][i].uuid = api["inst"][i].uuid
  <2>i. "inst" \in Controllers /\ i \in KeysOf("inst")
    BY Kinds
  <2>w. ASSUME NEW c \in Controllers, NEW key \in KeysOf(c), NEW v \in Sound(c) \cup {Nil},
               api' = [api EXCEPT ![c][key] = v],
               v # Nil /\ api[c][key] # Nil /\ api[c][key].uuid # Nil =>
                 v.uuid = api[c][key].uuid
        PROVE  api'["inst"][i].uuid = api["inst"][i].uuid
    <3>1. /\ api[c] \in [KeysOf(c) -> Sound(c) \cup {Nil}] /\ api = [d \in Controllers |-> api[d]]
      BY <1>1 DEF RecInv, Shape, ObjectsSound
    <3>2. /\ api'[c][key] = v
          /\ \A d \in Controllers \ {c} : api'[d] = api[d]
          /\ \A k \in KeysOf(c) \ {key} : api'[c][k] = api[c][k]
      BY <2>w, <3>1, Put
    <3> QED BY <1>1, <2>i, <2>w, <3>2 DEF Exists
  <2>1. CASE api' = api
    BY <2>1
  <2>2. CASE UserEdits
    BY <1>1, <2>2, <2>w, EditsWrite
  <2>3. ASSUME NEW c \in Controllers, Finish(c), api' # api
        PROVE  api'["inst"][i].uuid = api["inst"][i].uuid
    <3>1. worker[c].key # Nil /\ UpdateStatus(c)
      BY <2>3 DEF Finish
    <3>2. PICK v \in Sound(c) :
            /\ worker[c].key \in KeysOf(c)
            /\ api' = [api EXCEPT ![c][worker[c].key] = v]
            /\ api[c][worker[c].key].uuid # Nil => v.uuid = api[c][worker[c].key].uuid
      BY <1>1, <2>3, <3>1, StatusWrites
    <3> QED BY <2>w, <3>2
  <2> QED BY <1>1, <2>1, <2>2, <2>3
          DEF ReconcilersNext, reconcilerVars, Sync, Reconcile, Work, Generate, GenerateFails, DeleteWorkload,
              Applied, NotApplied, RestartController
<1>2. RecInv /\ [ReconcilersNext]_reconcilerVars =>
        [\A i \in Insts :
           (Exists("inst", i) /\ Exists("inst", i)' /\ api'["inst"][i].uid = api["inst"][i].uid
              /\ api["inst"][i].uuid # Nil)
             => api'["inst"][i].uuid = api["inst"][i].uuid]_reconcilerVars
  BY <1>1
<1> QED BY <1>2, RecInductive, PTL DEF ReconcilersSpec, UUIDNeverReplaced

-----------------------------------------------------------------------------
(* What is recorded as observed *)

\* An object on the API server changes by an edit, which leaves it unobserved, or by
\* the status update of what the graph holds.
LEMMA ObservedByStatus ==
  ASSUME RecInv, [ReconcilersNext]_reconcilerVars, NEW c \in Controllers, NEW key \in KeysOf(c),
         api'[c][key] # api[c][key], Observed(c, key)'
  PROVE  InGraph(c, key)'
<1>w. ASSUME NEW d \in Controllers, NEW k \in KeysOf(d), NEW v \in Sound(d) \cup {Nil},
             api' = [api EXCEPT ![d][k] = v]
      PROVE  d = c /\ k = key /\ api'[c][key] = v
  <2>1. /\ api[d] \in [KeysOf(d) -> Sound(d) \cup {Nil}] /\ api = [e \in Controllers |-> api[e]]
    BY DEF RecInv, Shape, ObjectsSound
  <2>2. /\ api'[d][k] = v
        /\ \A e \in Controllers \ {d} : api'[e] = api[e]
        /\ \A l \in KeysOf(d) \ {k} : api'[d][l] = api[d][l]
    BY <1>w, <2>1, Put
  <2> QED BY <2>2
<1>1. CASE UserEdits
  <2>1. PICK d \in Controllers : \E k \in KeysOf(d) : \E v \in Sound(d) \cup {Nil} :
          api' = [api EXCEPT ![d][k] = v] /\ (v # Nil => v.obs < v.gen)
    BY <1>1, EditsWrite
  <2>2. PICK k \in KeysOf(d) : \E v \in Sound(d) \cup {Nil} :
          api' = [api EXCEPT ![d][k] = v] /\ (v # Nil => v.obs < v.gen)
    BY <2>1
  <2>3. PICK v \in Sound(d) \cup {Nil} :
          api' = [api EXCEPT ![d][k] = v] /\ (v # Nil => v.obs < v.gen)
    BY <2>2
  <2>4. api'[c][key] = v /\ v # Nil /\ v.obs >= v.gen /\ v \in Sound(c)
    BY <1>w, <2>3 DEF Observed, Exists
  <2>5. v.obs \in Nat /\ v.gen \in Nat
    BY <2>4, BoundsAssumption DEF Sound, Resource
  <2> QED BY <2>3, <2>4, <2>5
<1>2. ASSUME NEW d \in Controllers, Finish(d)
      PROVE  InGraph(c, key)'
  <2>1. worker[d].key # Nil /\ UpdateStatus(d) /\ UNCHANGED vars
    BY <1>2 DEF Finish, graph
  <2>2. PICK v \in Sound(d) :
          /\ worker[d].key \in KeysOf(d)
          /\ api' = [api EXCEPT ![d][worker[d].key] = v] /\ Holds(d, worker[d].key, v)
    BY <2>1, StatusWrites
  <2>3. api'[c][key] = v /\ Holds(c, key, v)
    BY <1>w, <2>2
  <2>4. Holds(c, key, v)'
    BY <2>1, <2>3 DEF Holds, GetApp, GetUser, vars
  <2>5. Holds(c, key, api[c][key])'
    BY <2>3, <2>4 DEF Holds, InstOf
  <2> QED BY <2>5, InGraphHolds
<1> QED BY <1>1, <1>2
        DEF ReconcilersNext, reconcilerVars, Sync, Reconcile, Work, Generate, GenerateFails, DeleteWorkload,
            Applied, NotApplied, RestartController

\* When a status update records a generation as observed, the graph holds that very
\* generation of the same object.
THEOREM EditsNotSkipped == ReconcilersSpec => EditsAreNotSkipped
<1>1. ASSUME RecInv, [ReconcilersNext]_reconcilerVars, NEW c \in Controllers, NEW key \in KeysOf(c),
             ~Observed(c, key), Observed(c, key)'
      PROVE  InGraph(c, key)'
  <2>1. api'[c][key] # api[c][key]
    BY <1>1 DEF Observed, Exists
  <2> QED BY <1>1, <2>1, ObservedByStatus
<1>2. RecInv /\ [ReconcilersNext]_reconcilerVars =>
        [\A c \in Controllers : \A key \in KeysOf(c) :
           (~Observed(c, key) /\ Observed(c, key)') => InGraph(c, key)']_reconcilerVars
  BY <1>1
<1> QED BY <1>2, RecInductive, PTL DEF ReconcilersSpec, EditsAreNotSkipped

\* The reconcile of an object that the cache has as it is, and observed, stores it.
LEMMA ResyncStores ==
  ASSUME RecInv, NEW c \in Controllers, NEW key \in KeysOf(c), Reconcile(c, key),
         Observed(c, key), cache[c][key] = api[c][key]
  PROVE  InGraph(c, key)'
<1>a. PICK cr : cr = cache[c][key]
  OBVIOUS
<1>1. cr \in Sound(c) /\ cr.obs >= cr.gen /\ cr.gen \in 1..(MaxEdits + 1) /\ cr.obs \in Nat
      /\ api' = api
  BY <1>a, BoundsAssumption DEF RecInv, ObjectsSound, Observed, Exists, Sound, Resource, Reconcile
<1>2. ReconcileResync(c, key)
  BY <1>a, <1>1 DEF Reconcile, ReconcileDeleted, ReconcileChanged, Observed, Exists
<1>3. \/ c = "app" /\ ResyncApp(key, cr.content)
      \/ c = "user" /\ ResyncUser(key, cr.content)
      \/ c = "inst" /\ ResyncInst(InstOf(key, cr))
  BY <1>a, <1>2 DEF ReconcileResync
<1>k. key \in Key
  BY Kinds
<1>4. CASE c = "app" /\ ResyncApp(key, cr.content)
  <2>1. cr.content \in Revisions
    BY <1>1, <1>4, Kinds DEF Sound, Resource
  <2>2. appTable'[key].obj = cr.content
    <3>1. appTable \in [Key -> TableElement] /\ appTable' = SetObj(appTable, key, cr.content)
      BY <1>4 DEF ResyncApp, RecInv, TypeOK
    <3> QED BY <1>k, <2>1, <3>1, SetObjType
  <2>3. Holds(c, key, api[c][key])'
    BY <1>a, <1>1, <1>4, <2>2 DEF Holds, GetApp
  <2> QED BY <2>3, InGraphHolds
<1>5. CASE c = "user" /\ ResyncUser(key, cr.content)
  <2>1. cr.content \in Revisions
    BY <1>1, <1>5, Kinds DEF Sound, Resource
  <2>2. userTable'[key].obj = cr.content
    <3>1. userTable \in [Key -> TableElement] /\ userTable' = SetObj(userTable, key, cr.content)
      BY <1>5 DEF ResyncUser, RecInv, TypeOK
    <3> QED BY <1>k, <2>1, <3>1, SetObjType
  <2>3. Holds(c, key, api[c][key])'
    BY <1>a, <1>1, <1>5, <2>2 DEF Holds, GetUser
  <2> QED BY <2>3, InGraphHolds
<1>6. CASE c = "inst" /\ ResyncInst(InstOf(key, cr))
  <2>1. InstOf(key, cr) \in HelxInst /\ InstOf(key, cr).key = key /\ key \in Insts
    <3>1. cr.obs > 0
      BY <1>1, BoundsAssumption
    <3> QED BY <1>1, <1>6, <3>1, Kinds, InstOfType DEF Sound
  <2>2. instanceTable'[key] = InstOf(key, cr)
    BY <1>6, <2>1 DEF ResyncInst, RecInv, TypeOK
  <2>3. Holds(c, key, api[c][key])'
    BY <1>a, <1>1, <1>6, <2>2 DEF Holds, InstOf
  <2> QED BY <2>3, InGraphHolds
<1> QED BY <1>3, <1>4, <1>5, <1>6

LEMMA NextObservedIsKnown ==
  RecInv /\ ObservedIsKnown /\ [ReconcilersNext]_reconcilerVars => ObservedIsKnown'
<1> SUFFICES ASSUME RecInv, ObservedIsKnown, [ReconcilersNext]_reconcilerVars,
                    NEW c \in Controllers, NEW key \in KeysOf(c), Observed(c, key)'
             PROVE  (InGraph(c, key) \/ key \in queue[c] \/ cache[c][key] # api[c][key])'
  BY DEF ObservedIsKnown
<1>1. CASE api'[c][key] # api[c][key]
  BY <1>1, ObservedByStatus
<1>2. CASE api'[c][key] = api[c][key]
  <2>1. InGraph(c, key) \/ key \in queue[c] \/ cache[c][key] # api[c][key]
    BY <1>2 DEF ObservedIsKnown, Observed, Exists
  <2>k. key \in Key /\ (c = "inst" => key \in Insts)
    BY Kinds
  <2>g. ASSUME GetApp(key)' = GetApp(key) \/ c # "app", GetUser(key)' = GetUser(key) \/ c # "user",
               instanceTable'[key] = instanceTable[key] \/ c # "inst", InGraph(c, key)
        PROVE  InGraph(c, key)'
    <3>1. Holds(c, key, api[c][key])'
      BY <1>2, <2>g, InGraphHolds DEF Holds, InstOf
    <3> QED BY <3>1, InGraphHolds
  <2>2. CASE UserEdits \/ UNCHANGED reconcilerVars
    <3>1. UNCHANGED <<vars, cache, queue>>
      BY <2>2 DEF UserEdits, Create, Update, Delete, graph, reconcilerVars
    <3> QED BY <1>2, <2>1, <2>g, <3>1 DEF vars, GetApp, GetUser
  <2>3. ASSUME NEW d \in Controllers, NEW k \in KeysOf(d), Sync(d, k)
        PROVE  (InGraph(c, key) \/ key \in queue[c] \/ cache[c][key] # api[c][key])'
    <3>1. /\ UNCHANGED <<vars, api>> /\ cache' = [cache EXCEPT ![d][k] = api[d][k]]
          /\ queue' = [queue EXCEPT ![d] = @ \cup {k}]
      BY <2>3 DEF Sync, graph
    <3>2. queue = [e \in Controllers |-> queue[e]] /\ cache = [e \in Controllers |-> cache[e]]
          /\ cache[d] \in [KeysOf(d) -> Sound(d) \cup {Nil}]
      BY DEF RecInv, Shape, ObjectsSound
    <3>3. CASE d = c /\ k = key
      BY <3>1, <3>2, <3>3
    <3>4. CASE d # c \/ k # key
      <4>1. cache'[c][key] = cache[c][key] /\ (key \in queue[c] => key \in queue'[c])
        BY <3>1, <3>2, <3>4
      <4> QED BY <1>2, <2>1, <2>g, <3>1, <4>1 DEF vars, GetApp, GetUser
    <3> QED BY <3>3, <3>4
  <2>4. ASSUME NEW d \in Controllers, NEW k \in KeysOf(d), Reconcile(d, k)
        PROVE  (InGraph(c, key) \/ key \in queue[c] \/ cache[c][key] # api[c][key])'
    <3>1. UNCHANGED <<api, cache>> /\ queue' = [queue EXCEPT ![d] = @ \ {k}]
      BY <2>4 DEF Reconcile
    <3>2. queue = [e \in Controllers |-> queue[e]]
      BY DEF RecInv, Shape
    <3>3. CASE d = c /\ k = key
      <4>1. Observed(c, key)
        BY <3>1 DEF Observed, Exists
      <4> QED BY <2>4, <3>1, <3>3, <4>1, ResyncStores
    <3>4. CASE d # c \/ k # key
      <4>1. key \in queue[c] => key \in queue'[c]
        BY <3>1, <3>2, <3>4
      <4>2. InGraph(c, key) => InGraph(c, key)'
        BY <2>4, <2>g, <2>k, <3>4, ReconcileFrame DEF GetApp, GetUser
      <4> QED BY <2>1, <3>1, <4>1, <4>2
    <3> QED BY <3>3, <3>4
  <2>5. ASSUME NEW d \in Controllers, Work(d)
        PROVE  (InGraph(c, key) \/ key \in queue[c] \/ cache[c][key] # api[c][key])'
    <3>1. UNCHANGED <<tables, cache>>
      BY <2>5 DEF Work, Generate, GenerateFails, GenerateArtifacts, DeleteWorkload, DeleteDerivatives, Applied,
                  NotApplied, Abandon, Finish, graph, vars, tables
    <3>2. queue = [e \in Controllers |-> queue[e]]
      BY DEF RecInv, Shape
    <3>3. key \in queue[c] => key \in queue'[c]
      BY <2>5, <3>2 DEF Work, Generate, GenerateFails, DeleteWorkload, Applied, NotApplied, Finish
    <3> QED BY <1>2, <2>1, <2>g, <3>1, <3>3 DEF tables, GetApp, GetUser
  <2>6. CASE RestartController
    BY <2>6, <1>2 DEF RestartController, AllKeys, Observed, Exists
  <2> QED BY <2>2, <2>3, <2>4, <2>5, <2>6 DEF ReconcilersNext
<1> QED BY <1>1, <1>2

\* An object whose status says that its generation was observed is in the graph as it is,
\* or will be reconciled again: the early return of a resync loses nothing.
THEOREM ObservedKnown == ReconcilersSpec => []ObservedIsKnown
<1>1. ReconcilersInit => ObservedIsKnown
  <2> SUFFICES ASSUME ReconcilersInit, NEW c \in Controllers, NEW key \in KeysOf(c), Observed(c, key)
               PROVE  key \in queue[c]
    BY DEF ObservedIsKnown
  <2> QED BY DEF ReconcilersInit, AllKeys, Observed, Exists
<1> QED BY <1>1, NextObservedIsKnown, RecInductive, PTL DEF ReconcilersSpec

-----------------------------------------------------------------------------
(* What one step may do to an object, in each of the places where it is *)

\* An edit: what is left is not observed, and it is a new object or that of before.
IsEdited(c, key) ==
  /\ edits' = edits + 1
  /\ api'[c][key] # Nil =>
       /\ api'[c][key].obs < api'[c][key].gen
       /\ api'[c][key].uid = IF api[c][key] = Nil THEN edits + 1 ELSE api[c][key].uid

\* The status update of the object that was read.
HasStatus(c, key) ==
  /\ worker[c].key = key /\ worker[c].read # Nil
  /\ api[c][key] # Nil /\ api[c][key] = worker[c].read.old
  /\ api'[c][key] # Nil /\ api'[c][key].uid = api[c][key].uid

LEMMA ApiSteps ==
  ASSUME RecInv, [ReconcilersNext]_reconcilerVars
  PROVE  /\ edits' \in {edits, edits + 1}
         /\ \A c \in Controllers : \A key \in KeysOf(c) :
              api'[c][key] = api[c][key] \/ IsEdited(c, key) \/ HasStatus(c, key)
<1>w. ASSUME NEW d \in Controllers, NEW k \in KeysOf(d), NEW v \in Sound(d) \cup {Nil},
             api' = [api EXCEPT ![d][k] = v]
      PROVE  /\ api'[d][k] = v
             /\ \A c \in Controllers : \A key \in KeysOf(c) :
                  c # d \/ key # k => api'[c][key] = api[c][key]
  <2>1. api[d] \in [KeysOf(d) -> Sound(d) \cup {Nil}] /\ api = [e \in Controllers |-> api[e]]
    BY DEF RecInv, Shape, ObjectsSound
  <2>2. /\ api'[d][k] = v
        /\ \A e \in Controllers \ {d} : api'[e] = api[e]
        /\ \A l \in KeysOf(d) \ {k} : api'[d][l] = api[d][l]
    BY <1>w, <2>1, Put
  <2> QED BY <2>2
<1>1. CASE UserEdits
  <2>1. PICK d \in Controllers : \E k \in KeysOf(d) : \E v \in Sound(d) \cup {Nil} :
          /\ api' = [api EXCEPT ![d][k] = v] /\ edits' = edits + 1
          /\ v # Nil => v.obs < v.gen
          /\ v # Nil => v.uid = IF api[d][k] = Nil THEN edits + 1 ELSE api[d][k].uid
    BY <1>1, EditsWrite
  <2>2. PICK k \in KeysOf(d) : \E v \in Sound(d) \cup {Nil} :
          /\ api' = [api EXCEPT ![d][k] = v] /\ edits' = edits + 1
          /\ v # Nil => v.obs < v.gen
          /\ v # Nil => v.uid = IF api[d][k] = Nil THEN edits + 1 ELSE api[d][k].uid
    BY <2>1
  <2>3. PICK v \in Sound(d) \cup {Nil} :
          /\ api' = [api EXCEPT ![d][k] = v] /\ edits' = edits + 1
          /\ v # Nil => v.obs < v.gen
          /\ v # Nil => v.uid = IF api[d][k] = Nil THEN edits + 1 ELSE api[d][k].uid
    BY <2>2
  <2>v. api'[d][k] = v
    <3>1. api[d] \in [KeysOf(d) -> Sound(d) \cup {Nil}] /\ api = [e \in Controllers |-> api[e]]
      BY DEF RecInv, Shape, ObjectsSound
    <3>2. api' = [api EXCEPT ![d][k] = v]
      BY <2>3
    <3> QED BY <3>1, <3>2
  <2>4. IsEdited(d, k)
    BY <2>3, <2>v DEF IsEdited
  <2>5. ASSUME NEW c \in Controllers, NEW key \in KeysOf(c), c # d \/ key # k
        PROVE  api'[c][key] = api[c][key]
    BY <1>w, <2>3, <2>5
  <2>6. \A c \in Controllers : \A key \in KeysOf(c) :
          api'[c][key] = api[c][key] \/ IsEdited(c, key)
    BY <2>4, <2>5
  <2> QED BY <2>3, <2>6
<1>2. ASSUME NEW d \in Controllers, Finish(d)
      PROVE  /\ edits' = edits
             /\ \A c \in Controllers : \A key \in KeysOf(c) :
                  api'[c][key] = api[c][key] \/ HasStatus(c, key)
  <2> DEFINE k == worker[d].key
             read == worker[d].read
             v == [read.new EXCEPT !.obs = read.new.gen]
  <2>1. edits' = edits /\ UpdateStatus(d) /\ worker[d].key # Nil
    BY <1>2 DEF Finish
  <2>2. CASE api' = api
    BY <2>1, <2>2
  <2>3. CASE read # Nil /\ api[d][k] = read.old /\ api' = [api EXCEPT ![d][k] = v]
    <3>1. ReadOK(d, k, read)
      BY <2>3 DEF RecInv, WorkersOK, WorkerOK
    <3> HIDE DEF k, read
    <3>2. read.old # Nil /\ k \in KeysOf(d) /\ read.new.uid = read.old.uid
      BY <3>1, NilNoneAssumption DEF ReadOK, Sound
    <3>3. v \in Sound(d) /\ v.uid = read.new.uid
      BY <3>1, BoundsAssumption DEF ReadOK, Sound, Resource
    <3>4. v # Nil
      BY <3>3, NilNoneAssumption DEF Sound
    <3> HIDE DEF v
    <3>5. /\ api'[d][k] = v
          /\ \A c \in Controllers : \A key \in KeysOf(c) :
               c # d \/ key # k => api'[c][key] = api[c][key]
      BY <1>w, <2>3, <3>2, <3>3
    <3>6. HasStatus(d, k)
      BY <2>3, <3>2, <3>3, <3>4, <3>5 DEF HasStatus, k, read
    <3> QED BY <2>1, <3>5, <3>6
  <2> QED BY <2>1, <2>2, <2>3 DEF UpdateStatus
<1>3. CASE UNCHANGED <<api, edits>>
  BY <1>3
<1> QED BY <1>1, <1>2, <1>3
        DEF ReconcilersNext, reconcilerVars, Sync, Reconcile, Work, Generate, GenerateFails, DeleteWorkload,
            Applied, NotApplied, RestartController

\* The cache entry catches up, and what it then shows is queued.
LEMMA InformerSteps ==
  ASSUME RecInv, [ReconcilersNext]_reconcilerVars, NEW c \in Controllers, NEW key \in KeysOf(c)
  PROVE  \/ cache'[c][key] = cache[c][key]
         \/ /\ cache'[c][key] = api[c][key] /\ api'[c][key] = api[c][key]
            /\ api[c][key] # Nil => key \in queue'[c]
<1>s. /\ queue = [e \in Controllers |-> queue[e]] /\ cache = [e \in Controllers |-> cache[e]]
      /\ \A d \in Controllers : cache[d] \in [KeysOf(d) -> Sound(d) \cup {Nil}]
  BY DEF RecInv, Shape, ObjectsSound
<1>1. ASSUME NEW d \in Controllers, NEW k \in KeysOf(d), Sync(d, k)
      PROVE  \/ cache'[c][key] = cache[c][key]
             \/ /\ cache'[c][key] = api[c][key] /\ api'[c][key] = api[c][key]
                /\ key \in queue'[c]
  <2>1. /\ api' = api /\ cache' = [cache EXCEPT ![d][k] = api[d][k]]
        /\ queue' = [queue EXCEPT ![d] = @ \cup {k}]
    BY <1>1 DEF Sync
  <2> QED BY <1>s, <2>1
<1>2. CASE RestartController
  BY <1>2 DEF RestartController, AllKeys
<1>3. CASE UNCHANGED cache
  BY <1>3
<1> QED BY <1>1, <1>2, <1>3
        DEF ReconcilersNext, reconcilerVars, UserEdits, Create, Update, Delete, Reconcile, Work,
            Generate, GenerateFails, DeleteWorkload, Applied, NotApplied, Finish

\* A key leaves the queue by its reconcile.
LEMMA QueueSteps ==
  ASSUME RecInv, [ReconcilersNext]_reconcilerVars, NEW c \in Controllers, NEW key \in KeysOf(c),
         key \in queue[c]
  PROVE  key \in queue'[c] \/ Reconcile(c, key) \/ RestartController
<1>s. queue = [e \in Controllers |-> queue[e]]
  BY DEF RecInv, Shape
<1>1. ASSUME NEW d \in Controllers, NEW k \in KeysOf(d), Sync(d, k)
      PROVE  key \in queue'[c]
  BY <1>1, <1>s DEF Sync
<1>2. ASSUME NEW d \in Controllers, NEW k \in KeysOf(d), Reconcile(d, k)
      PROVE  key \in queue'[c] \/ (d = c /\ k = key)
  BY <1>2, <1>s DEF Reconcile
<1>3. ASSUME NEW d \in Controllers, Finish(d)
      PROVE  key \in queue'[c]
  BY <1>3, <1>s DEF Finish
<1>4. CASE UNCHANGED queue
  BY <1>4
<1> QED BY <1>1, <1>2, <1>3, <1>4
        DEF ReconcilersNext, reconcilerVars, UserEdits, Create, Update, Delete, Work,
            Generate, GenerateFails, DeleteWorkload, Applied, NotApplied

\* A worker is freed, goes on with its object, or begins with what the cache holds.
Begins(c, key) ==
  /\ Reconcile(c, key) /\ worker'[c].key = key
  /\ cache[c][key] = Nil => worker'[c].read = Nil
  /\ cache[c][key] # Nil => ReconcileChanged(c, key) /\ worker'[c].read.old = cache[c][key]

LEMMA WorkerSteps ==
  ASSUME RecInv, [ReconcilersNext]_reconcilerVars, NEW c \in Controllers
  PROVE  \/ worker'[c] = Free
         \/ worker'[c].key = worker[c].key /\ worker'[c].read = worker[c].read
         \/ \E key \in KeysOf(c) : Begins(c, key)
<1>s. /\ worker = [e \in Controllers |-> worker[e]]
      /\ \A d \in Controllers : worker[d] \in Workers
  BY DEF RecInv, Shape, WorkersOK, WorkerOK
<1>1. ASSUME NEW key \in KeysOf(c), Reconcile(c, key)
      PROVE  worker'[c] = worker[c] \/ Begins(c, key)
  <2>1. CASE ReconcileDeleted(c, key)
    <3>1. worker' = worker \/ worker' = [worker EXCEPT ![c] = Busy(key, Nil)]
      BY <2>1 DEF ReconcileDeleted
    <3>2. cache[c][key] = Nil
      BY <2>1 DEF ReconcileDeleted
    <3>3. Busy(key, Nil).key = key /\ Busy(key, Nil).read = Nil
      BY DEF Busy
    <3> QED BY <1>1, <1>s, <3>1, <3>2, <3>3 DEF Begins
  <2>2. CASE ReconcileResync(c, key)
    BY <2>2 DEF ReconcileResync
  <2>3. CASE ReconcileChanged(c, key)
    <3> DEFINE read == [old |-> cache[c][key], new |-> WithUUID(c, cache[c][key])]
    <3>1. worker' = [worker EXCEPT ![c] = Busy(key, read)] /\ cache[c][key] # Nil
      BY <2>3 DEF ReconcileChanged
    <3>2. read.old = cache[c][key]
      OBVIOUS
    <3> HIDE DEF read
    <3>3. Busy(key, read).key = key /\ Busy(key, read).read = read
      BY DEF Busy
    <3> QED BY <1>1, <1>s, <2>3, <3>1, <3>2, <3>3 DEF Begins
  <2> QED BY <1>1, <2>1, <2>2, <2>3 DEF Reconcile
<1>2. ASSUME NEW d \in Controllers, NEW key \in KeysOf(d), Reconcile(d, key), d # c
      PROVE  worker'[c] = worker[c]
  BY <1>2, GraphTypeOK, ReconcileWorker DEF ReconcilersNext
<1>3. ASSUME NEW d \in Controllers, NEW inst \in job[d].insts, Generate(d, inst)
      PROVE  worker'[c].key = worker[c].key /\ worker'[c].read = worker[c].read
  <2>1. worker' = worker \/ worker' = [worker EXCEPT ![d].artifact = Rendered(inst)]
    BY <1>3 DEF Generate
  <2> QED BY <1>s, <2>1 DEF Workers
<1>4. ASSUME NEW d \in Controllers, Applied(d)
      PROVE  worker'[c].key = worker[c].key /\ worker'[c].read = worker[c].read
  BY <1>4, <1>s DEF Applied, Workers
<1>5. ASSUME NEW d \in Controllers, NotApplied(d) \/ \E inst \in job[d].insts : GenerateFails(d, inst)
      PROVE  worker'[c].key = worker[c].key /\ worker'[c].read = worker[c].read
  <2>1. worker' = [worker EXCEPT ![d] = Failed(worker[d])]
    BY <1>5 DEF NotApplied, GenerateFails
  <2>2. Failed(worker[d]).key = worker[d].key /\ Failed(worker[d]).read = worker[d].read
    BY DEF Failed
  <2> QED BY <1>s, <2>1, <2>2
<1>6. ASSUME NEW d \in Controllers, Finish(d)
      PROVE  worker'[c] \in {Free, worker[c]}
  BY <1>6, <1>s DEF Finish
<1>7. CASE RestartController
  BY <1>7 DEF RestartController
<1>8. CASE UNCHANGED worker
  BY <1>8
<1>9. ASSUME NEW d \in Controllers, Work(d)
      PROVE  \/ worker'[c] = Free
             \/ worker'[c].key = worker[c].key /\ worker'[c].read = worker[c].read
  <2>1. \A inst \in job[d].insts : DeleteWorkload(d, inst) => worker' = worker
    BY DEF DeleteWorkload
  <2> QED BY <1>9, <1>3, <1>4, <1>5, <1>6, <2>1 DEF Work
<1>10. ASSUME NEW d \in Controllers, NEW key \in KeysOf(d), Reconcile(d, key)
       PROVE  worker'[c] = worker[c] \/ \E k \in KeysOf(c) : Begins(c, k)
  BY <1>10, <1>1, <1>2
<1> QED BY <1>7, <1>8, <1>9, <1>10
        DEF ReconcilersNext, reconcilerVars, UserEdits, Create, Update, Delete, Sync

LEMMA ReconcileStores ==
  ASSUME RecInv, NEW c \in Controllers, NEW key \in KeysOf(c), Reconcile(c, key)
  PROVE  /\ cache[c][key] # Nil => Stored(c, key)'
         /\ c = "inst" /\ cache[c][key] = Nil => ~Known(key)'
<1>a. PICK cr : cr = cache[c][key]
  OBVIOUS
<1>k. key \in Key /\ cache' = cache /\ cr \in Sound(c) \cup {Nil}
  BY <1>a, Kinds DEF Reconcile, RecInv, ObjectsSound
<1>t. /\ appTable \in [Key -> TableElement] /\ userTable \in [Key -> TableElement]
      /\ instanceTable \in [Insts -> HelxInst \cup {Nil}]
  BY DEF RecInv, TypeOK
<1>1. ASSUME c = "inst", cr = Nil
      PROVE  ~Known(key)'
  <2>1. ReconcileDeleted(c, key) /\ key \in Insts
    BY <1>1, <1>a, Kinds DEF Reconcile, ReconcileResync, ReconcileChanged
  <2>2. DeleteInst(key) \/ (~Known(key) /\ UNCHANGED vars)
    BY <1>1, <2>1 DEF ReconcileDeleted, graph
  <2> QED BY <1>t, <2>1, <2>2 DEF DeleteInst, Known, vars
<1>2. ASSUME cr # Nil
      PROVE  Stored(c, key)'
  <2>1. PICK new \in Sound(c) :
          /\ new.content = cr.content /\ new.uid = cr.uid /\ (c = "inst" => new.uuid # Nil)
          /\ c = "inst" => cr.uuid \in {Nil, new.uuid}
          /\ \/ c = "app" /\ (AddApp(key, new.content) \/ ResyncApp(key, new.content))
             \/ c = "user" /\ (AddUser(key, new.content) \/ ResyncUser(key, new.content))
             \/ c = "inst" /\ (AddInst(InstOf(key, new)) \/ ResyncInst(InstOf(key, new)))
    <3>1. CASE ReconcileResync(c, key)
      <4>1. c = "inst" => cr.uuid # Nil
        BY <1>2, <1>a, <1>k, <3>1, BoundsAssumption DEF ReconcileResync, Sound, Resource
      <4>2. \/ c = "app" /\ ResyncApp(key, cr.content)
            \/ c = "user" /\ ResyncUser(key, cr.content)
            \/ c = "inst" /\ ResyncInst(InstOf(key, cr))
        BY <1>a, <3>1 DEF ReconcileResync
      <4> QED BY <1>2, <1>k, <4>1, <4>2
    <3>2. CASE ReconcileChanged(c, key)
      <4>1. PICK new : new = WithUUID(c, cr)
        OBVIOUS
      <4>2. (IF new = cr THEN minted ELSE minted + 1) <= MaxUUIDs
        BY <1>a, <3>2, <4>1 DEF ReconcileChanged
      <4>3. new \in Sound(c) /\ new.content = cr.content /\ new.uid = cr.uid
            /\ (c = "inst" => new.uuid # Nil)
        BY <1>2, <1>k, <4>1, <4>2, WithUUIDSound DEF RecInv
      <4>5. c = "inst" => cr.uuid \in {Nil, new.uuid}
        BY <4>1 DEF WithUUID
      <4>4. \/ c = "app" /\ AddApp(key, new.content)
            \/ c = "user" /\ AddUser(key, new.content)
            \/ c = "inst" /\ AddInst(InstOf(key, new))
        BY <1>a, <3>2, <4>1 DEF ReconcileChanged
      <4> QED BY <4>3, <4>4, <4>5
    <3> QED BY <1>2, <1>a, <3>1, <3>2 DEF Reconcile, ReconcileDeleted
  <2>2. CASE c = "app" /\ (AddApp(key, new.content) \/ ResyncApp(key, new.content))
    <3>1. new.content \in Revisions /\ appTable' = SetObj(appTable, key, new.content)
      BY <2>2, Kinds DEF AddApp, ResyncApp, Sound, Resource
    <3>2. appTable'[key].obj = new.content
      BY <1>k, <1>t, <3>1, SetObjType
    <3> QED BY <1>a, <1>k, <2>1, <2>2, <3>2 DEF Stored, GetApp
  <2>3. CASE c = "user" /\ (AddUser(key, new.content) \/ ResyncUser(key, new.content))
    <3>1. new.content \in Revisions /\ userTable' = SetObj(userTable, key, new.content)
      BY <2>3, Kinds DEF AddUser, ResyncUser, Sound, Resource
    <3>2. userTable'[key].obj = new.content
      BY <1>k, <1>t, <3>1, SetObjType
    <3> QED BY <1>a, <1>k, <2>1, <2>3, <3>2 DEF Stored, GetUser
  <2>4. CASE c = "inst" /\ (AddInst(InstOf(key, new)) \/ ResyncInst(InstOf(key, new)))
    <3>1. InstOf(key, new) \in HelxInst /\ InstOf(key, new).key = key /\ key \in Insts
      BY <2>1, <2>4, Kinds, InstOfType DEF Sound
    <3>2. instanceTable'[key] = InstOf(key, new)
      BY <1>t, <2>4, <3>1 DEF AddInst, ResyncInst
    <3>3. /\ InstOf(key, new).spec = cr.content /\ InstOf(key, new).id.uid = cr.uid
          /\ cr.uuid \in {Nil, InstOf(key, new).id.uuid}
      BY <2>1, <2>4 DEF InstOf
    <3>4. InstOf(key, new) # Nil
      BY <3>1, NilAssumption
    <3> QED BY <1>a, <1>k, <2>4, <3>2, <3>3, <3>4 DEF Stored, Known
  <2> QED BY <2>1, <2>2, <2>3, <2>4
<1> QED BY <1>1, <1>2, <1>a

\* An entry of the graph changes by the reconcile of its key.
LEMMA GraphSteps ==
  ASSUME RecInv, [ReconcilersNext]_reconcilerVars, NEW c \in Controllers, NEW key \in KeysOf(c),
         ~Reconcile(c, key), ~RestartController
  PROVE  /\ c = "app" => GetApp(key)' = GetApp(key)
         /\ c = "user" => GetUser(key)' = GetUser(key)
         /\ c = "inst" => instanceTable'[key] = instanceTable[key]
<1>1. ASSUME NEW d \in Controllers, NEW k \in KeysOf(d), Reconcile(d, k)
      PROVE  /\ c = "app" => GetApp(key)' = GetApp(key)
             /\ c = "user" => GetUser(key)' = GetUser(key)
             /\ c = "inst" => instanceTable'[key] = instanceTable[key]
  <2>1. d # c \/ k # key
    BY <1>1
  <2>2. key \in Key /\ (c = "inst" => key \in Insts)
    BY Kinds
  <2> QED BY <1>1, <2>1, <2>2, ReconcileFrame DEF GetApp, GetUser
<1>2. CASE UNCHANGED tables
  BY <1>2 DEF tables, GetApp, GetUser
<1>3. ASSUME NEW d \in Controllers, Work(d)
      PROVE  UNCHANGED tables
  BY <1>3 DEF Work, Generate, GenerateFails, GenerateArtifacts, DeleteWorkload, DeleteDerivatives, Applied,
              NotApplied, Abandon, Finish, graph, vars, tables
<1>4. UserEdits \/ UNCHANGED reconcilerVars => UNCHANGED tables
  BY DEF UserEdits, Create, Update, Delete, graph, reconcilerVars, vars, tables
<1>5. \A d \in Controllers : \A k \in KeysOf(d) : Sync(d, k) => UNCHANGED tables
  BY DEF Sync, graph, vars, tables
<1> QED BY <1>1, <1>2, <1>3, <1>4, <1>5 DEF ReconcilersNext

-----------------------------------------------------------------------------
(* What the caches and the graph have yet to see *)

\* No object is younger than the last edit.
Dated ==
  /\ \A c \in Controllers : \A key \in KeysOf(c) :
       /\ api[c][key] # Nil => api[c][key].uid <= edits
       /\ cache[c][key] # Nil => cache[c][key].uid <= edits
  /\ \A c \in Controllers : worker[c].read # Nil => worker[c].read.old.uid <= edits
  /\ \A i \in Insts : Known(i) => instanceTable[i].id.uid <= edits

\* An object that the cache has not seen yet was not observed, and no status is
\* about to be written to it.
NewToCache ==
  \A c \in Controllers : \A key \in KeysOf(c) :
    cache[c][key] = Nil /\ api[c][key] # Nil =>
      /\ api[c][key].obs < api[c][key].gen
      /\ worker[c].key = key /\ worker[c].read # Nil => api[c][key].uid # worker[c].read.old.uid

\* If the object is there, or comes back, its reconcile will take it for changed.
Unsettled(c, key) ==
  /\ key \in KeysOf(c)
  /\ cache[c][key] = Nil \/ (key \in queue[c] /\ cache[c][key].obs < cache[c][key].gen)
  /\ api[c][key] # Nil => api[c][key].obs < api[c][key].gen
  /\ worker[c].key = key => worker[c].read = Nil

\* What is being deleted is so.
CascadesUnsettled ==
  \A c \in {"app", "user"} : job[c].op = "delete" => Unsettled(c, worker[c].key)

CacheInv == Dated /\ NoRequestLost /\ NewToCache /\ CascadesUnsettled

LEMMA NextDated == RecInv /\ Dated /\ [ReconcilersNext]_reconcilerVars => Dated'
<1> SUFFICES ASSUME RecInv, Dated, [ReconcilersNext]_reconcilerVars PROVE Dated'
  OBVIOUS
<1>e. edits \in Nat /\ edits' \in {edits, edits + 1}
  BY ApiSteps DEF RecInv, CountersOK
<1>n. ASSUME NEW c \in Controllers, NEW key \in KeysOf(c)
      PROVE  /\ api[c][key] # Nil => api[c][key].uid \in Nat /\ api[c][key].uid <= edits
             /\ cache[c][key] # Nil => cache[c][key].uid \in Nat /\ cache[c][key].uid <= edits
  BY DEF RecInv, ObjectsSound, Sound, Resource, Dated
<1>1. ASSUME NEW c \in Controllers, NEW key \in KeysOf(c), api'[c][key] # Nil
      PROVE  api'[c][key].uid <= edits'
  <2>1. CASE api'[c][key] = api[c][key] \/ HasStatus(c, key)
    BY <1>1, <1>e, <1>n, <2>1 DEF HasStatus
  <2>2. CASE IsEdited(c, key)
    BY <1>1, <1>e, <1>n, <2>2 DEF IsEdited
  <2> QED BY <2>1, <2>2, ApiSteps
<1>2. ASSUME NEW c \in Controllers, NEW key \in KeysOf(c), cache'[c][key] # Nil
      PROVE  cache'[c][key].uid <= edits'
  BY <1>2, <1>e, <1>n, InformerSteps
<1>3. ASSUME NEW c \in Controllers, worker'[c].read # Nil
      PROVE  worker'[c].read.old.uid <= edits'
  <2>1. CASE worker'[c].read = worker[c].read
    <3>1. worker[c].read.old \in Resource(c)
      BY <1>3, <2>1 DEF RecInv, WorkersOK, WorkerOK, ReadOK, Sound
    <3>2. worker[c].read.old.uid \in Nat /\ worker[c].read.old.uid <= edits
      BY <1>3, <2>1, <3>1 DEF Resource, Dated
    <3> QED BY <1>e, <2>1, <3>2
  <2>2. ASSUME NEW key \in KeysOf(c), Begins(c, key)
        PROVE  worker'[c].read.old.uid <= edits'
    BY <1>3, <1>e, <1>n, <2>2 DEF Begins
  <2>3. worker'[c] # Free
    BY <1>3 DEF Free
  <2> QED BY <2>1, <2>2, <2>3, WorkerSteps
<1>4. ASSUME NEW i \in Insts, Known(i)'
      PROVE  instanceTable'[i].id.uid <= edits'
  <2>k. "inst" \in Controllers /\ KeysOf("inst") = Insts
    BY Kinds
  <2>1. CASE instanceTable'[i] = instanceTable[i]
    <3>1. instanceTable[i] \in HelxInst
      BY <1>4, <2>1 DEF Known, RecInv, TypeOK
    <3>2. instanceTable[i].id.uid \in Nat /\ instanceTable[i].id.uid <= edits
      BY <1>4, <2>1, <3>1, IdsAssumption DEF HelxInst, Known, Dated
    <3> QED BY <1>e, <2>1, <3>2
  <2>2. CASE Reconcile("inst", i)
    <3>1. cache["inst"][i] # Nil /\ Stored("inst", i)' /\ cache' = cache
      BY <1>4, <2>2, <2>k, ReconcileStores DEF Reconcile
    <3>2. instanceTable'[i].id.uid = cache["inst"][i].uid
      BY <3>1 DEF Stored
    <3> QED BY <1>e, <1>n, <2>k, <3>1, <3>2
  <2>3. CASE RestartController
    BY <1>4, <2>3 DEF RestartController, Restart, Known
  <2> QED BY <2>1, <2>2, <2>3, <2>k, GraphSteps
<1> QED BY <1>1, <1>2, <1>3, <1>4 DEF Dated

\* A cache entry changes by a watch's event or a restart.
LEMMA CacheMoves ==
  ASSUME [ReconcilersNext]_reconcilerVars
  PROVE  \/ cache' = cache
         \/ RestartController
         \/ \E d \in Controllers : \E k \in KeysOf(d) : Sync(d, k)
BY DEF ReconcilersNext, reconcilerVars, UserEdits, Create, Update, Delete, Reconcile,
       Work, Generate, GenerateFails, DeleteWorkload, Applied, NotApplied, Finish

LEMMA NextNoRequestLost ==
  RecInv /\ NoRequestLost /\ [ReconcilersNext]_reconcilerVars => NoRequestLost'
<1> SUFFICES ASSUME RecInv, NoRequestLost, [ReconcilersNext]_reconcilerVars,
                    NEW c \in Controllers, NEW key \in KeysOf(c), key \notin queue'[c]
             PROVE  \/ cache'[c][key] # Nil /\ Stored(c, key)'
                    \/ cache'[c][key] = Nil /\ (c = "inst" => ~Known(key)')
  BY DEF NoRequestLost
<1>1. CASE RestartController
  <2>1. cache'[c][key] = Nil
    BY <1>1 DEF RestartController, AllKeys
  <2>2. c = "inst" => ~Known(key)'
    BY <1>1, Kinds DEF RestartController, Restart, Known
  <2> QED BY <2>1, <2>2
<1>2. CASE Reconcile(c, key)
  BY <1>2, ReconcileStores DEF Reconcile
<1>3. CASE cache'[c][key] = cache[c][key] /\ ~Reconcile(c, key) /\ ~RestartController
  <2>1. key \notin queue[c]
    BY <1>3, QueueSteps
  <2> QED BY <1>3, <2>1, GraphSteps DEF Stored, Known, NoRequestLost
<1>4. ASSUME NEW d \in Controllers, NEW k \in KeysOf(d), Sync(d, k),
             cache'[c][key] # cache[c][key]
      PROVE  FALSE
  <2>s. /\ cache = [e \in Controllers |-> cache[e]] /\ queue = [e \in Controllers |-> queue[e]]
        /\ \A e \in Controllers : cache[e] \in [KeysOf(e) -> Sound(e) \cup {Nil}]
    BY DEF RecInv, Shape, ObjectsSound
  <2>1. d = c /\ k = key
    BY <1>4, <2>s DEF Sync
  <2>2. key \in queue'[c]
    BY <1>4, <2>1, <2>s DEF Sync
  <2> QED BY <2>2
<1>5. cache'[c][key] # cache[c][key] =>
        RestartController \/ \E d \in Controllers : \E k \in KeysOf(d) : Sync(d, k)
  BY CacheMoves
<1> QED BY <1>1, <1>2, <1>3, <1>4, <1>5

LEMMA NextNewToCache ==
  RecInv /\ Dated /\ NewToCache /\ [ReconcilersNext]_reconcilerVars => NewToCache'
<1> SUFFICES ASSUME RecInv, Dated, NewToCache, [ReconcilersNext]_reconcilerVars,
                    NEW c \in Controllers, NEW key \in KeysOf(c),
                    cache'[c][key] = Nil, api'[c][key] # Nil
             PROVE  /\ api'[c][key].obs < api'[c][key].gen
                    /\ worker'[c].key = key /\ worker'[c].read # Nil =>
                         api'[c][key].uid # worker'[c].read.old.uid
  BY DEF NewToCache
<1>1. cache[c][key] = Nil
  BY InformerSteps
<1>2. ~HasStatus(c, key)
  BY <1>1 DEF HasStatus, NewToCache
<1>3. api'[c][key].obs < api'[c][key].gen
  BY <1>1, <1>2, ApiSteps DEF IsEdited, NewToCache
<1>4. ASSUME worker'[c].key = key, worker'[c].read # Nil
      PROVE  api'[c][key].uid # worker'[c].read.old.uid
  <2>1. worker[c].key = key /\ worker'[c].read = worker[c].read
    <3>1. worker'[c] # Free
      BY <1>4 DEF Free
    <3>2. \A k \in KeysOf(c) : ~Begins(c, k)
      BY <1>1, <1>4 DEF Begins
    <3> QED BY <1>4, <3>1, <3>2, WorkerSteps
  <2>e. edits \in Nat
    BY DEF RecInv, CountersOK
  <2>n. worker[c].read # Nil
    BY <1>4, <2>1
  <2>r. worker[c].read.old \in Resource(c) /\ edits \in Nat
    BY <2>e, <2>n DEF RecInv, WorkersOK, WorkerOK, ReadOK, Sound
  <2>2. worker[c].read.old.uid \in Nat /\ worker[c].read.old.uid <= edits /\ edits \in Nat
    BY <2>n, <2>r DEF Resource, Dated
  <2>3. CASE api'[c][key] = api[c][key]
    BY <1>1, <1>4, <2>1, <2>3 DEF NewToCache
  <2>4. CASE IsEdited(c, key) /\ api[c][key] = Nil
    BY <2>1, <2>2, <2>4 DEF IsEdited
  <2>5. CASE IsEdited(c, key) /\ api[c][key] # Nil
    BY <1>1, <1>4, <2>1, <2>5 DEF IsEdited, NewToCache
  <2> QED BY <1>2, <2>3, <2>4, <2>5, ApiSteps
<1> QED BY <1>3, <1>4

\* It stays so until its reconcile takes it for changed, or the process ends.
LEMMA UnsettledStays ==
  ASSUME RecInv, [ReconcilersNext]_reconcilerVars, NEW c \in Controllers, NEW key \in KeysOf(c),
         Unsettled(c, key), ~RestartController,
         ~(Reconcile(c, key) /\ ReconcileChanged(c, key) /\ cache[c][key] # Nil)
  PROVE  Unsettled(c, key)'
<1>1. cache[c][key] # Nil => ~Reconcile(c, key)
  <2> SUFFICES ASSUME cache[c][key] # Nil, Reconcile(c, key) PROVE FALSE
    OBVIOUS
  <2>1. cache[c][key] \in Sound(c) /\ cache[c][key].obs < cache[c][key].gen
    BY DEF Unsettled, RecInv, ObjectsSound
  <2>2. ~ReconcileResync(c, key) /\ ~ReconcileDeleted(c, key)
    BY <2>1, BoundsAssumption DEF ReconcileResync, ReconcileDeleted, Sound, Resource
  <2> QED BY <2>2 DEF Reconcile
<1>2. cache'[c][key] = Nil \/ (key \in queue'[c] /\ cache'[c][key].obs < cache'[c][key].gen)
  <2>1. CASE cache'[c][key] = cache[c][key]
    BY <1>1, <2>1, QueueSteps DEF Unsettled
  <2>2. CASE cache'[c][key] = api[c][key] /\ (api[c][key] # Nil => key \in queue'[c])
    BY <2>2 DEF Unsettled
  <2> QED BY <2>1, <2>2, InformerSteps
<1>3. api'[c][key] # Nil => api'[c][key].obs < api'[c][key].gen
  <2>1. ~HasStatus(c, key)
    BY DEF HasStatus, Unsettled
  <2> QED BY <2>1, ApiSteps DEF IsEdited, Unsettled
<1>4. worker'[c].key = key => worker'[c].read = Nil
  <2>1. \A k \in KeysOf(c) : Begins(c, k) /\ k = key => worker'[c].read = Nil
    BY <1>1 DEF Begins
  <2>2. \A k \in KeysOf(c) : Begins(c, k) => worker'[c].key = k
    BY DEF Begins
  <2> QED BY <2>1, <2>2, WorkerSteps DEF Unsettled, Free
<1> QED BY <1>2, <1>3, <1>4 DEF Unsettled

LEMMA NextCascadesUnsettled ==
  RecInv /\ NewToCache /\ CascadesUnsettled /\ [ReconcilersNext]_reconcilerVars
    => CascadesUnsettled'
<1> SUFFICES ASSUME RecInv, NewToCache, CascadesUnsettled, [ReconcilersNext]_reconcilerVars,
                    NEW c \in {"app", "user"}, job'[c].op = "delete"
             PROVE  Unsettled(c, worker[c].key)'
  BY DEF CascadesUnsettled
<1>c. c \in Controllers /\ job = [e \in Controllers |-> job[e]]
      /\ worker = [e \in Controllers |-> worker[e]]
      /\ \A d \in Controllers : worker[d] \in Workers
      /\ \A f \in Controllers : worker[f].key = Nil => job[f] = Idle
  BY DEF Controllers, RecInv, TypeOK, Shape, WorkersOK, WorkerOK
<1>1. ASSUME NEW key \in KeysOf(c), Reconcile(c, key)
      PROVE  Unsettled(c, worker[c].key)'
  <2>1. job[c] = Idle /\ UNCHANGED <<api, cache>>
    BY <1>1, <1>c DEF Reconcile
  <2>2. ReconcileDeleted(c, key)
    <3>1. ~ReconcileResync(c, key)
      BY <2>1 DEF ReconcileResync, ResyncApp, ResyncUser, Idle
    <3>2. ~ReconcileChanged(c, key)
      BY <1>c DEF ReconcileChanged, AddApp, AddUser, HandOut, Idle
    <3> QED BY <1>1, <3>1, <3>2 DEF Reconcile
  <2>3. cache[c][key] = Nil /\ worker' = [worker EXCEPT ![c] = Busy(key, Nil)]
    BY <2>2 DEF ReconcileDeleted, Idle
  <2>4. worker'[c].key = key /\ worker'[c].read = Nil
    BY <1>c, <2>3 DEF Busy
  <2>5. api[c][key] # Nil => api[c][key].obs < api[c][key].gen
    BY <1>c, <2>3 DEF NewToCache
  <2> QED BY <2>1, <2>3, <2>4, <2>5 DEF Unsettled
<1>2. ASSUME ~\E key \in KeysOf(c) : Reconcile(c, key)
      PROVE  Unsettled(c, worker[c].key)'
  <2>1. ~RestartController
    BY <1>c DEF RestartController, Restart, Idle
  <2>2. worker'[c] # Free
    <3>1. RecInv'
      BY NextRecInv
    <3>2. worker'[c].key = Nil => job'[c] = Idle
      BY <1>c, <3>1 DEF RecInv, WorkersOK, WorkerOK
    <3> QED BY <3>2 DEF Free, Idle
  <2>3. worker'[c].key = worker[c].key /\ worker'[c].read = worker[c].read
    BY <1>2, <1>c, <2>2, WorkerSteps DEF Begins
  <2>4. job[c].op = "delete"
    <3>1. ASSUME NEW d \in Controllers, Work(d)
          PROVE  job'[c].op \in {"idle", job[c].op}
      BY <1>c, <3>1 DEF Work, Generate, GenerateFails, GenerateArtifacts, DeleteWorkload, DeleteDerivatives, Done,
                        HandOut, Idle, Applied, NotApplied, Abandon, Finish, graph, vars
    <3>2. ASSUME NEW d \in Controllers, NEW k \in KeysOf(d), Reconcile(d, k)
          PROVE  job'[c] = job[c]
      BY <1>2, <1>c, <3>2, ReconcileFrame
    <3>3. CASE UNCHANGED job
      BY <3>3
    <3> QED BY <2>1, <3>1, <3>2, <3>3
            DEF ReconcilersNext, reconcilerVars, vars, graph, UserEdits, Create, Update, Delete, Sync
  <2>5. Unsettled(c, worker[c].key) /\ worker[c].key \in KeysOf(c)
    BY <2>4 DEF CascadesUnsettled, Unsettled
  <2>6. \A key \in KeysOf(c) : Unsettled(c, key) => Unsettled(c, key)'
    BY <1>2, <1>c, <2>1, UnsettledStays
  <2> QED BY <2>3, <2>5, <2>6 DEF Unsettled
<1> QED BY <1>1, <1>2

LEMMA NextCacheInv == RecInv /\ CacheInv /\ [ReconcilersNext]_reconcilerVars => CacheInv'
BY NextDated, NextNoRequestLost, NextNewToCache, NextCascadesUnsettled DEF CacheInv

\* What holds when a controller starts: the caches are what the API server has, all of
\* it is queued, and the graph is empty.
LEMMA StartCacheInv ==
  ASSUME RecInv, cache = api, queue = AllKeys,
         \A c \in Controllers : worker[c] = Free /\ job[c] = Idle,
         \A i \in Insts : ~Known(i),
         \A c \in Controllers : \A key \in KeysOf(c) : api[c][key] # Nil => api[c][key].uid <= edits
  PROVE  CacheInv
<1>1. Dated
  BY DEF Dated, Free
<1>2. NoRequestLost
  BY Kinds DEF NoRequestLost, AllKeys
<1>3. NewToCache
  BY DEF NewToCache
<1>4. CascadesUnsettled
  BY DEF CascadesUnsettled, Idle, Controllers
<1> QED BY <1>1, <1>2, <1>3, <1>4 DEF CacheInv

LEMMA InitCacheInv == ReconcilersInit => CacheInv
<1> SUFFICES ASSUME ReconcilersInit PROVE CacheInv
  OBVIOUS
<1>1. /\ RecInv /\ cache = api /\ queue = AllKeys /\ edits = 0
      /\ \A c \in Controllers : worker[c] = Free
  BY InitRecInv DEF ReconcilersInit
<1>2. (\A c \in Controllers : job[c] = Idle) /\ \A i \in Insts : ~Known(i)
  BY DEF ReconcilersInit, Init, Known
<1>3. \A c \in Controllers : api[c] \in Initial(c)
  BY DEF ReconcilersInit, Controllers
<1>4. ASSUME NEW c \in Controllers, NEW key \in KeysOf(c), api[c][key] # Nil
      PROVE  api[c][key].uid <= edits
  <2>1. c \in Present
    BY <1>3, <1>4 DEF Initial
  <2>3. PICK x \in ContentsOf(c) :
          api[c] = [k \in KeysOf(c) |->
                      [uid |-> 0, gen |-> 1, obs |-> 0, content |-> x, uuid |-> Nil]]
    BY <1>3, <2>1 DEF Initial
  <2>2. api[c][key].uid = 0
    BY <2>3
  <2> QED BY <1>1, <2>2
<1> QED BY <1>1, <1>2, <1>4, StartCacheInv

LEMMA CacheInductive == ReconcilersSpec => []CacheInv
<1>1. RecInv /\ CacheInv /\ [ReconcilersNext]_reconcilerVars => CacheInv'
  BY NextCacheInv
<1> QED BY <1>1, InitCacheInv, RecInductive, PTL DEF ReconcilersSpec

\* What the caches show is in the graph, or its request is queued (the event handlers
\* and Reconcile of the three controllers): nothing that users did is forgotten, whatever
\* came in between.
THEOREM RequestsServed == ReconcilersSpec => []NoRequestLost
BY CacheInductive, PTL DEF CacheInv
=============================================================================
