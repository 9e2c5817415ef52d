--------------------------- MODULE RendezvousProofs ---------------------------
(***************************************************************************)
(* Proofs about Rendezvous: what the abstract object graph promises follows   *)
(* from its steps alone, before any table or worker implements it.            *)
(***************************************************************************)
EXTENDS Rendezvous, TLAPS

RendezvousTypeOK ==
  /\ app \in [Apps -> Revisions \cup {Nil}]
  /\ user \in [Users -> Revisions \cup {Nil}]
  /\ inst \in [Insts -> Specs \cup {Nil}]
  /\ owed \in SUBSET Insts
  /\ done \in [Insts -> [app : Revisions \cup {Nil}, user : Revisions \cup {Nil}] \cup {Nil}]
  /\ passed \in SUBSET Insts

LEMMA OweType ==
  ASSUME RendezvousTypeOK, NEW due, Owe(due)
  PROVE  owed' \in SUBSET Insts /\ passed' \in SUBSET Insts
BY DEF RendezvousTypeOK, Owe, Known

LEMMA NextType == RendezvousTypeOK /\ [Next]_vars => RendezvousTypeOK'
<1> SUFFICES ASSUME RendezvousTypeOK, [Next]_vars PROVE RendezvousTypeOK'
  OBVIOUS
<1> USE DEF RendezvousTypeOK
<1>1. CASE UNCHANGED vars
  BY <1>1 DEF vars
<1>2. CASE GiveUp
  BY <1>2 DEF GiveUp
<1>3. ASSUME NEW i \in Insts, Settle(i) PROVE RendezvousTypeOK'
  <2>1. Complete(i) => Sources(i) \in [app : Revisions \cup {Nil}, user : Revisions \cup {Nil}]
    BY DEF Complete, Sources
  <2> QED BY <1>3, <2>1 DEF Settle
<1>4. ASSUME NEW k \in Apps, NEW obj \in Revisions, SeeApp(k, obj) PROVE RendezvousTypeOK'
  BY <1>4, OweType DEF SeeApp
<1>5. ASSUME NEW k \in Users, NEW obj \in Revisions, SeeUser(k, obj) PROVE RendezvousTypeOK'
  BY <1>5, OweType DEF SeeUser
<1>6. ASSUME NEW i \in Insts, SeeInst(i) PROVE RendezvousTypeOK'
  BY <1>6 DEF SeeInst
<1>7. ASSUME NEW i \in Insts, Forget(i) PROVE RendezvousTypeOK'
  BY <1>7 DEF Forget
<1>8. CASE Restart
  BY <1>8 DEF Restart
<1> QED BY <1>1, <1>2, <1>3, <1>4, <1>5, <1>6, <1>7, <1>8 DEF Next

\* Whoever names the app or user that changed is owed or passed over, and nobody
\* else loses what it was owed.
LEMMA OweKeeps ==
  ASSUME NEW due, Owe(due), NEW i
  PROVE  /\ i \in due => i \in owed' \/ i \in passed'
         /\ i \in owed \/ i \in passed => i \in owed' \/ i \in passed'
BY DEF Owe

LEMMA NextPromise == RendezvousTypeOK /\ Promise /\ [Next]_vars => Promise'
<1> SUFFICES ASSUME RendezvousTypeOK, Promise, [Next]_vars, NEW i \in Insts, Complete(i)'
             PROVE  (done[i] = Sources(i) \/ i \in owed \/ i \in passed)'
  BY DEF Promise
<1>0. Complete(i) => done[i] = Sources(i) \/ i \in owed \/ i \in passed
  BY DEF Promise
<1> USE DEF Complete, Sources, Known, RendezvousTypeOK
<1>1. CASE UNCHANGED vars
  BY <1>0, <1>1 DEF vars
<1>2. CASE GiveUp
  BY <1>0, <1>2 DEF GiveUp
<1>3. ASSUME NEW j \in Insts, Settle(j)
      PROVE  (done[i] = Sources(i) \/ i \in owed \/ i \in passed)'
  BY <1>0, <1>3 DEF Settle
<1>4. ASSUME NEW k \in Apps, NEW obj \in Revisions, SeeApp(k, obj)
      PROVE  (done[i] = Sources(i) \/ i \in owed \/ i \in passed)'
  <2>1. CASE inst[i].app = k
    BY <1>4, <2>1, OweKeeps DEF SeeApp, NamingApp
  <2>2. CASE inst[i].app # k
    BY <1>0, <1>4, <2>2, OweKeeps DEF SeeApp
  <2> QED BY <2>1, <2>2
<1>5. ASSUME NEW k \in Users, NEW obj \in Revisions, SeeUser(k, obj)
      PROVE  (done[i] = Sources(i) \/ i \in owed \/ i \in passed)'
  <2>1. CASE inst[i].user = k
    BY <1>5, <2>1, OweKeeps DEF SeeUser, NamingUser
  <2>2. CASE inst[i].user # k
    BY <1>0, <1>5, <2>2, OweKeeps DEF SeeUser
  <2> QED BY <2>1, <2>2
<1>6. ASSUME NEW j \in Insts, SeeInst(j)
      PROVE  (done[i] = Sources(i) \/ i \in owed \/ i \in passed)'
  BY <1>0, <1>6 DEF SeeInst
<1>7. ASSUME NEW j \in Insts, Forget(j)
      PROVE  (done[i] = Sources(i) \/ i \in owed \/ i \in passed)'
  BY <1>0, <1>7 DEF Forget
<1>8. CASE Restart
  BY <1>8 DEF Restart
<1> QED BY <1>1, <1>2, <1>3, <1>4, <1>5, <1>6, <1>7, <1>8 DEF Next

\* A complete triple is up to date with the app and the user last seen, is owed a
\* generation, or was passed over: no order of sightings, settlements, errors and
\* restarts leaves one behind unnoticed.
THEOREM PromiseKept == Spec => []Promise
<1>1. Init => RendezvousTypeOK /\ Promise
  BY DEF Init, RendezvousTypeOK, Promise, Complete, Known
<1>2. RendezvousTypeOK /\ Promise /\ [Next]_vars => (RendezvousTypeOK /\ Promise)'
  BY NextType, NextPromise
<1> QED BY <1>1, <1>2, PTL DEF Spec
=============================================================================
