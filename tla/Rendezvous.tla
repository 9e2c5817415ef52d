------------------------------ MODULE Rendezvous ------------------------------
(***************************************************************************)
(* What the object graph promises, without tables of associations, workers   *)
(* or copies: apps, users and instances that name one of each are seen in     *)
(* any order, and an instance whose app, user or own spec has changed is owed *)
(* a generation from what is known now, until it is settled or, after an      *)
(* error or by a resync, passed over.  Module ObjectGraph implements it.      *)
(***************************************************************************)
CONSTANTS
  Apps, Users, Insts, \* names
  Specs,     \* what an instance may be: a record with fields app and user, among others
  Revisions, \* the contents an app or a user may have
  Nil

VARIABLES
  app, user, \* key -> the content last seen, or Nil
  inst,      \* instance -> its spec last seen, or Nil
  owed,      \* instances that some worker is to generate
  done,      \* instance -> the app and user it was last generated from, or Nil
  passed     \* instances passed over

vars == <<app, user, inst, owed, done, passed>>

Known == {i \in Insts : inst[i] # Nil}
NamingApp(k) == {i \in Known : inst[i].app = k}
NamingUser(k) == {i \in Known : inst[i].user = k}
Complete(i) == /\ i \in Known
               /\ inst[i].app \in Apps /\ app[inst[i].app] # Nil
               /\ inst[i].user \in Users /\ user[inst[i].user] # Nil
Sources(i) == [app |-> app[inst[i].app], user |-> user[inst[i].user]]

-----------------------------------------------------------------------------
\* All that name the app or user are owed a generation -- so may others be, that once
\* did -- or, where a resync finds it changed, are passed over.
Owe(due) ==
  \E S \in SUBSET Known :
    /\ due \subseteq S
    /\ \/ owed' = owed \cup S /\ passed' = passed \ S
       \/ owed' = owed /\ passed' = passed \cup S

SeeApp(k, obj) ==
  /\ app' = [app EXCEPT ![k] = obj]
  /\ UNCHANGED <<user, done, inst>>
  /\ Owe(NamingApp(k))

SeeUser(k, obj) ==
  /\ user' = [user EXCEPT ![k] = obj]
  /\ UNCHANGED <<app, done, inst>>
  /\ Owe(NamingUser(k))

\* Where a resync finds the instance changed, a worker may hold a copy that the
\* instance has become equal to again.
SeeInst(i) ==
  /\ UNCHANGED <<app, user>>
  /\ done' = [done EXCEPT ![i] = Nil]
  /\ \/ owed' = owed \cup {i} /\ passed' = passed \ {i}
     \/ owed' \in {owed \ {i}, owed \cup {i}} /\ passed' = passed \cup {i}
  /\ \E spec \in Specs : inst' = [inst EXCEPT ![i] = spec]

Forget(i) ==
  /\ UNCHANGED <<app, user>>
  /\ done' = [done EXCEPT ![i] = Nil]
  /\ owed' = owed \ {i}
  /\ passed' = passed \ {i}
  /\ inst' = [inst EXCEPT ![i] = Nil]

-----------------------------------------------------------------------------
\* From what is known now.  The instance may be owed another generation.
Settle(i) ==
  /\ i \in owed
  /\ UNCHANGED <<app, user, inst, passed>>
  /\ owed' \in {owed, owed \ {i}}
  /\ done' = IF Complete(i) THEN [done EXCEPT ![i] = Sources(i)] ELSE done

\* Whoever is no longer owed a generation, without one, is passed over.
GiveUp ==
  /\ UNCHANGED <<app, user, inst, done>>
  /\ owed' \in SUBSET owed
  /\ passed' \in SUBSET (passed \cup owed)
  /\ passed \subseteq passed'
  /\ owed \subseteq owed' \cup passed'

Init ==
  /\ app = [k \in Apps |-> Nil]
  /\ user = [k \in Users |-> Nil]
  /\ inst = [i \in Insts |-> Nil]
  /\ owed = {}
  /\ done = [i \in Insts |-> Nil]
  /\ passed = {}

Restart ==
  /\ app' = [k \in Apps |-> Nil]
  /\ user' = [k \in Users |-> Nil]
  /\ inst' = [i \in Insts |-> Nil]
  /\ owed' = {}
  /\ done' = [i \in Insts |-> Nil]
  /\ passed' = {}

Next ==
  \/ GiveUp
  \/ \E i \in Insts : Settle(i)
  \/ \E k \in Apps, obj \in Revisions : SeeApp(k, obj)
  \/ \E k \in Users, obj \in Revisions : SeeUser(k, obj)
  \/ \E i \in Insts : SeeInst(i) \/ Forget(i)
  \/ Restart

Spec == Init /\ [][Next]_vars

-----------------------------------------------------------------------------
\* A complete triple was generated from what is known now, or is owed it, or was
\* passed over.
Promise ==
  \A i \in Insts : Complete(i) => done[i] = Sources(i) \/ i \in owed \/ i \in passed
=============================================================================
