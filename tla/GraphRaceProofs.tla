---------------------------- MODULE GraphRaceProofs ----------------------------
(***************************************************************************)
(* Proofs about GraphRace, for every number of instances and of versions:     *)
(* what the three workers lose by interleaving their statements is an entry   *)
(* that was overrun, and nothing else.                                        *)
(***************************************************************************)
EXTENDS GraphRace, TLAPS

(* Types *)

Versions == 1..MaxVersions
Generations == [app : Versions, user : Versions]

Locals == [it : Versions \cup Insts \cup {Nil}, found : Entry \cup {Nil},
           names : SUBSET Insts, insts : SUBSET Insts, inst : Insts \cup {Nil},
           app : Versions \cup {Nil}]

\* Where a worker may be: all handle copies, the rest depends on the operation.
HandlingLabels == {"idle", "next", "getapp", "getuser"}
KindLabels == HandlingLabels \cup {"look", "store", "range", "ranging", "find"}
InstLabels == HandlingLabels \cup {"put", "lookapp", "connectapp", "lookuser", "connectuser"}
LabelsOf(w) == IF w = "inst" THEN InstLabels ELSE KindLabels

Shared ==
  /\ version \in [Kinds -> Versions]
  /\ queue \in [Workers -> SUBSET (Versions \cup Insts)]
  /\ \A k \in Kinds : queue[k] \subseteq Versions
  /\ queue["inst"] \subseteq Insts /\ stored \subseteq Insts
  /\ table \in [Kinds -> Entry \cup {Nil}]
  /\ \A k \in Kinds : table[k] # Nil => table[k].set \in 1..Len(sets)
  /\ sets \in Seq(SUBSET Insts)
  /\ generated \in [Insts -> SUBSET Generations]
  /\ overrun \subseteq Kinds /\ dead \in BOOLEAN

\* What a worker has in its local variables where it is, when so many sets are allocated.
Place(w, at, v, allocated) ==
  /\ v \in Locals
  /\ at \in LabelsOf(w)
  /\ at \in {"look", "store"} => v.it \in Versions
  /\ at \in {"range", "ranging"} => v.found # Nil
  /\ w = "inst" /\ at \notin HandlingLabels => v.it \in Insts
  /\ at \in {"getapp", "getuser"} => v.inst \in Insts
  /\ v.found # Nil => v.found.set \in 1..allocated

TypeInv ==
  /\ Shared
  /\ pc = [w \in Workers |-> pc[w]] /\ local = [w \in Workers |-> local[w]]
  /\ \A w \in Workers : Place(w, pc[w], local[w], Len(sets))

LEMMA WorkerKinds ==
  /\ Kinds = {"app", "user"} /\ Workers = {"app", "user", "inst"}
  /\ LookAt["app"] = "lookapp" /\ LookAt["user"] = "lookuser"
  /\ ConnectAt["app"] = "connectapp" /\ ConnectAt["user"] = "connectuser"
BY DEF Kinds, Workers, LookAt, ConnectAt

LEMMA NilApart == Nil \notin Versions /\ Nil \notin Insts /\ Nil \notin Entry
BY NilApartAssumption, VersionsAssumption DEF Versions

LEMMA NoLocalsType ==
  /\ NoLocals \in Locals
  /\ NoLocals.it = Nil /\ NoLocals.found = Nil /\ NoLocals.names = {} /\ NoLocals.insts = {}
BY DEF NoLocals, Locals

\* A set is added, or one that there is grows.
LEMMA SetAdded ==
  ASSUME NEW s \in Seq(SUBSET Insts), NEW S \in SUBSET Insts
  PROVE  /\ Append(s, S) \in Seq(SUBSET Insts)
         /\ Len(Append(s, S)) = Len(s) + 1 /\ Len(s) \in Nat
         /\ Append(s, S)[Len(s) + 1] = S
         /\ \A n \in 1..Len(s) : Append(s, S)[n] = s[n]
OBVIOUS

LEMMA SetGrown ==
  ASSUME NEW s \in Seq(SUBSET Insts), NEW n \in 1..Len(s), NEW i \in Insts
  PROVE  LET t == [s EXCEPT ![n] = @ \cup {i}]
         IN  /\ t \in Seq(SUBSET Insts) /\ Len(t) = Len(s) /\ Len(s) \in Nat
             /\ t[n] = s[n] \cup {i}
             /\ \A m \in 1..Len(s) : s[m] \subseteq t[m]
             /\ \A m \in 1..Len(s) : \A j \in Insts : j # i => (j \in t[m] <=> j \in s[m])
<1> DEFINE t == [s EXCEPT ![n] = @ \cup {i}]
<1>1. t \in Seq(SUBSET Insts) /\ Len(t) = Len(s) /\ Len(s) \in Nat
  OBVIOUS
<1>2. \A m \in 1..Len(s) : t[m] = IF m = n THEN s[n] \cup {i} ELSE s[m]
  OBVIOUS
<1> QED BY <1>1, <1>2

LEMMA InitTyped == Init => TypeInv
<1> SUFFICES ASSUME Init PROVE TypeInv
  OBVIOUS
<1>1. 1 \in Versions
  BY VersionsAssumption DEF Versions
<1>2. Shared
  <2>1. version \in [Kinds -> Versions] /\ table \in [Kinds -> Entry \cup {Nil}]
    BY <1>1 DEF Init
  <2>2. /\ queue \in [Workers -> SUBSET (Versions \cup Insts)]
        /\ \A k \in Kinds : queue[k] \subseteq Versions
        /\ queue["inst"] \subseteq Insts
    BY <1>1, WorkerKinds DEF Init
  <2>3. sets \in Seq(SUBSET Insts) /\ \A k \in Kinds : table[k] = Nil
    BY DEF Init
  <2> QED BY <2>1, <2>2, <2>3 DEF Init, Shared
<1>3. ASSUME NEW w \in Workers PROVE Place(w, pc[w], local[w], Len(sets))
  BY <1>3, NoLocalsType DEF Init, Place, LabelsOf, HandlingLabels, KindLabels, InstLabels
<1> QED BY <1>2, <1>3 DEF Init, TypeInv

-----------------------------------------------------------------------------
(* The steps of a worker: what each does, and that it keeps the types *)

\* Only worker w moves: it is at another label, with local variables v.
Moves(w, to, v) ==
  /\ pc'[w] = to /\ local'[w] = v
  /\ \A x \in Workers \ {w} : pc'[x] = pc[x] /\ local'[x] = local[x]

LEMMA GoesOn ==
  ASSUME TypeInv, NEW w \in Workers, NEW to, NEW v,
         Goto(w, to), local' = [local EXCEPT ![w] = v],
         Len(sets') >= Len(sets), Shared', Place(w, to, v, Len(sets'))
  PROVE  TypeInv' /\ Moves(w, to, v)
<1>1. /\ pc' = [x \in Workers |-> pc'[x]] /\ local' = [x \in Workers |-> local'[x]]
      /\ Moves(w, to, v)
  BY DEF TypeInv, Goto, Moves
<1>2. ASSUME NEW x \in Workers \ {w} PROVE Place(x, pc'[x], local'[x], Len(sets'))
  <2>1. Len(sets) \in Nat /\ Len(sets') \in Nat /\ 1..Len(sets) \subseteq 1..Len(sets')
    BY DEF TypeInv, Shared
  <2>2. Place(x, pc[x], local[x], Len(sets))
    BY <1>2 DEF TypeInv
  <2>3. pc'[x] = pc[x] /\ local'[x] = local[x]
    BY <1>1, <1>2 DEF Moves
  <2> QED BY <2>1, <2>2, <2>3 DEF Place
<1>3. Place(w, pc'[w], local'[w], Len(sets'))
  BY <1>1 DEF Moves, Place
<1> QED BY <1>1, <1>2, <1>3 DEF TypeInv

\* The frame: what a step of a worker leaves alone of the rest.
Rest == <<version, queue, table, sets, stored, generated, overrun, dead>>

LEMMA RestTyped == TypeInv /\ UNCHANGED Rest => Shared' /\ Len(sets') >= Len(sets)
<1> SUFFICES ASSUME TypeInv, UNCHANGED Rest PROVE Shared' /\ Len(sets') >= Len(sets)
  OBVIOUS
<1>1. sets' = sets /\ Len(sets) \in Nat
  BY DEF Rest, TypeInv, Shared
<1>2. Shared'
  BY DEF Rest, TypeInv, Shared
<1> QED BY <1>1, <1>2

LEMMA UpdateStep ==
  ASSUME TypeInv, NEW k \in Kinds, Update(k)
  PROVE  TypeInv' /\ version'[k] # version[k] /\ queue'[k] = {version'[k]}
<1>1. version[k] + 1 \in Versions /\ version[k] + 1 # version[k] /\ k \in Workers
  BY VersionsAssumption, WorkerKinds DEF Update, TypeInv, Shared, Versions
<1>2. Shared' /\ version'[k] = version[k] + 1 /\ queue'[k] = {version[k] + 1}
  BY <1>1, WorkerKinds DEF Update, TypeInv, Shared
<1> QED BY <1>1, <1>2 DEF Update, TypeInv, Place

LEMMA ReconcileStep ==
  ASSUME TypeInv, NEW w \in Workers, Reconcile(w)
  PROVE  /\ TypeInv' /\ pc[w] = "idle"
         /\ pc'[w] = IF w = "inst" THEN "put" ELSE "look"
         /\ local'[w].it \in queue[w] /\ local'[w].found = Nil
         /\ queue' = [queue EXCEPT ![w] = @ \ {local'[w].it}]
         /\ \E v : Moves(w, pc'[w], v)
<1>1. PICK it \in queue[w] : /\ queue' = [queue EXCEPT ![w] = @ \ {it}]
                             /\ local' = [local EXCEPT ![w] = [NoLocals EXCEPT !.it = it]]
  BY DEF Reconcile
<1> DEFINE v == [NoLocals EXCEPT !.it = it]
           to == IF w = "inst" THEN "put" ELSE "look"
<1>2. (w \in Kinds => it \in Versions) /\ (w = "inst" => it \in Insts)
  BY <1>1 DEF TypeInv, Shared
<1>3. v \in Locals /\ v.it = it /\ v.found = Nil
  BY <1>2, WorkerKinds DEF NoLocals, Locals
<1> HIDE DEF v
<1>4. Place(w, to, v, Len(sets'))
  BY <1>2, <1>3, WorkerKinds DEF Place, LabelsOf, KindLabels, InstLabels, HandlingLabels
<1>5. Shared' /\ Len(sets') >= Len(sets)
  <2>1. Len(sets) \in Nat /\ sets' = sets
    BY DEF TypeInv, Shared, Reconcile
  <2>2. queue' \in [Workers -> SUBSET (Versions \cup Insts)] /\ \A x \in Workers : queue'[x] \subseteq queue[x]
    BY <1>1 DEF TypeInv, Shared
  <2> QED BY <2>1, <2>2, WorkerKinds DEF Reconcile, TypeInv, Shared
<1>6. Goto(w, to) /\ local' = [local EXCEPT ![w] = v] /\ pc[w] = "idle"
  BY <1>1 DEF Reconcile, v, At
<1>7. TypeInv' /\ Moves(w, to, v)
  BY <1>4, <1>5, <1>6, GoesOn
<1> QED BY <1>1, <1>3, <1>6, <1>7 DEF Moves

LEMMA LookStep ==
  ASSUME TypeInv, NEW k \in Kinds, Look(k)
  PROVE  /\ TypeInv' /\ pc[k] = "look" /\ Moves(k, "store", local'[k])
         /\ local'[k].found = table[k] /\ local'[k].it = local[k].it
<1> DEFINE v == [local[k] EXCEPT !.found = table[k]]
<1>1. k \in Workers /\ pc[k] = "look" /\ Place(k, pc[k], local[k], Len(sets))
  BY WorkerKinds DEF Look, At, TypeInv
<1>2. v \in Locals /\ v.found = table[k] /\ v.it = local[k].it
  BY <1>1 DEF Place, Locals, TypeInv, Shared
<1>3. Shared' /\ Len(sets') >= Len(sets)
  BY RestTyped DEF Look, Rest
<1>4. local' = [local EXCEPT ![k] = v] /\ Goto(k, "store")
  BY DEF Look
<1> HIDE DEF v
<1>5. Place(k, "store", v, Len(sets'))
  BY <1>1, <1>2, WorkerKinds DEF Place, LabelsOf, KindLabels, TypeInv, Shared, Look
<1>6. TypeInv' /\ Moves(k, "store", v)
  BY <1>1, <1>3, <1>4, <1>5, GoesOn
<1> QED BY <1>1, <1>2, <1>6 DEF Moves

LEMMA StoreStep ==
  ASSUME TypeInv, NEW k \in Kinds, Store(k)
  PROVE  /\ TypeInv' /\ pc[k] = "store" /\ local[k].it \in Versions
         /\ UNCHANGED <<version, queue, stored, generated, dead>>
         /\ \A m \in Kinds \ {k} : table'[m] = table[m]
         /\ table'[k] # Nil /\ table'[k].obj = local[k].it
         /\ \/ /\ local[k].found = Nil
               /\ Moves(k, "idle", NoLocals)
               /\ \A n \in 1..Len(sets) : sets'[n] = sets[n]
               /\ overrun' = IF table[k] # Nil THEN overrun \cup {k} ELSE overrun
            \/ /\ local[k].found # Nil
               /\ Moves(k, "range", local[k])
               /\ table'[k].set = local[k].found.set
               /\ UNCHANGED <<sets, overrun>>
<1> USE WorkerKinds
<1>1. /\ k \in Workers /\ pc[k] = "store" /\ Place(k, pc[k], local[k], Len(sets))
      /\ UNCHANGED <<version, queue, stored, generated, dead>>
  BY DEF Store, At, TypeInv
<1>2. local[k].it \in Versions /\ local[k].it # Nil /\ local[k] \in Locals
  BY <1>1, NilApart DEF Place
<1>3. Len(sets) \in Nat /\ sets \in Seq(SUBSET Insts) /\ table \in [Kinds -> Entry \cup {Nil}]
  BY DEF TypeInv, Shared
<1>4. CASE local[k].found = Nil
  <2> DEFINE e == [obj |-> local[k].it, set |-> Len(sets) + 1]
  <2>1. /\ sets' = Append(sets, {}) /\ table' = [table EXCEPT ![k] = e]
        /\ overrun' = IF table[k] # Nil THEN overrun \cup {k} ELSE overrun
        /\ local' = [local EXCEPT ![k] = NoLocals] /\ Goto(k, "idle")
    BY <1>4 DEF Store
  <2>2. e \in Entry /\ e.obj = local[k].it /\ e.set = Len(sets) + 1
    BY <1>2, <1>3 DEF Entry, Versions
  <2> HIDE DEF e
  <2>3. sets' \in Seq(SUBSET Insts) /\ Len(sets') = Len(sets) + 1 /\ \A n \in 1..Len(sets) : sets'[n] = sets[n]
    BY <1>3, <2>1, SetAdded
  <2>4. /\ \A m \in Kinds \ {k} : table'[m] = table[m]
        /\ table'[k] = e /\ table' \in [Kinds -> Entry \cup {Nil}]
    BY <1>3, <2>1, <2>2
  <2>5. \A m \in Kinds : table'[m] # Nil => table'[m].set \in 1..Len(sets')
    BY <1>3, <2>2, <2>3, <2>4 DEF TypeInv, Shared
  <2>6. Shared'
    BY <1>1, <2>1, <2>3, <2>4, <2>5 DEF TypeInv, Shared
  <2>7. Place(k, "idle", NoLocals, Len(sets'))
    BY NoLocalsType DEF Place, LabelsOf, KindLabels, HandlingLabels
  <2>8. Len(sets') >= Len(sets)
    BY <1>3, <2>3
  <2>9. TypeInv' /\ Moves(k, "idle", NoLocals)
    BY <1>1, <2>1, <2>6, <2>7, <2>8, GoesOn
  <2> QED BY <1>1, <1>2, <1>4, <2>1, <2>2, <2>3, <2>4, <2>9, NilApart
<1>5. CASE local[k].found # Nil
  <2> DEFINE e == [local[k].found EXCEPT !.obj = local[k].it]
  <2>0. local[k].found \in Entry /\ local[k].found.set \in 1..Len(sets)
    BY <1>1, <1>5 DEF Place, Locals
  <2>1. /\ table' = [table EXCEPT ![k] = e] /\ Goto(k, "range") /\ UNCHANGED <<sets, overrun, local>>
    BY <1>5 DEF Store
  <2>2. e \in Entry /\ e.obj = local[k].it /\ e.set = local[k].found.set
    BY <1>2, <2>0 DEF Entry, Versions
  <2> HIDE DEF e
  <2>4. /\ \A m \in Kinds \ {k} : table'[m] = table[m]
        /\ table'[k] = e /\ table' \in [Kinds -> Entry \cup {Nil}]
    BY <1>3, <2>1, <2>2
  <2>5. \A m \in Kinds : table'[m] # Nil => table'[m].set \in 1..Len(sets')
    BY <2>0, <2>1, <2>2, <2>4 DEF TypeInv, Shared
  <2>6. Shared'
    BY <1>1, <2>1, <2>4, <2>5 DEF TypeInv, Shared
  <2>7. Place(k, "range", local[k], Len(sets'))
    BY <1>1, <1>5, <2>1 DEF Place, LabelsOf, KindLabels
  <2>8. local' = [local EXCEPT ![k] = local[k]]
    BY <2>1 DEF TypeInv
  <2>9. Len(sets') >= Len(sets)
    BY <1>3, <2>1
  <2>10. TypeInv' /\ Moves(k, "range", local[k])
    BY <1>1, <2>1, <2>6, <2>7, <2>8, <2>9, GoesOn
  <2> QED BY <1>1, <1>2, <1>5, <2>1, <2>2, <2>4, <2>10, NilApart
<1> QED BY <1>4, <1>5

LEMMA RangeBeginStep ==
  ASSUME TypeInv, NEW k \in Kinds, RangeBegin(k)
  PROVE  /\ TypeInv' /\ pc[k] = "range" /\ Moves(k, "ranging", local'[k])
         /\ local[k].found # Nil /\ local'[k].found = local[k].found
         /\ local'[k].names = sets[local[k].found.set]
<1> DEFINE v == [local[k] EXCEPT !.names = sets[local[k].found.set]]
<1>1. k \in Workers /\ pc[k] = "range" /\ Place(k, pc[k], local[k], Len(sets))
  BY WorkerKinds DEF RangeBegin, At, TypeInv
<1>2. local[k].found # Nil /\ local[k].found.set \in 1..Len(sets)
  BY <1>1 DEF Place
<1>3. sets[local[k].found.set] \subseteq Insts
  BY <1>2 DEF TypeInv, Shared
<1>4. v \in Locals /\ v.found = local[k].found /\ v.names = sets[local[k].found.set]
  BY <1>1, <1>3 DEF Place, Locals
<1>5. Shared' /\ Len(sets') >= Len(sets)
  BY RestTyped DEF RangeBegin, Rest
<1>6. local' = [local EXCEPT ![k] = v] /\ Goto(k, "ranging")
  BY DEF RangeBegin
<1> HIDE DEF v
<1>7. Place(k, "ranging", v, Len(sets'))
  BY <1>1, <1>2, <1>4, WorkerKinds DEF Place, LabelsOf, KindLabels, RangeBegin
<1>8. TypeInv' /\ Moves(k, "ranging", v)
  BY <1>1, <1>5, <1>6, <1>7, GoesOn
<1> QED BY <1>1, <1>2, <1>4, <1>8 DEF Moves

LEMMA RangeEndStep ==
  ASSUME TypeInv, NEW k \in Kinds, RangeEnd(k)
  PROVE  /\ TypeInv' /\ pc[k] = "ranging" /\ Moves(k, "find", local'[k])
         /\ local[k].names \subseteq local'[k].names
<1>1. k \in Workers /\ pc[k] = "ranging" /\ Place(k, pc[k], local[k], Len(sets))
  BY WorkerKinds DEF RangeEnd, At, TypeInv
<1>2. PICK more \in SUBSET sets[local[k].found.set] :
             local' = [local EXCEPT ![k].names = @ \cup more]
  BY DEF RangeEnd
<1> DEFINE v == [local[k] EXCEPT !.names = @ \cup more]
<1>3. more \subseteq Insts
  BY <1>1, <1>2 DEF TypeInv, Shared, Place
<1>4. v \in Locals /\ local[k].names \subseteq v.names /\ v.found = local[k].found
  BY <1>1, <1>3 DEF Place, Locals
<1>5. Shared' /\ Len(sets') >= Len(sets)
  BY RestTyped DEF RangeEnd, Rest
<1>6. local' = [local EXCEPT ![k] = v] /\ Goto(k, "find")
  BY <1>2 DEF RangeEnd
<1> HIDE DEF v
<1>7. Place(k, "find", v, Len(sets'))
  BY <1>1, <1>4, WorkerKinds DEF Place, LabelsOf, KindLabels, RangeEnd
<1>8. TypeInv' /\ Moves(k, "find", v)
  BY <1>1, <1>5, <1>6, <1>7, GoesOn
<1> QED BY <1>1, <1>4, <1>8 DEF Moves

LEMMA FindStep ==
  ASSUME TypeInv, NEW k \in Kinds, Find(k)
  PROVE  /\ TypeInv' /\ pc[k] = "find"
         /\ \/ local[k].names = {} /\ Moves(k, "next", local[k])
            \/ /\ Moves(k, "find", local'[k])
               /\ \E i \in local[k].names :
                    /\ local'[k].names = local[k].names \ {i}
                    /\ local'[k].insts = local[k].insts \cup (IF i \in stored THEN {i} ELSE {})
<1>1. k \in Workers /\ pc[k] = "find" /\ Place(k, pc[k], local[k], Len(sets))
  BY WorkerKinds DEF Find, At, TypeInv
<1>2. Shared' /\ Len(sets') >= Len(sets) /\ sets' = sets
  BY RestTyped DEF Find, Rest
<1>3. CASE local[k].names = {}
  <2>1. Goto(k, "next") /\ local' = [local EXCEPT ![k] = local[k]]
    BY <1>3 DEF Find, TypeInv
  <2>2. Place(k, "next", local[k], Len(sets'))
    BY <1>1, <1>2, WorkerKinds DEF Place, LabelsOf, KindLabels, HandlingLabels
  <2>3. TypeInv' /\ Moves(k, "next", local[k])
    BY <1>1, <1>2, <2>1, <2>2, GoesOn
  <2> QED BY <1>1, <1>3, <2>3
<1>4. CASE local[k].names # {}
  <2>1. PICK i \in local[k].names :
               local' = [local EXCEPT ![k].names = @ \ {i},
                                      ![k].insts = IF i \in stored THEN @ \cup {i} ELSE @]
    BY <1>4 DEF Find
  <2> DEFINE v == [[local[k] EXCEPT !.names = @ \ {i}] EXCEPT !.insts = IF i \in stored THEN @ \cup {i} ELSE @]
  <2>2. i \in Insts
    BY <1>1 DEF Place, Locals
  <2>3. /\ v \in Locals /\ v.names = local[k].names \ {i} /\ v.found = local[k].found
        /\ v.insts = local[k].insts \cup (IF i \in stored THEN {i} ELSE {})
    BY <1>1, <2>2 DEF Place, Locals
  <2>4. local' = [local EXCEPT ![k] = v]
    BY <1>1, <2>1 DEF TypeInv
  <2> HIDE DEF v
  <2>5. Place(k, "find", v, Len(sets'))
    BY <1>1, <1>2, <2>3, WorkerKinds DEF Place, LabelsOf, KindLabels
  <2>6. Goto(k, "find")
    BY <1>1, <1>4 DEF Find, TypeInv, Goto
  <2>7. TypeInv' /\ Moves(k, "find", v)
    BY <1>1, <1>2, <2>4, <2>5, <2>6, GoesOn
  <2> QED BY <1>1, <2>3, <2>7 DEF Moves
<1> QED BY <1>3, <1>4

LEMMA PutStep ==
  ASSUME TypeInv, Put
  PROVE  /\ TypeInv' /\ pc["inst"] = "put" /\ Moves("inst", "lookapp", local["inst"])
         /\ local["inst"].it \in Insts /\ stored' = stored \cup {local["inst"].it}
<1>1. "inst" \in Workers /\ pc["inst"] = "put" /\ Place("inst", pc["inst"], local["inst"], Len(sets))
  BY WorkerKinds DEF Put, At, TypeInv
<1>2. local["inst"].it \in Insts
  BY <1>1 DEF Place, HandlingLabels
<1>3. Shared' /\ sets' = sets /\ Len(sets') >= Len(sets)
  <2>1. Len(sets) \in Nat /\ sets' = sets
    BY DEF TypeInv, Shared, Put
  <2> QED BY <1>2, <2>1 DEF Put, TypeInv, Shared
<1>4. Place("inst", "lookapp", local["inst"], Len(sets'))
  BY <1>1, <1>2, <1>3 DEF Place, LabelsOf, InstLabels
<1>5. Goto("inst", "lookapp") /\ local' = [local EXCEPT !["inst"] = local["inst"]]
  BY DEF Put, TypeInv
<1>6. TypeInv' /\ Moves("inst", "lookapp", local["inst"])
  BY <1>1, <1>3, <1>4, <1>5, GoesOn
<1> QED BY <1>1, <1>2, <1>6 DEF Put

LEMMA LookUpStep ==
  ASSUME TypeInv, NEW k \in Kinds, LookUp(k)
  PROVE  /\ TypeInv' /\ pc["inst"] = LookAt[k] /\ Moves("inst", ConnectAt[k], local'["inst"])
         /\ local'["inst"].found = table[k] /\ local'["inst"].it = local["inst"].it
<1> DEFINE v == [local["inst"] EXCEPT !.found = table[k]]
<1>1. /\ "inst" \in Workers /\ pc["inst"] = LookAt[k]
      /\ Place("inst", pc["inst"], local["inst"], Len(sets))
  BY WorkerKinds DEF LookUp, At, TypeInv
<1>2. v \in Locals /\ v.found = table[k] /\ v.it = local["inst"].it
  BY <1>1 DEF Place, Locals, TypeInv, Shared
<1>3. Shared' /\ Len(sets') >= Len(sets) /\ sets' = sets
  BY RestTyped DEF LookUp, Rest
<1>4. local' = [local EXCEPT !["inst"] = v] /\ Goto("inst", ConnectAt[k])
  BY DEF LookUp
<1> HIDE DEF v
<1>5. local["inst"].it \in Insts /\ ConnectAt[k] \in InstLabels
  BY <1>1, WorkerKinds DEF Place, HandlingLabels, InstLabels
<1>6. ConnectAt[k] \notin {"look", "store", "range", "ranging", "getapp", "getuser"}
  BY WorkerKinds
<1>7. Place("inst", ConnectAt[k], v, Len(sets'))
  BY <1>1, <1>2, <1>3, <1>5, <1>6 DEF Place, LabelsOf, TypeInv, Shared
<1>8. TypeInv' /\ Moves("inst", ConnectAt[k], v)
  BY <1>1, <1>3, <1>4, <1>7, GoesOn
<1> QED BY <1>1, <1>2, <1>8 DEF Moves

LEMMA ConnectStep ==
  ASSUME TypeInv, NEW k \in Kinds, Connect(k)
  PROVE  LET i == local["inst"].it
             found == local["inst"].found
         IN  /\ TypeInv' /\ pc["inst"] = ConnectAt[k] /\ i \in Insts
             /\ UNCHANGED <<version, queue, stored, generated, dead>>
             /\ \A m \in Kinds \ {k} : table'[m] = table[m]
             /\ \A n \in 1..Len(sets) : sets[n] \subseteq sets'[n]
             /\ \A n \in 1..Len(sets) : \A j \in Insts : j # i => (j \in sets'[n] <=> j \in sets[n])
             /\ \/ k = "app" /\ Moves("inst", "lookuser", local["inst"])
                \/ /\ k = "user" /\ Moves("inst", "next", local'["inst"])
                   /\ local'["inst"].insts = {i} /\ local'["inst"].found = found
             /\ \/ /\ found = Nil /\ table'[k] # Nil /\ table'[k].obj = Nil
                   /\ i \in sets'[table'[k].set]
                   /\ overrun' = IF table[k] # Nil THEN overrun \cup {k} ELSE overrun
                \/ /\ found # Nil /\ table'[k] = table[k] /\ overrun' = overrun
                   /\ i \in sets'[found.set]
<1> DEFINE i == local["inst"].it
           found == local["inst"].found
<1> USE WorkerKinds
<1>1. /\ "inst" \in Workers /\ pc["inst"] = ConnectAt[k]
      /\ Place("inst", pc["inst"], local["inst"], Len(sets))
      /\ UNCHANGED <<version, queue, stored, generated, dead>>
  BY DEF Connect, At, TypeInv
<1>2. i \in Insts /\ local["inst"] \in Locals
  BY <1>1 DEF Place, HandlingLabels
<1>3. Len(sets) \in Nat /\ sets \in Seq(SUBSET Insts) /\ table \in [Kinds -> Entry \cup {Nil}]
  BY DEF TypeInv, Shared
\* The table and the sets.
<1>4. /\ Shared' /\ Len(sets') >= Len(sets)
      /\ \A m \in Kinds \ {k} : table'[m] = table[m]
      /\ \A n \in 1..Len(sets) : sets[n] \subseteq sets'[n]
      /\ \A n \in 1..Len(sets) : \A j \in Insts : j # i => (j \in sets'[n] <=> j \in sets[n])
      /\ \/ /\ found = Nil /\ table'[k] # Nil /\ table'[k].obj = Nil
            /\ i \in sets'[table'[k].set]
            /\ overrun' = IF table[k] # Nil THEN overrun \cup {k} ELSE overrun
         \/ /\ found # Nil /\ table'[k] = table[k] /\ overrun' = overrun
            /\ i \in sets'[found.set]
  <2>1. CASE found = Nil
    <3> DEFINE e == [obj |-> Nil, set |-> Len(sets) + 1]
    <3>1. /\ sets' = Append(sets, {i}) /\ table' = [table EXCEPT ![k] = e]
          /\ overrun' = IF table[k] # Nil THEN overrun \cup {k} ELSE overrun
      BY <2>1 DEF Connect
    <3>2. e \in Entry /\ e.obj = Nil /\ e.set = Len(sets) + 1
      BY <1>3 DEF Entry
    <3> HIDE DEF e
    <3>3. /\ sets' \in Seq(SUBSET Insts) /\ Len(sets') = Len(sets) + 1
          /\ sets'[Len(sets) + 1] = {i}
          /\ \A n \in 1..Len(sets) : sets'[n] = sets[n]
      BY <1>2, <1>3, <3>1, SetAdded
    <3>4. /\ \A m \in Kinds \ {k} : table'[m] = table[m]
          /\ table'[k] = e /\ table' \in [Kinds -> Entry \cup {Nil}]
      BY <1>3, <3>1, <3>2
    <3>5. \A m \in Kinds : table'[m] # Nil => table'[m].set \in 1..Len(sets')
      BY <1>3, <3>2, <3>3, <3>4 DEF TypeInv, Shared
    <3>6. Shared'
      BY <1>1, <3>1, <3>3, <3>4, <3>5 DEF TypeInv, Shared
    <3>7. Len(sets') >= Len(sets)
      BY <1>3, <3>3
    <3> QED BY <2>1, <3>1, <3>2, <3>3, <3>4, <3>6, <3>7, NilApart
  <2>2. CASE found # Nil
    <3>0. found \in Entry /\ found.set \in 1..Len(sets)
      BY <1>1, <2>2 DEF Place, Locals
    <3>1. sets' = [sets EXCEPT ![found.set] = @ \cup {i}] /\ table' = table /\ overrun' = overrun
      BY <2>2 DEF Connect
    <3>2. /\ sets' \in Seq(SUBSET Insts) /\ Len(sets') = Len(sets)
          /\ sets'[found.set] = sets[found.set] \cup {i}
          /\ \A n \in 1..Len(sets) : sets[n] \subseteq sets'[n]
          /\ \A n \in 1..Len(sets) : \A j \in Insts : j # i => (j \in sets'[n] <=> j \in sets[n])
      BY <1>2, <1>3, <3>0, <3>1, SetGrown
    <3>3. Shared'
      BY <1>1, <3>1, <3>2 DEF TypeInv, Shared
    <3>4. Len(sets') >= Len(sets)
      BY <1>3, <3>2
    <3> QED BY <2>2, <3>1, <3>2, <3>3, <3>4
  <2> QED BY <2>1, <2>2
\* The worker.
<1>5. /\ TypeInv'
      /\ \/ k = "app" /\ Moves("inst", "lookuser", local["inst"])
         \/ /\ k = "user" /\ Moves("inst", "next", local'["inst"])
            /\ local'["inst"].insts = {i} /\ local'["inst"].found = found
  <2>0. found # Nil => found.set \in 1..Len(sets')
    BY <1>1, <1>3, <1>4 DEF Place, Shared
  <2>1. CASE k = "app"
    <3>1. Goto("inst", "lookuser") /\ local' = [local EXCEPT !["inst"] = local["inst"]]
      BY <2>1 DEF Connect, TypeInv
    <3>2. Place("inst", "lookuser", local["inst"], Len(sets'))
      BY <1>2, <2>0 DEF Place, LabelsOf, InstLabels
    <3> QED BY <1>1, <1>4, <2>1, <3>1, <3>2, GoesOn
  <2>2. CASE k = "user"
    <3> DEFINE v == [local["inst"] EXCEPT !.insts = {i}]
    <3>1. Goto("inst", "next") /\ local' = [local EXCEPT !["inst"] = v]
      BY <2>2 DEF Connect
    <3>2. v \in Locals /\ v.insts = {i} /\ v.found = found
      BY <1>2 DEF Locals
    <3> HIDE DEF v
    <3>3. Place("inst", "next", v, Len(sets'))
      BY <2>0, <3>2 DEF Place, LabelsOf, InstLabels, HandlingLabels
    <3>4. TypeInv' /\ Moves("inst", "next", v)
      BY <1>1, <1>4, <3>1, <3>3, GoesOn
    <3> QED BY <2>2, <3>2, <3>4 DEF Moves
  <2> QED BY <2>1, <2>2
<1> QED BY <1>1, <1>2, <1>4, <1>5

LEMMA NextCopyStep ==
  ASSUME TypeInv, NEW w \in Workers, NextCopy(w)
  PROVE  /\ TypeInv' /\ pc[w] = "next"
         /\ \/ local[w].insts = {} /\ Moves(w, "idle", NoLocals)
            \/ /\ Moves(w, "getapp", local'[w])
               /\ local'[w].inst \in local[w].insts
               /\ local'[w].insts = local[w].insts \ {local'[w].inst}
<1>1. pc[w] = "next" /\ Place(w, pc[w], local[w], Len(sets))
  BY DEF NextCopy, At, TypeInv
<1>2. Shared' /\ Len(sets') >= Len(sets) /\ sets' = sets
  BY RestTyped DEF NextCopy, Rest
<1>3. CASE local[w].insts = {}
  <2>1. Goto(w, "idle") /\ local' = [local EXCEPT ![w] = NoLocals]
    BY <1>3 DEF NextCopy
  <2>2. Place(w, "idle", NoLocals, Len(sets'))
    BY NoLocalsType DEF Place, LabelsOf, KindLabels, InstLabels, HandlingLabels
  <2>3. TypeInv' /\ Moves(w, "idle", NoLocals)
    BY <1>2, <2>1, <2>2, GoesOn
  <2> QED BY <1>1, <1>3, <2>3
<1>4. CASE local[w].insts # {}
  <2>1. PICK i \in local[w].insts : local' = [local EXCEPT ![w].insts = @ \ {i}, ![w].inst = i]
    BY <1>4 DEF NextCopy
  <2> DEFINE v == [[local[w] EXCEPT !.insts = @ \ {i}] EXCEPT !.inst = i]
  <2>2. i \in Insts
    BY <1>1 DEF Place, Locals
  <2>3. v \in Locals /\ v.inst = i /\ v.insts = local[w].insts \ {i} /\ v.found = local[w].found
    BY <1>1, <2>2 DEF Place, Locals
  <2>4. local' = [local EXCEPT ![w] = v] /\ Goto(w, "getapp")
    BY <1>4, <2>1 DEF TypeInv, NextCopy
  <2> HIDE DEF v
  <2>5. Place(w, "getapp", v, Len(sets'))
    BY <1>1, <1>2, <2>2, <2>3 DEF Place, LabelsOf, KindLabels, InstLabels, HandlingLabels
  <2>6. TypeInv' /\ Moves(w, "getapp", v)
    BY <1>2, <2>4, <2>5, GoesOn
  <2> QED BY <1>1, <2>1, <2>3, <2>6 DEF Moves
<1> QED BY <1>3, <1>4

LEMMA ObjectType ==
  ASSUME TypeInv, NEW k \in Kinds
  PROVE  Object(k) \in Versions \cup {Nil}
BY DEF TypeInv, Shared, Object, Entry, Versions

LEMMA GetAppStep ==
  ASSUME TypeInv, NEW w \in Workers, GetApp(w)
  PROVE  /\ TypeInv' /\ pc[w] = "getapp" /\ Moves(w, "getuser", local'[w])
         /\ local'[w].inst = local[w].inst /\ local'[w].insts = local[w].insts
         /\ local'[w].app = Object("app")
<1> DEFINE v == [local[w] EXCEPT !.app = Object("app")]
<1>1. pc[w] = "getapp" /\ Place(w, pc[w], local[w], Len(sets))
  BY DEF GetApp, At, TypeInv
<1>2. /\ v \in Locals /\ v.app = Object("app") /\ v.inst = local[w].inst
      /\ v.insts = local[w].insts /\ v.found = local[w].found
  BY <1>1, ObjectType, WorkerKinds DEF Place, Locals
<1>3. Shared' /\ Len(sets') >= Len(sets) /\ sets' = sets
  BY RestTyped DEF GetApp, Rest
<1>4. local' = [local EXCEPT ![w] = v] /\ Goto(w, "getuser")
  BY DEF GetApp
<1> HIDE DEF v
<1>5. Place(w, "getuser", v, Len(sets'))
  BY <1>1, <1>2, <1>3 DEF Place, LabelsOf, KindLabels, InstLabels, HandlingLabels
<1>6. TypeInv' /\ Moves(w, "getuser", v)
  BY <1>3, <1>4, <1>5, GoesOn
<1> QED BY <1>1, <1>2, <1>6 DEF Moves

LEMMA GetUserStep ==
  ASSUME TypeInv, NEW w \in Workers, GetUser(w)
  PROVE  /\ TypeInv' /\ pc[w] = "getuser" /\ Moves(w, "next", local[w])
         /\ \A i \in Insts : generated[i] \subseteq generated'[i]
         /\ local[w].app # Nil /\ Object("user") # Nil =>
              [app |-> local[w].app, user |-> Object("user")] \in generated'[local[w].inst]
<1>1. pc[w] = "getuser" /\ Place(w, pc[w], local[w], Len(sets))
  BY DEF GetUser, At, TypeInv
<1>2. local[w].inst \in Insts /\ local[w].app \in Versions \cup {Nil}
  BY <1>1 DEF Place, Locals
<1>3. Object("user") \in Versions \cup {Nil}
  BY ObjectType, WorkerKinds
<1>4. generated \in [Insts -> SUBSET Generations]
  BY DEF TypeInv, Shared
<1>5. /\ generated' \in [Insts -> SUBSET Generations]
      /\ \A i \in Insts : generated[i] \subseteq generated'[i]
      /\ local[w].app # Nil /\ Object("user") # Nil =>
            [app |-> local[w].app, user |-> Object("user")] \in generated'[local[w].inst]
  BY <1>2, <1>3, <1>4 DEF GetUser, Generations
<1>6. Shared' /\ sets' = sets /\ Len(sets') >= Len(sets)
  <2>1. Len(sets) \in Nat /\ sets' = sets
    BY DEF TypeInv, Shared, GetUser
  <2> QED BY <1>5, <2>1 DEF TypeInv, Shared, GetUser
<1>7. Goto(w, "next") /\ local' = [local EXCEPT ![w] = local[w]]
  BY DEF GetUser, TypeInv
<1>8. Place(w, "next", local[w], Len(sets'))
  BY <1>1, <1>6 DEF Place, LabelsOf, KindLabels, InstLabels, HandlingLabels
<1>9. TypeInv' /\ Moves(w, "next", local[w])
  BY <1>6, <1>7, <1>8, GoesOn
<1> QED BY <1>1, <1>5, <1>9

-----------------------------------------------------------------------------
(* Associations *)

\* An entry found earlier still is the one in the table, but for the object.
FoundThere(k) ==
  k \notin overrun =>
    /\ (pc[k] \in {"store", "range", "ranging"} /\ local[k].found # Nil)
         => table[k] # Nil /\ table[k].set = local[k].found.set
    /\ (pc["inst"] = ConnectAt[k] /\ local["inst"].found # Nil)
         => table[k] # Nil /\ table[k].set = local["inst"].found.set

\* The instance is stored, and about to be connected to the app or user.
Connecting(k, i) ==
  /\ local["inst"].it = i
  /\ pc["inst"] \in {"lookapp", "connectapp"} \cup
                    (IF k = "user" THEN {"lookuser", "connectuser"} ELSE {})

IsIn(k, i) == table[k] # Nil /\ i \in sets[table[k].set]

Associated(k) == k \notin overrun => \A i \in stored : IsIn(k, i) \/ Connecting(k, i)

AssocInv == \A k \in Kinds : FoundThere(k) /\ Associated(k)

\* What a step may do that changes no table and no set.
Quiet(w) ==
  /\ UNCHANGED <<table, sets, stored, overrun>>
  /\ Moves(w, pc'[w], local'[w])
  /\ \A k \in Kinds : (w = k /\ pc'[k] \in {"store", "range", "ranging"}) =>
        \/ local'[k].found = table[k]
        \/ pc[k] \in {"store", "range", "ranging"} /\ local'[k].found = local[k].found
  /\ \A k \in Kinds : (w = "inst" /\ pc'["inst"] = ConnectAt[k]) => local'["inst"].found = table[k]
  /\ \A k \in Kinds : \A i \in Insts : Connecting(k, i) => Connecting(k, i)'

LEMMA QuietAssoc ==
  ASSUME TypeInv, AssocInv, NEW w \in Workers, Quiet(w)
  PROVE  AssocInv'
<1> USE WorkerKinds
<1> SUFFICES ASSUME NEW k \in Kinds PROVE FoundThere(k)' /\ Associated(k)'
  BY DEF AssocInv
<1>0. FoundThere(k) /\ Associated(k)
  BY DEF AssocInv
<1>1. FoundThere(k)'
  <2> SUFFICES ASSUME k \notin overrun
               PROVE  /\ (pc'[k] \in {"store", "range", "ranging"} /\ local'[k].found # Nil)
                           => table[k] # Nil /\ table[k].set = local'[k].found.set
                      /\ (pc'["inst"] = ConnectAt[k] /\ local'["inst"].found # Nil)
                           => table[k] # Nil /\ table[k].set = local'["inst"].found.set
    BY DEF FoundThere, Quiet
  <2>1. (pc'[k] \in {"store", "range", "ranging"} /\ local'[k].found # Nil)
           => table[k] # Nil /\ table[k].set = local'[k].found.set
    BY <1>0 DEF FoundThere, Quiet, Moves
  <2>2. (pc'["inst"] = ConnectAt[k] /\ local'["inst"].found # Nil)
           => table[k] # Nil /\ table[k].set = local'["inst"].found.set
    BY <1>0 DEF FoundThere, Quiet, Moves
  <2> QED BY <2>1, <2>2
<1>2. Associated(k)'
  <2> SUFFICES ASSUME k \notin overrun, NEW i \in stored PROVE IsIn(k, i)' \/ Connecting(k, i)'
    BY DEF Associated, Quiet
  <2>1. IsIn(k, i) \/ Connecting(k, i)
    BY <1>0 DEF Associated
  <2>2. i \in Insts
    BY DEF TypeInv, Shared
  <2> QED BY <2>1, <2>2 DEF Quiet, IsIn
<1> QED BY <1>1, <1>2

LEMMA StoreAssoc ==
  ASSUME TypeInv, AssocInv, NEW k \in Kinds, Store(k)
  PROVE  AssocInv'
<1> USE WorkerKinds
<1>1. /\ pc[k] = "store"
      /\ UNCHANGED <<version, queue, stored, generated, dead>>
      /\ \A m \in Kinds \ {k} : table'[m] = table[m]
      /\ table'[k] # Nil /\ table'[k].obj = local[k].it
      /\ \/ /\ local[k].found = Nil
            /\ Moves(k, "idle", NoLocals)
            /\ \A n \in 1..Len(sets) : sets'[n] = sets[n]
            /\ overrun' = IF table[k] # Nil THEN overrun \cup {k} ELSE overrun
         \/ /\ local[k].found # Nil
            /\ Moves(k, "range", local[k])
            /\ table'[k].set = local[k].found.set
            /\ UNCHANGED <<sets, overrun>>
  BY StoreStep
<1>2. \A m \in Kinds : table[m] # Nil => table[m].set \in 1..Len(sets)
  BY DEF TypeInv, Shared
<1>3. pc'["inst"] = pc["inst"] /\ local'["inst"] = local["inst"]
  BY <1>1 DEF Moves
<1>4. \A i \in Insts : \A m \in Kinds : Connecting(m, i)' <=> Connecting(m, i)
  BY <1>3 DEF Connecting
<1>5. ASSUME NEW m \in Kinds \ {k} PROVE FoundThere(m)' /\ Associated(m)'
  <2>1. FoundThere(m) /\ Associated(m) /\ pc'[m] = pc[m] /\ local'[m] = local[m] /\ table'[m] = table[m]
    BY <1>1, <1>5 DEF AssocInv, Moves
  <2>2. m \notin overrun' <=> m \notin overrun
    BY <1>1, <1>5
  <2>3. FoundThere(m)'
    BY <1>3, <2>1, <2>2 DEF FoundThere
  <2>4. ASSUME NEW i \in stored, IsIn(m, i) PROVE IsIn(m, i)'
    BY <1>1, <1>2, <2>1, <2>4 DEF IsIn
  <2> QED BY <1>1, <1>4, <2>1, <2>2, <2>3, <2>4 DEF Associated, TypeInv, Shared
<1>6. FoundThere(k)' /\ Associated(k)'
  <2> SUFFICES ASSUME k \notin overrun' PROVE FoundThere(k)' /\ Associated(k)'
    BY DEF FoundThere, Associated
  <2>0. FoundThere(k) /\ Associated(k) /\ k \notin overrun
    BY <1>1 DEF AssocInv
  <2>1. CASE local[k].found = Nil
    <3>1. table[k] = Nil /\ pc'[k] = "idle"
      BY <1>1, <2>1 DEF Moves
    <3>2. FoundThere(k)'
      BY <1>3, <2>0, <3>1 DEF FoundThere
    <3>3. \A i \in stored : Connecting(k, i)
      BY <2>0, <3>1 DEF Associated, IsIn
    <3> QED BY <1>1, <1>4, <3>2, <3>3 DEF Associated, TypeInv, Shared
  <2>2. CASE local[k].found # Nil
    <3>1. table[k] # Nil /\ table'[k].set = table[k].set /\ table[k].set = local[k].found.set
      BY <1>1, <2>0, <2>2 DEF FoundThere
    <3>2. pc'[k] = "range" /\ local'[k] = local[k] /\ sets' = sets
      BY <1>1, <2>2 DEF Moves
    <3>3. FoundThere(k)'
      BY <1>1, <1>3, <2>0, <3>1, <3>2 DEF FoundThere
    <3>4. \A i \in stored : IsIn(k, i) => IsIn(k, i)'
      BY <1>1, <3>1, <3>2 DEF IsIn
    <3> QED BY <1>1, <1>4, <2>0, <3>3, <3>4 DEF Associated, TypeInv, Shared
  <2> QED BY <2>1, <2>2
<1> QED BY <1>5, <1>6 DEF AssocInv

LEMMA PutAssoc ==
  ASSUME TypeInv, AssocInv, Put
  PROVE  AssocInv'
<1> USE WorkerKinds
<1>1. /\ pc["inst"] = "put" /\ Moves("inst", "lookapp", local["inst"])
      /\ stored' = stored \cup {local["inst"].it}
      /\ UNCHANGED <<table, sets, overrun>>
  BY PutStep DEF Put
<1>2. /\ pc'["inst"] = "lookapp" /\ local' = [local EXCEPT !["inst"] = local["inst"]]
      /\ \A k \in Kinds : pc'[k] = pc[k] /\ local'[k] = local[k]
      /\ local'["inst"] = local["inst"]
  BY <1>1 DEF Moves, TypeInv, Put
<1> SUFFICES ASSUME NEW k \in Kinds PROVE FoundThere(k)' /\ Associated(k)'
  BY DEF AssocInv
<1>3. FoundThere(k) /\ Associated(k)
  BY DEF AssocInv
<1>4. FoundThere(k)'
  BY <1>1, <1>2, <1>3 DEF FoundThere
<1>5. \A i \in stored : ~Connecting(k, i)
  BY <1>1 DEF Connecting
<1>6. \A i \in stored : k \notin overrun => IsIn(k, i)'
  BY <1>1, <1>3, <1>5 DEF Associated, IsIn
<1>7. Connecting(k, local["inst"].it)'
  BY <1>2 DEF Connecting
<1> QED BY <1>1, <1>2, <1>4, <1>6, <1>7 DEF Associated

LEMMA ConnectAssoc ==
  ASSUME TypeInv, AssocInv, NEW k \in Kinds, Connect(k)
  PROVE  AssocInv'
<1> DEFINE i == local["inst"].it
           found == local["inst"].found
<1> USE WorkerKinds
<1>1. /\ pc["inst"] = ConnectAt[k] /\ i \in Insts
      /\ UNCHANGED <<version, queue, stored, generated, dead>>
      /\ \A m \in Kinds \ {k} : table'[m] = table[m]
      /\ \A n \in 1..Len(sets) : sets[n] \subseteq sets'[n]
      /\ \/ k = "app" /\ Moves("inst", "lookuser", local["inst"])
         \/ /\ k = "user" /\ Moves("inst", "next", local'["inst"])
            /\ local'["inst"].insts = {i} /\ local'["inst"].found = found
      /\ \/ /\ found = Nil /\ table'[k] # Nil /\ table'[k].obj = Nil
            /\ i \in sets'[table'[k].set]
            /\ overrun' = IF table[k] # Nil THEN overrun \cup {k} ELSE overrun
         \/ /\ found # Nil /\ table'[k] = table[k] /\ overrun' = overrun
            /\ i \in sets'[found.set]
  BY ConnectStep
<1>2. \A m \in Kinds : table[m] # Nil => table[m].set \in 1..Len(sets)
  BY DEF TypeInv, Shared
<1>3. \A m \in Kinds : pc'[m] = pc[m] /\ local'[m] = local[m]
  BY <1>1 DEF Moves
<1>4. pc'["inst"] = (IF k = "app" THEN "lookuser" ELSE "next")
  BY <1>1 DEF Moves
<1>5. ASSUME NEW m \in Kinds PROVE FoundThere(m)'
  <2>1. FoundThere(m) /\ pc'["inst"] # ConnectAt[m]
    BY <1>4 DEF AssocInv
  <2>2. SUFFICES ASSUME m \notin overrun', pc[m] \in {"store", "range", "ranging"}, local[m].found # Nil
                 PROVE  table'[m] # Nil /\ table'[m].set = local[m].found.set
    BY <1>3, <2>1 DEF FoundThere
  <2>3. m \notin overrun /\ table[m] # Nil /\ table[m].set = local[m].found.set
    BY <1>1, <2>1, <2>2 DEF FoundThere
  <2> QED BY <1>1, <2>2, <2>3
<1>6. ASSUME NEW m \in Kinds, m \notin overrun', NEW j \in stored
      PROVE  IsIn(m, j)' \/ Connecting(m, j)'
  <2>1. Associated(m) /\ FoundThere(m) /\ m \notin overrun /\ (IsIn(m, j) \/ Connecting(m, j))
    BY <1>1, <1>6 DEF AssocInv, Associated
  <2>2. CASE m # k
    <3>1. IsIn(m, j) => IsIn(m, j)'
      BY <1>1, <1>2, <2>2 DEF IsIn
    <3>2. ASSUME Connecting(m, j) PROVE Connecting(m, j)'
      <4>1. m = "user" /\ k = "app"
        BY <1>1, <2>2, <3>2 DEF Connecting
      <4>2. Moves("inst", "lookuser", local["inst"])
        BY <1>1, <4>1
      <4> QED BY <3>2, <4>1, <4>2 DEF Connecting, Moves
    <3> QED BY <2>1, <3>1, <3>2
  <2>3. CASE m = k
    <3>1. CASE found = Nil
      <4>1. table[k] = Nil
        BY <1>1, <1>6, <2>3, <3>1
      <4>2. j = i
        BY <2>1, <2>3, <4>1 DEF IsIn, Connecting
      <4> QED BY <1>1, <2>3, <3>1, <4>2 DEF IsIn
    <3>2. CASE found # Nil
      <4>1. table[k] # Nil /\ table[k].set = found.set /\ table'[k] = table[k]
        BY <1>1, <2>1, <2>3, <3>2 DEF FoundThere
      <4>2. IsIn(k, j) => IsIn(k, j)'
        BY <1>1, <1>2, <4>1 DEF IsIn
      <4>3. Connecting(k, j) => IsIn(k, j)'
        BY <1>1, <3>2, <4>1 DEF IsIn, Connecting
      <4> QED BY <2>1, <2>3, <4>2, <4>3
    <3> QED BY <3>1, <3>2
  <2> QED BY <2>2, <2>3
<1> QED BY <1>1, <1>5, <1>6 DEF AssocInv, Associated

LEMMA NextAssoc == TypeInv /\ AssocInv /\ [Next]_vars => TypeInv' /\ AssocInv'
<1> USE WorkerKinds
<1> SUFFICES ASSUME TypeInv, AssocInv, [Next]_vars PROVE TypeInv' /\ AssocInv'
  OBVIOUS
<1>1. ASSUME NEW k \in Kinds, Update(k) PROVE TypeInv' /\ AssocInv'
  <2>1. UNCHANGED <<pc, local, table, sets, stored, overrun>>
    BY <1>1 DEF Update
  <2> QED BY <1>1, <2>1, UpdateStep DEF AssocInv, FoundThere, Associated, IsIn, Connecting
<1>2. ASSUME NEW w \in Workers, Reconcile(w) PROVE TypeInv' /\ AssocInv'
  <2>1. /\ TypeInv' /\ pc[w] = "idle" /\ pc'[w] = (IF w = "inst" THEN "put" ELSE "look")
        /\ Moves(w, pc'[w], local'[w])
    BY <1>2, ReconcileStep DEF Moves
  <2>2. Quiet(w)
    BY <1>2, <2>1 DEF Quiet, Reconcile, Connecting, Moves
  <2> QED BY <2>1, <2>2, QuietAssoc
<1>3. ASSUME NEW k \in Kinds, Look(k) PROVE TypeInv' /\ AssocInv'
  <2>1. TypeInv' /\ Moves(k, "store", local'[k]) /\ local'[k].found = table[k]
    BY <1>3, LookStep
  <2>2. Quiet(k)
    BY <1>3, <2>1 DEF Quiet, Look, Connecting, Moves
  <2> QED BY <2>1, <2>2, QuietAssoc
<1>4. ASSUME NEW k \in Kinds, Store(k) PROVE TypeInv' /\ AssocInv'
  BY <1>4, StoreStep, StoreAssoc
<1>5. ASSUME NEW k \in Kinds, RangeBegin(k) PROVE TypeInv' /\ AssocInv'
  <2>1. TypeInv' /\ pc[k] = "range" /\ Moves(k, "ranging", local'[k]) /\ local'[k].found = local[k].found
    BY <1>5, RangeBeginStep
  <2>2. Quiet(k)
    BY <1>5, <2>1 DEF Quiet, RangeBegin, Connecting, Moves
  <2> QED BY <2>1, <2>2, QuietAssoc
<1>6. ASSUME NEW k \in Kinds, RangeEnd(k) PROVE TypeInv' /\ AssocInv'
  <2>1. TypeInv' /\ Moves(k, "find", local'[k])
    BY <1>6, RangeEndStep
  <2>2. Quiet(k)
    BY <1>6, <2>1 DEF Quiet, RangeEnd, Connecting, Moves
  <2> QED BY <2>1, <2>2, QuietAssoc
<1>7. ASSUME NEW k \in Kinds, Find(k) PROVE TypeInv' /\ AssocInv'
  <2>1. TypeInv' /\ pc'[k] \in {"find", "next"} /\ Moves(k, pc'[k], local'[k])
    BY <1>7, FindStep DEF Moves
  <2>2. Quiet(k)
    BY <1>7, <2>1 DEF Quiet, Find, Connecting, Moves
  <2> QED BY <2>1, <2>2, QuietAssoc
<1>8. CASE Put
  BY <1>8, PutStep, PutAssoc
<1>9. ASSUME NEW k \in Kinds, LookUp(k) PROVE TypeInv' /\ AssocInv'
  <2>1. /\ TypeInv' /\ pc["inst"] = LookAt[k] /\ Moves("inst", ConnectAt[k], local'["inst"])
        /\ local'["inst"].found = table[k] /\ local'["inst"].it = local["inst"].it
    BY <1>9, LookUpStep
  <2>2. ASSUME NEW m \in Kinds, pc'["inst"] = ConnectAt[m] PROVE local'["inst"].found = table[m]
    BY <2>1, <2>2 DEF Moves
  <2>3. ASSUME NEW m \in Kinds, NEW i \in Insts, Connecting(m, i) PROVE Connecting(m, i)'
    <3>1. CASE k = "app"
      BY <2>1, <2>3, <3>1 DEF Connecting, Moves
    <3>2. CASE k = "user"
      BY <2>1, <2>3, <3>2 DEF Connecting, Moves
    <3> QED BY <3>1, <3>2
  <2>4. Quiet("inst")
    BY <1>9, <2>1, <2>2, <2>3 DEF Quiet, LookUp, Moves
  <2> QED BY <2>1, <2>4, QuietAssoc
<1>10. ASSUME NEW k \in Kinds, Connect(k) PROVE TypeInv' /\ AssocInv'
  BY <1>10, ConnectStep, ConnectAssoc
<1>11. ASSUME NEW w \in Workers, NextCopy(w) \/ GetApp(w) \/ GetUser(w) PROVE TypeInv' /\ AssocInv'
  <2>1. /\ TypeInv' /\ pc[w] \in {"next", "getapp", "getuser"}
        /\ pc'[w] \in {"idle", "next", "getapp", "getuser"} /\ Moves(w, pc'[w], local'[w])
    BY <1>11, NextCopyStep, GetAppStep, GetUserStep DEF Moves
  <2>2. UNCHANGED <<table, sets, stored, overrun>>
    BY <1>11 DEF NextCopy, GetApp, GetUser
  <2>3. Quiet(w)
    BY <2>1, <2>2 DEF Quiet, Connecting, Moves
  <2> QED BY <2>1, <2>3, QuietAssoc
<1>12. CASE Fatal
  <2>1. UNCHANGED <<version, queue, pc, local, table, sets, stored, generated, overrun>> /\ dead' = TRUE
    BY <1>12 DEF Fatal
  <2> QED BY <2>1 DEF TypeInv, Shared, AssocInv, FoundThere, Associated, IsIn, Connecting
<1>13. CASE UNCHANGED vars
  BY <1>13 DEF vars, TypeInv, Shared, AssocInv, FoundThere, Associated, IsIn, Connecting
<1> QED BY <1>1, <1>2, <1>3, <1>4, <1>5, <1>6, <1>7, <1>8, <1>9, <1>10, <1>11, <1>12, <1>13 DEF Next

LEMMA InitAssoc == Init => AssocInv
BY WorkerKinds DEF Init, AssocInv, FoundThere, Associated

\* Whatever the interleaving of the statements, types are kept.
THEOREM TypeCorrect == Spec => []TypeOK
<1>1. TypeInv => TypeOK
  BY DEF TypeInv, Shared, Place, LabelsOf, KindLabels, InstLabels, HandlingLabels, TypeOK, Labels,
         Versions, Generations
<1>2. Init => TypeInv /\ AssocInv
  BY InitTyped, InitAssoc
<1> QED BY <1>1, <1>2, NextAssoc, PTL DEF Spec

\* An addition through a pointer that was read before the object was stored is not
\* lost, however many instances there are: the set behind the entry is the same.
THEOREM AssociationsKept == Spec => []AssociatedUnlessOverrun
<1>1. TypeInv /\ AssocInv => AssociatedUnlessOverrun
  BY DEF AssocInv, Associated, IsIn, Connecting, AssociatedUnlessOverrun
<1>2. Init => TypeInv /\ AssocInv
  BY InitTyped, InitAssoc
<1> QED BY <1>1, <1>2, NextAssoc, PTL DEF Spec

-----------------------------------------------------------------------------
(* Objects *)

\* The worker of a kind has not stored the object as it is.
Unstored(k) == queue[k] # {} \/ pc[k] \in {"look", "store"}

Versioned(k) ==
  /\ queue[k] \subseteq {version[k]}
  /\ pc[k] \in {"look", "store"} => local[k].it = version[k] \/ queue[k] # {}
  /\ ~Unstored(k) => \/ Object(k) = version[k]
                     \/ k \in overrun /\ Object(k) = Nil

VersionInv == \A k \in Kinds : Versioned(k)

\* Most steps leave the object in the table as it is.
LEMMA StillVersioned ==
  ASSUME VersionInv, NEW k \in Kinds,
         version'[k] = version[k], queue'[k] = queue[k], table'[k] = table[k],
         overrun \subseteq overrun',
         pc'[k] \in {"look", "store"} <=> pc[k] \in {"look", "store"},
         pc'[k] \in {"look", "store"} => local'[k].it = local[k].it
  PROVE  Versioned(k)'
BY DEF VersionInv, Versioned, Unstored, Object

LEMMA NextVersioned == TypeInv /\ VersionInv /\ [Next]_vars => VersionInv'
<1> USE WorkerKinds
<1> SUFFICES ASSUME TypeInv, VersionInv, [Next]_vars, NEW k \in Kinds PROVE Versioned(k)'
  BY DEF VersionInv
<1>0. Versioned(k)
  BY DEF VersionInv
<1>1. ASSUME NEW m \in Kinds, Update(m) PROVE Versioned(k)'
  <2>1. CASE m = k
    BY <1>1, <2>1, UpdateStep DEF Versioned, Unstored
  <2>2. CASE m # k
    BY <1>1, <2>2, StillVersioned DEF Update, TypeInv, Shared
  <2> QED BY <2>1, <2>2
<1>2. ASSUME NEW w \in Workers, Reconcile(w) PROVE Versioned(k)'
  <2>1. /\ pc[w] = "idle" /\ pc'[w] = (IF w = "inst" THEN "put" ELSE "look")
        /\ local'[w].it \in queue[w] /\ queue' = [queue EXCEPT ![w] = @ \ {local'[w].it}]
        /\ Moves(w, pc'[w], local'[w])
    BY <1>2, ReconcileStep DEF Moves
  <2>2. UNCHANGED <<version, table, overrun>>
    BY <1>2 DEF Reconcile
  <2>3. CASE w = k
    BY <1>0, <2>1, <2>2, <2>3 DEF Versioned, Unstored, TypeInv, Shared
  <2>4. CASE w # k
    BY <2>1, <2>2, <2>4, StillVersioned DEF Moves, TypeInv, Shared
  <2> QED BY <2>3, <2>4
<1>3. ASSUME NEW m \in Kinds, Look(m) PROVE Versioned(k)'
  BY <1>3, LookStep, StillVersioned DEF Look, Moves
<1>4. ASSUME NEW m \in Kinds, Store(m) PROVE Versioned(k)'
  <2>1. /\ pc[m] = "store" /\ UNCHANGED <<version, queue>>
        /\ \A x \in Kinds \ {m} : table'[x] = table[x]
        /\ table'[m] # Nil /\ table'[m].obj = local[m].it
        /\ Moves(m, pc'[m], local'[m]) /\ pc'[m] \in {"idle", "range"}
        /\ overrun \subseteq overrun'
    BY <1>4, StoreStep DEF Moves
  <2>2. CASE m = k
    BY <1>0, <2>1, <2>2 DEF Versioned, Unstored, Object
  <2>3. CASE m # k
    BY <2>1, <2>3, StillVersioned DEF Moves
  <2> QED BY <2>2, <2>3
<1>5. ASSUME NEW m \in Kinds, RangeBegin(m) \/ RangeEnd(m) \/ Find(m) PROVE Versioned(k)'
  <2>1. UNCHANGED <<version, queue, table, overrun>>
    BY <1>5 DEF RangeBegin, RangeEnd, Find
  <2>2. /\ pc[m] \notin {"look", "store"} /\ pc'[m] \notin {"look", "store"}
        /\ Moves(m, pc'[m], local'[m])
    BY <1>5, RangeBeginStep, RangeEndStep, FindStep DEF Moves
  <2> QED BY <2>1, <2>2, StillVersioned DEF Moves
<1>6. ASSUME Put \/ \E m \in Kinds : LookUp(m) PROVE Versioned(k)'
  <2>1. UNCHANGED <<version, queue, table, overrun>>
    BY <1>6 DEF Put, LookUp
  <2>2. Moves("inst", pc'["inst"], local'["inst"])
    BY <1>6, PutStep, LookUpStep DEF Moves
  <2> QED BY <2>1, <2>2, StillVersioned DEF Moves
<1>7. ASSUME NEW m \in Kinds, Connect(m) PROVE Versioned(k)'
  <2>1. /\ UNCHANGED <<version, queue>> /\ Moves("inst", pc'["inst"], local'["inst"])
        /\ \A x \in Kinds \ {m} : table'[x] = table[x]
        /\ overrun \subseteq overrun'
        /\ \/ /\ table'[m] # Nil /\ table'[m].obj = Nil
              /\ overrun' = IF table[m] # Nil THEN overrun \cup {m} ELSE overrun
           \/ table'[m] = table[m]
    BY <1>7, ConnectStep DEF Moves
  <2>2. CASE table'[k] = table[k]
    BY <2>1, <2>2, StillVersioned DEF Moves
  <2>3. CASE table'[k] # table[k]
    <3>1. m = k /\ Object(k)' = Nil /\ (k \in overrun' \/ Object(k) = Nil)
      BY <2>1, <2>3 DEF Object
    <3>2. version[k] # Nil
      BY NilApart DEF TypeInv, Shared
    <3>3. Unstored(k)' <=> Unstored(k)
      BY <2>1 DEF Unstored, Moves
    <3>4. ~Unstored(k) => k \in overrun'
      BY <1>0, <2>1, <3>1, <3>2 DEF Versioned
    <3> QED BY <1>0, <2>1, <3>1, <3>3, <3>4 DEF Versioned, Moves
  <2> QED BY <2>2, <2>3
<1>8. ASSUME NEW w \in Workers, NextCopy(w) \/ GetApp(w) \/ GetUser(w) PROVE Versioned(k)'
  <2>1. UNCHANGED <<version, queue, table, overrun>>
    BY <1>8 DEF NextCopy, GetApp, GetUser
  <2>2. /\ pc[w] \notin {"look", "store"} /\ pc'[w] \notin {"look", "store"}
        /\ Moves(w, pc'[w], local'[w])
    BY <1>8, NextCopyStep, GetAppStep, GetUserStep DEF Moves
  <2> QED BY <2>1, <2>2, StillVersioned DEF Moves
<1>9. CASE Fatal
  BY <1>9, StillVersioned DEF Fatal
<1>10. CASE UNCHANGED vars
  BY <1>10, StillVersioned DEF vars
<1> QED BY <1>1, <1>2, <1>3, <1>4, <1>5, <1>6, <1>7, <1>8, <1>9, <1>10 DEF Next

LEMMA InitVersioned == Init => VersionInv
<1> SUFFICES ASSUME Init, NEW k \in Kinds PROVE Versioned(k)
  BY DEF VersionInv
<1>1. version[k] = 1 /\ queue[k] = {1} /\ pc[k] = "idle"
  BY WorkerKinds DEF Init
<1> QED BY <1>1 DEF Versioned, Unstored

\* An app or user in the table whose worker rests is the one on the API server: an
\* overrun entry has none, but never an old one.
THEOREM NoOldObject == Spec => []NeverAnOldObject
<1>1. VersionInv => NeverAnOldObject
  BY DEF VersionInv, Versioned, Unstored, NeverAnOldObject
<1>2. Init => TypeInv /\ AssocInv /\ VersionInv
  BY InitTyped, InitAssoc, InitVersioned
<1> QED BY <1>1, <1>2, NextAssoc, NextVersioned, PTL DEF Spec

-----------------------------------------------------------------------------
(* Generations *)

\* The worker holds a copy of the instance, which it will generate from the app and
\* the user as they are, unless one of them changes first.
Handles(w, i) ==
  \/ pc[w] \in {"find", "next", "getapp", "getuser"} /\ i \in local[w].insts
  \/ pc[w] = "getapp" /\ local[w].inst = i
  \/ pc[w] = "getuser" /\ local[w].inst = i /\ local[w].app = version["app"]

\* It does, or it will.
Owes(w, i) ==
  \/ Handles(w, i)
  \/ /\ w = "inst" /\ local[w].it = i
     /\ pc[w] \in {"put", "lookapp", "connectapp", "lookuser", "connectuser"}
  \/ /\ w \in Kinds /\ i \in stored
     /\ \/ pc[w] = "range" /\ i \in sets[local[w].found.set]
        \/ pc[w] \in {"ranging", "find"} /\ i \in local[w].names

Current == [app |-> version["app"], user |-> version["user"]]

\* Every instance is stored, or about to be.
Come(i) == i \in queue["inst"] \/ i \in stored \/ (pc["inst"] = "put" /\ local["inst"].it = i)

Promised(i) ==
  overrun = {} =>
    \/ i \in queue["inst"]
    \/ Current \in generated[i]
    \/ \E k \in Kinds : Unstored(k)
    \/ \E w \in Workers : Owes(w, i)

PromiseInv == \A i \in Insts : Come(i) /\ Promised(i)

\* A worker that does not move still owes what it owed.
LEMMA StillOwes ==
  ASSUME TypeInv, NEW x \in Workers, NEW i \in Insts, Owes(x, i),
         pc'[x] = pc[x], local'[x] = local[x], version' = version, stored \subseteq stored',
         \A n \in 1..Len(sets) : sets[n] \subseteq sets'[n]
  PROVE  Owes(x, i)'
<1>1. Place(x, pc[x], local[x], Len(sets))
  BY DEF TypeInv
<1>2. pc[x] = "range" => local[x].found.set \in 1..Len(sets)
  BY <1>1 DEF Place
<1>3. i \in stored => i \in stored'
  OBVIOUS
<1>4. (pc[x] = "range" /\ i \in sets[local[x].found.set]) => i \in sets'[local[x].found.set]
  BY <1>2
<1>5. version'["app"] = version["app"]
  OBVIOUS
<1> QED BY <1>3, <1>4, <1>5 DEF Owes, Handles

\* The promise to an instance is kept by a step of a worker that ends no object's
\* being unstored, if that worker still owes what it owed or has just done it.
LEMMA PromiseKept ==
  ASSUME TypeInv, NEW i \in Insts, Come(i), Promised(i), NEW w \in Workers,
         Moves(w, pc'[w], local'[w]), UNCHANGED <<version, queue>>,
         stored \subseteq stored', overrun \subseteq overrun',
         \A n \in 1..Len(sets) : sets[n] \subseteq sets'[n],
         generated[i] \subseteq generated'[i],
         pc[w] \in {"look", "store"} => pc'[w] \in {"look", "store"},
         pc[w] = "put" => i \in stored' \/ local[w].it # i,
         (Owes(w, i) /\ overrun = {} /\ \A k \in Kinds : ~Unstored(k))
           => Owes(w, i)' \/ Current \in generated'[i]
  PROVE  Come(i)' /\ Promised(i)'
<1>1. Come(i)'
  BY WorkerKinds DEF Come, Moves
<1>2. \A k \in Kinds : Unstored(k) => Unstored(k)'
  BY WorkerKinds DEF Unstored, Moves
<1>3. \A x \in Workers \ {w} : Owes(x, i) => Owes(x, i)'
  BY StillOwes DEF Moves
<1>4. Current' = Current
  BY DEF Current
<1>5. overrun' = {} => overrun = {}
  OBVIOUS
<1> QED BY <1>1, <1>2, <1>3, <1>4, <1>5 DEF Promised

LEMMA StorePromise ==
  ASSUME TypeInv, AssocInv, NEW i \in Insts, Come(i), Promised(i), NEW k \in Kinds, Store(k)
  PROVE  Come(i)' /\ Promised(i)'
<1> USE WorkerKinds
<1>1. /\ pc[k] = "store"
      /\ UNCHANGED <<version, queue, stored, generated, dead>>
      /\ \/ /\ local[k].found = Nil
            /\ Moves(k, "idle", NoLocals)
            /\ \A n \in 1..Len(sets) : sets'[n] = sets[n]
            /\ overrun' = IF table[k] # Nil THEN overrun \cup {k} ELSE overrun
         \/ /\ local[k].found # Nil
            /\ Moves(k, "range", local[k])
            /\ UNCHANGED <<sets, overrun>>
  BY StoreStep
<1>2. pc'["inst"] = pc["inst"] /\ local'["inst"] = local["inst"]
  BY <1>1 DEF Moves
<1>3. Come(i)'
  BY <1>1, <1>2 DEF Come
<1>4. SUFFICES ASSUME overrun' = {}, i \notin queue["inst"] PROVE \E w \in Workers : Owes(w, i)'
  BY <1>1, <1>3 DEF Promised
<1>5. FoundThere(k) /\ Associated(k) /\ k \notin overrun
  BY <1>1, <1>4 DEF AssocInv
<1>6. CASE i \notin stored
  BY <1>2, <1>4, <1>6 DEF Come, Owes
<1>7. CASE Connecting(k, i)
  <2>1. local["inst"].it = i /\ pc["inst"] \in {"lookapp", "connectapp", "lookuser", "connectuser"}
    BY <1>7 DEF Connecting
  <2> QED BY <1>2, <2>1 DEF Owes
<1>8. CASE i \in stored /\ IsIn(k, i)
  <2>1. local[k].found # Nil
    BY <1>1, <1>4, <1>5, <1>8 DEF IsIn
  <2>2. i \in sets[local[k].found.set]
    BY <1>1, <1>5, <1>8, <2>1 DEF IsIn, FoundThere
  <2>3. pc'[k] = "range" /\ local'[k] = local[k] /\ sets' = sets /\ stored' = stored
    BY <1>1, <2>1 DEF Moves
  <2> QED BY <1>8, <2>2, <2>3 DEF Owes
<1> QED BY <1>5, <1>6, <1>7, <1>8 DEF Associated

LEMMA NextPromise ==
  TypeInv /\ AssocInv /\ VersionInv /\ PromiseInv /\ [Next]_vars => PromiseInv'
<1> USE WorkerKinds
<1> SUFFICES ASSUME TypeInv, AssocInv, VersionInv, PromiseInv, [Next]_vars, NEW i \in Insts
             PROVE  Come(i)' /\ Promised(i)'
  BY DEF PromiseInv
<1>0. Come(i) /\ Promised(i)
  BY DEF PromiseInv
<1>1. ASSUME NEW k \in Kinds, Update(k) PROVE Come(i)' /\ Promised(i)'
  <2>1. Unstored(k)'
    BY <1>1, UpdateStep DEF Unstored
  <2>2. queue'["inst"] = queue["inst"] /\ UNCHANGED <<stored, pc, local>>
    BY <1>1 DEF Update, TypeInv, Shared
  <2> QED BY <1>0, <2>1, <2>2 DEF Come, Promised
<1>2. ASSUME NEW w \in Workers, Reconcile(w) PROVE Come(i)' /\ Promised(i)'
  <2>1. /\ pc[w] = "idle" /\ pc'[w] = (IF w = "inst" THEN "put" ELSE "look")
        /\ queue' = [queue EXCEPT ![w] = @ \ {local'[w].it}]
        /\ Moves(w, pc'[w], local'[w])
    BY <1>2, ReconcileStep DEF Moves
  <2>2. UNCHANGED <<version, table, sets, stored, generated, overrun>>
    BY <1>2 DEF Reconcile
  <2>3. CASE w \in Kinds
    <3>1. Unstored(w)' /\ queue'["inst"] = queue["inst"]
      BY <2>1, <2>3 DEF Unstored, TypeInv, Shared
    <3> QED BY <1>0, <2>1, <2>2, <2>3, <3>1 DEF Come, Promised, Moves
  <2>4. CASE w = "inst"
    <3>1. \A k \in Kinds : Unstored(k)' <=> Unstored(k)
      BY <2>1, <2>4 DEF Unstored, Moves, TypeInv, Shared
    <3>2. \A x \in Kinds : Owes(x, i) => Owes(x, i)'
      BY <2>1, <2>2, <2>4, StillOwes DEF Moves
    <3>3. ~Owes("inst", i)
      BY <2>1, <2>4 DEF Owes, Handles
    <3>4. CASE local'["inst"].it = i
      BY <2>1, <2>4, <3>4 DEF Owes, Come, Promised
    <3>5. CASE local'["inst"].it # i
      <4>1. i \in queue'["inst"] <=> i \in queue["inst"]
        BY <2>1, <2>4, <3>5 DEF TypeInv, Shared
      <4>2. Come(i)'
        BY <1>0, <2>1, <2>2, <2>4, <4>1 DEF Come
      <4>3. Current' = Current /\ generated' = generated /\ overrun' = overrun
        BY <2>2 DEF Current
      <4> QED BY <1>0, <3>1, <3>2, <3>3, <4>1, <4>2, <4>3 DEF Promised
    <3> QED BY <3>4, <3>5
  <2> QED BY <2>3, <2>4
<1>3. ASSUME NEW k \in Kinds, Look(k) PROVE Come(i)' /\ Promised(i)'
  <2>1. Moves(k, "store", local'[k]) /\ UNCHANGED <<version, queue, sets, stored, generated, overrun>>
    BY <1>3, LookStep DEF Look
  <2>2. pc[k] = "look" /\ ~Owes(k, i)
    BY <1>3, LookStep DEF Owes, Handles
  <2> QED BY <1>0, <2>1, <2>2, PromiseKept DEF Moves
<1>4. ASSUME NEW k \in Kinds, Store(k) PROVE Come(i)' /\ Promised(i)'
  BY <1>0, <1>4, StorePromise
<1>5. ASSUME NEW k \in Kinds, RangeBegin(k) PROVE Come(i)' /\ Promised(i)'
  <2>1. /\ pc[k] = "range" /\ Moves(k, "ranging", local'[k])
        /\ local'[k].names = sets[local[k].found.set]
        /\ UNCHANGED <<version, queue, sets, stored, generated, overrun>>
    BY <1>5, RangeBeginStep DEF RangeBegin
  <2>2. Owes(k, i) => Owes(k, i)'
    BY <2>1 DEF Owes, Handles, Moves
  <2> QED BY <1>0, <2>1, <2>2, PromiseKept DEF Moves
<1>6. ASSUME NEW k \in Kinds, RangeEnd(k) PROVE Come(i)' /\ Promised(i)'
  <2>1. /\ pc[k] = "ranging" /\ Moves(k, "find", local'[k]) /\ local[k].names \subseteq local'[k].names
        /\ UNCHANGED <<version, queue, sets, stored, generated, overrun>>
    BY <1>6, RangeEndStep DEF RangeEnd
  <2>2. Owes(k, i) => Owes(k, i)'
    BY <2>1 DEF Owes, Handles, Moves
  <2> QED BY <1>0, <2>1, <2>2, PromiseKept DEF Moves
<1>7. ASSUME NEW k \in Kinds, Find(k) PROVE Come(i)' /\ Promised(i)'
  <2>1. /\ pc[k] = "find" /\ Moves(k, pc'[k], local'[k])
        /\ UNCHANGED <<version, queue, sets, stored, generated, overrun>>
        /\ \/ local[k].names = {} /\ pc'[k] = "next" /\ local'[k] = local[k]
           \/ /\ pc'[k] = "find"
              /\ \E j \in local[k].names :
                   /\ local'[k].names = local[k].names \ {j}
                   /\ local'[k].insts = local[k].insts \cup (IF j \in stored THEN {j} ELSE {})
    BY <1>7, FindStep DEF Find, Moves
  <2>2. Owes(k, i) => Owes(k, i)'
    BY <2>1 DEF Owes, Handles
  <2> QED BY <1>0, <2>1, <2>2, PromiseKept
<1>8. CASE Put
  <2>1. /\ pc["inst"] = "put" /\ Moves("inst", "lookapp", local["inst"])
        /\ stored' = stored \cup {local["inst"].it}
        /\ UNCHANGED <<version, queue, sets, generated, overrun>>
    BY <1>8, PutStep DEF Put
  <2>2. Owes("inst", i) => Owes("inst", i)'
    BY <2>1 DEF Owes, Handles, Moves
  <2> QED BY <1>0, <2>1, <2>2, PromiseKept DEF Moves
<1>9. ASSUME NEW k \in Kinds, LookUp(k) PROVE Come(i)' /\ Promised(i)'
  <2>1. /\ pc["inst"] = LookAt[k] /\ Moves("inst", ConnectAt[k], local'["inst"])
        /\ local'["inst"].it = local["inst"].it
        /\ UNCHANGED <<version, queue, sets, stored, generated, overrun>>
    BY <1>9, LookUpStep DEF LookUp
  <2>2. Owes("inst", i) => Owes("inst", i)'
    BY <2>1 DEF Owes, Handles, Moves
  <2> QED BY <1>0, <2>1, <2>2, PromiseKept DEF Moves
<1>10. ASSUME NEW k \in Kinds, Connect(k) PROVE Come(i)' /\ Promised(i)'
  <2>1. /\ pc["inst"] = ConnectAt[k] /\ Moves("inst", pc'["inst"], local'["inst"])
        /\ UNCHANGED <<version, queue, stored, generated>> /\ overrun \subseteq overrun'
        /\ \A n \in 1..Len(sets) : sets[n] \subseteq sets'[n]
        /\ \/ pc'["inst"] = "lookuser" /\ local'["inst"] = local["inst"]
           \/ pc'["inst"] = "next" /\ local'["inst"].insts = {local["inst"].it}
    BY <1>10, ConnectStep DEF Moves
  <2>2. Owes("inst", i) => Owes("inst", i)'
    BY <2>1 DEF Owes, Handles
  <2> QED BY <1>0, <2>1, <2>2, PromiseKept
<1>11. ASSUME NEW w \in Workers, NextCopy(w) PROVE Come(i)' /\ Promised(i)'
  <2>1. /\ pc[w] = "next" /\ Moves(w, pc'[w], local'[w])
        /\ UNCHANGED <<version, queue, sets, stored, generated, overrun>>
        /\ \/ local[w].insts = {}
           \/ /\ pc'[w] = "getapp"
              /\ local'[w].insts = local[w].insts \ {local'[w].inst}
    BY <1>11, NextCopyStep DEF NextCopy, Moves
  <2>2. Owes(w, i) => Owes(w, i)'
    BY <2>1 DEF Owes, Handles
  <2> QED BY <1>0, <2>1, <2>2, PromiseKept
<1>12. ASSUME NEW w \in Workers, GetApp(w) PROVE Come(i)' /\ Promised(i)'
  <2>1. /\ pc[w] = "getapp" /\ pc'[w] = "getuser" /\ Moves(w, pc'[w], local'[w])
        /\ local'[w].inst = local[w].inst /\ local'[w].insts = local[w].insts
        /\ local'[w].app = Object("app")
        /\ UNCHANGED <<version, queue, sets, stored, generated, overrun>>
    BY <1>12, GetAppStep DEF GetApp, Moves
  <2>2. (Owes(w, i) /\ overrun = {} /\ \A k \in Kinds : ~Unstored(k)) => Owes(w, i)'
    <3> SUFFICES ASSUME Owes(w, i), overrun = {}, ~Unstored("app") PROVE Owes(w, i)'
      OBVIOUS
    <3>1. Object("app") = version["app"]
      BY DEF VersionInv, Versioned
    <3> QED BY <2>1, <3>1 DEF Owes, Handles
  <2> QED BY <1>0, <2>1, <2>2, PromiseKept
<1>13. ASSUME NEW w \in Workers, GetUser(w) PROVE Come(i)' /\ Promised(i)'
  <2>1. /\ pc[w] = "getuser" /\ pc'[w] = "next" /\ Moves(w, pc'[w], local'[w])
        /\ local'[w] = local[w]
        /\ generated[i] \subseteq generated'[i]
        /\ local[w].app # Nil /\ Object("user") # Nil =>
              [app |-> local[w].app, user |-> Object("user")] \in generated'[local[w].inst]
        /\ UNCHANGED <<version, queue, sets, stored, overrun>>
    BY <1>13, GetUserStep DEF GetUser, Moves
  <2>2. (Owes(w, i) /\ overrun = {} /\ \A k \in Kinds : ~Unstored(k))
          => Owes(w, i)' \/ Current \in generated'[i]
    <3> SUFFICES ASSUME Owes(w, i), overrun = {}, ~Unstored("user")
                 PROVE  Owes(w, i)' \/ Current \in generated'[i]
      OBVIOUS
    <3>1. Object("user") = version["user"] /\ version["app"] # Nil /\ version["user"] # Nil
      BY NilApart DEF VersionInv, Versioned, TypeInv, Shared
    <3>2. i \in local[w].insts \/ (local[w].inst = i /\ local[w].app = version["app"])
      BY <2>1 DEF Owes, Handles
    <3> QED BY <2>1, <3>1, <3>2 DEF Owes, Handles, Current
  <2> QED BY <1>0, <2>1, <2>2, PromiseKept
<1>14. ASSUME UNCHANGED <<version, queue, pc, local, table, sets, stored, generated, overrun>>
       PROVE  Come(i)' /\ Promised(i)'
  <2>1. \A w \in Workers : Owes(w, i)' <=> Owes(w, i)
    BY <1>14 DEF Owes, Handles
  <2> QED BY <1>0, <1>14, <2>1 DEF Come, Promised, Unstored, Current
<1> QED BY <1>1, <1>2, <1>3, <1>4, <1>5, <1>6, <1>7, <1>8, <1>9, <1>10, <1>11, <1>12, <1>13, <1>14
        DEF Next, Fatal, vars

\* Unless an entry was overrun, every instance was generated from the app and the user
\* as they are when the workers rest: an object or an instance that the one worker
\* misses, the other finds.
THEOREM NothingElseLost == Spec => []GeneratedUnlessOverrun
<1>1. PromiseInv => GeneratedUnlessOverrun
  BY WorkerKinds DEF PromiseInv, Promised, Current, Unstored, Owes, Handles, GeneratedUnlessOverrun, AtRest
<1>2. Init => PromiseInv
  BY WorkerKinds DEF Init, PromiseInv, Come, Promised
<1>3. Init => TypeInv /\ AssocInv /\ VersionInv
  BY InitTyped, InitAssoc, InitVersioned
<1> QED BY <1>1, <1>2, <1>3, NextAssoc, NextVersioned, NextPromise, PTL DEF Spec
=============================================================================
