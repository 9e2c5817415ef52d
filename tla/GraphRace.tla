------------------------------ MODULE GraphRace ------------------------------
(***************************************************************************)
(* The operations of the object graph statement by statement.  appTable,    *)
(* userTable and instanceTable are Go maps that three workers share without *)
(* a lock; module ObjectGraph takes each operation on them as one step, and  *)
(* this one says what is lost by interleaving their statements.              *)
(*                                                                         *)
(* There is one app and one user, and instances that all name them.  An      *)
(* entry of a table holds the object and a pointer to the set of instances;  *)
(* AddApp and AddUser copy the entry, and AddInst adds to the set behind it. *)
(*                                                                         *)
(* Two statements that access one Go map, one of them writing it, are a data *)
(* race: the runtime may notice and end the process.  Otherwise they take    *)
(* effect in some order.                                                     *)
(***************************************************************************)
EXTENDS Naturals, Sequences, FiniteSets

CONSTANTS
  Insts,       \* instances
  MaxVersions, \* bound on the versions of the app and of the user
  Nil

ASSUME VersionsAssumption == MaxVersions \in Nat \ {0}
Kinds == {"app", "user"}
Workers == Kinds \cup {"inst"}
Other(k) == IF k = "app" THEN "user" ELSE "app"

\* An entry: the object's version, or Nil, and the set it points to.
Entry == [obj : (1..MaxVersions) \cup {Nil}, set : Nat \ {0}]

ASSUME NilApartAssumption == Nil \notin Nat \cup Insts \cup Entry

VARIABLES
  version,   \* kind -> the version on the API server
  queue,     \* worker -> what it has to reconcile
  pc,        \* worker -> the statement it is at
  local,     \* worker -> its local variables
  table,     \* kind -> the entry, or Nil
  sets,      \* the sets of instances allocated so far
  stored,    \* the instances in instanceTable
  generated, \* instance -> the versions its workload was generated from (history)
  overrun,   \* kinds whose entry was overwritten by a worker that had found none (history)
  dead       \* the runtime ended the process

vars == <<version, queue, pc, local, table, sets, stored, generated, overrun, dead>>

\* The object or instance being reconciled, the entry found, the instances read from
\* its set, the copies to handle, and the app and user looked up for one of them.
NoLocals == [it |-> Nil, found |-> Nil, names |-> {}, insts |-> {}, inst |-> Nil, app |-> Nil]

Goto(w, to) == pc' = [pc EXCEPT ![w] = to]
At(w, from) == ~dead /\ pc[w] = from

-----------------------------------------------------------------------------
(* Users change the app and the user; what changed is queued *)

Update(k) ==
  /\ ~dead
  /\ version[k] < MaxVersions
  /\ version' = [version EXCEPT ![k] = @ + 1]
  /\ queue' = [queue EXCEPT ![k] = {version[k] + 1}]
  /\ UNCHANGED <<pc, local, table, sets, stored, generated, overrun, dead>>

Reconcile(w) ==
  /\ At(w, "idle")
  /\ \E it \in queue[w] :
       /\ queue' = [queue EXCEPT ![w] = @ \ {it}]
       /\ local' = [local EXCEPT ![w] = [NoLocals EXCEPT !.it = it]]
  /\ Goto(w, IF w = "inst" THEN "put" ELSE "look")
  /\ UNCHANGED <<version, table, sets, stored, generated, overrun, dead>>

-----------------------------------------------------------------------------
(* AddApp, AddUser: addObjToMap *)

\* element, found := m[objName]
Look(k) ==
  /\ At(k, "look")
  /\ local' = [local EXCEPT ![k].found = table[k]]
  /\ Goto(k, "store")
  /\ UNCHANGED <<version, queue, table, sets, stored, generated, overrun, dead>>

\* Mutants of Store: the entry found is replaced by one with a new set; a new entry
\* gets no set; nothing is handed out.
StoreAfresh(k) ==
  /\ At(k, "store")
  /\ sets' = Append(sets, {})
  /\ table' = [table EXCEPT ![k] = [obj |-> local[k].it, set |-> Len(sets) + 1]]
  /\ overrun' = IF local[k].found = Nil /\ table[k] # Nil THEN overrun \cup {k} ELSE overrun
  /\ Goto(k, IF local[k].found = Nil THEN "idle" ELSE "range")
  /\ UNCHANGED <<version, queue, local, stored, generated, dead>>

StoreWithoutSet(k) ==
  /\ At(k, "store")
  /\ table' = [table EXCEPT ![k] = [obj |-> local[k].it, set |-> Len(sets) + 1]]
  /\ Goto(k, "idle")
  /\ UNCHANGED <<version, queue, local, sets, stored, generated, overrun, dead>>

StoreQuietly(k) ==
  /\ At(k, "store")
  /\ local[k].found # Nil
  /\ table' = [table EXCEPT ![k] = [local[k].found EXCEPT !.obj = local[k].it]]
  /\ Goto(k, "idle")
  /\ UNCHANGED <<version, queue, local, sets, stored, generated, overrun, dead>>

\* m[objName] = element: a new one, or the copy with the object in it.
Store(k) ==
  LET found == local[k].found IN
  /\ At(k, "store")
  /\ IF found = Nil
     THEN /\ sets' = Append(sets, {})
          /\ table' = [table EXCEPT ![k] = [obj |-> local[k].it, set |-> Len(sets) + 1]]
          /\ overrun' = IF table[k] # Nil THEN overrun \cup {k} ELSE overrun
          /\ local' = [local EXCEPT ![k] = NoLocals]
          /\ Goto(k, "idle")
     ELSE /\ table' = [table EXCEPT ![k] = [found EXCEPT !.obj = local[k].it]]
          /\ Goto(k, "range")
          /\ UNCHANGED <<sets, overrun, local>>
  /\ UNCHANGED <<version, queue, stored, generated, dead>>

\* for k := range element.InstSet: what is added meanwhile may or may not be seen.
RangeBegin(k) ==
  /\ At(k, "range")
  /\ local' = [local EXCEPT ![k].names = sets[local[k].found.set]]
  /\ Goto(k, "ranging")
  /\ UNCHANGED <<version, queue, table, sets, stored, generated, overrun, dead>>

RangeEnd(k) ==
  /\ At(k, "ranging")
  /\ \E more \in SUBSET sets[local[k].found.set] :
        local' = [local EXCEPT ![k].names = @ \cup more]
  /\ Goto(k, "find")
  /\ UNCHANGED <<version, queue, table, sets, stored, generated, overrun, dead>>

\* The copies of the instances that the instance table holds, one at a time.
Find(k) ==
  /\ At(k, "find")
  /\ IF local[k].names = {} THEN Goto(k, "next") /\ UNCHANGED local
     ELSE /\ \E i \in local[k].names :
               local' = [local EXCEPT ![k].names = @ \ {i},
                                      ![k].insts = IF i \in stored THEN @ \cup {i} ELSE @]
          /\ UNCHANGED pc
  /\ UNCHANGED <<version, queue, table, sets, stored, generated, overrun, dead>>

-----------------------------------------------------------------------------
(* AddInst: addInstToMap, then connectObj for the app and for the user *)

Put ==
  /\ At("inst", "put")
  /\ stored' = stored \cup {local["inst"].it}
  /\ Goto("inst", "lookapp")
  /\ UNCHANGED <<version, queue, local, table, sets, generated, overrun, dead>>

LookAt == [app |-> "lookapp", user |-> "lookuser"]
ConnectAt == [app |-> "connectapp", user |-> "connectuser"]

LookUp(k) ==
  /\ At("inst", LookAt[k])
  /\ local' = [local EXCEPT !["inst"].found = table[k]]
  /\ Goto("inst", ConnectAt[k])
  /\ UNCHANGED <<version, queue, table, sets, stored, generated, overrun, dead>>

\* A mutant of Connect: the entry found is written back with the instance added.
ConnectWritingBack(k) ==
  LET found == local["inst"].found
      i == local["inst"].it
  IN
  /\ At("inst", ConnectAt[k])
  /\ found # Nil
  /\ sets' = [sets EXCEPT ![found.set] = @ \cup {i}]
  /\ table' = [table EXCEPT ![k] = found]
  /\ IF k = "app" THEN Goto("inst", "lookuser") /\ UNCHANGED local
     ELSE Goto("inst", "next") /\ local' = [local EXCEPT !["inst"].insts = {i}]
  /\ UNCHANGED <<version, queue, stored, generated, overrun, dead>>

\* A new entry without object, or an addition to the set of the one found.
Connect(k) ==
  LET found == local["inst"].found
      i == local["inst"].it
  IN
  /\ At("inst", ConnectAt[k])
  /\ IF found = Nil
     THEN /\ sets' = Append(sets, {i})
          /\ table' = [table EXCEPT ![k] = [obj |-> Nil, set |-> Len(sets) + 1]]
          /\ overrun' = IF table[k] # Nil THEN overrun \cup {k} ELSE overrun
     ELSE /\ sets' = [sets EXCEPT ![found.set] = @ \cup {i}]
          /\ UNCHANGED <<table, overrun>>
  /\ IF k = "app" THEN Goto("inst", "lookuser") /\ UNCHANGED local
     ELSE Goto("inst", "next") /\ local' = [local EXCEPT !["inst"].insts = {i}]
  /\ UNCHANGED <<version, queue, stored, generated, dead>>

-----------------------------------------------------------------------------
(* CreateDerivatives on each copy: GenerateArtifacts looks up app and user *)

Object(k) == IF table[k] = Nil THEN Nil ELSE table[k].obj

\* Nothing is left of the loop, or the next copy is taken up.
NextCopy(w) ==
  /\ At(w, "next")
  /\ IF local[w].insts = {} THEN Goto(w, "idle") /\ local' = [local EXCEPT ![w] = NoLocals]
     ELSE /\ \E i \in local[w].insts :
               local' = [local EXCEPT ![w].insts = @ \ {i}, ![w].inst = i]
          /\ Goto(w, "getapp")
  /\ UNCHANGED <<version, queue, table, sets, stored, generated, overrun, dead>>

GetApp(w) ==
  /\ At(w, "getapp")
  /\ local' = [local EXCEPT ![w].app = Object("app")]
  /\ Goto(w, "getuser")
  /\ UNCHANGED <<version, queue, table, sets, stored, generated, overrun, dead>>

GetUser(w) ==
  LET app == local[w].app
      user == Object("user")
  IN
  /\ At(w, "getuser")
  /\ generated' = IF app = Nil \/ user = Nil THEN generated
                  ELSE [generated EXCEPT ![local[w].inst] = @ \cup {[app |-> app, user |-> user]}]
  /\ Goto(w, "next")
  /\ UNCHANGED <<version, queue, local, table, sets, stored, overrun, dead>>

-----------------------------------------------------------------------------
(* Data races on the Go maps *)

Map(name, mode) == [map |-> name, mode |-> mode]

\* The Go map that the statement a worker is at accesses, and how.
Access(w) ==
  CASE pc[w] = "look" -> Map(<<w, 0>>, "read")
    [] pc[w] = "store" -> Map(<<w, 0>>, "write")
    [] pc[w] \in {"range", "ranging"} -> Map(<<w, local[w].found.set>>, "read")
    [] pc[w] = "find" -> Map(<<"inst", 0>>, "read")
    [] pc[w] = "put" -> Map(<<"inst", 0>>, "write")
    [] \E k \in Kinds : pc[w] = LookAt[k] ->
         Map(<<CHOOSE k \in Kinds : pc[w] = LookAt[k], 0>>, "read")
    [] \E k \in Kinds : pc[w] = ConnectAt[k] ->
         LET k == CHOOSE k \in Kinds : pc[w] = ConnectAt[k]
         IN  Map(<<k, IF local[w].found = Nil THEN 0 ELSE local[w].found.set>>, "write")
    [] pc[w] = "getapp" -> Map(<<"app", 0>>, "read")
    [] pc[w] = "getuser" -> Map(<<"user", 0>>, "read")
    [] OTHER -> Nil

DataRace ==
  \E v, w \in Workers :
    /\ v # w /\ Access(v) # Nil /\ Access(w) # Nil
    /\ Access(v).map = Access(w).map
    /\ Access(v).mode = "write"

\* "fatal error: concurrent map writes".  Module Reconcilers restarts the process.
Fatal ==
  /\ ~dead /\ DataRace
  /\ dead' = TRUE
  /\ UNCHANGED <<version, queue, pc, local, table, sets, stored, generated, overrun>>

-----------------------------------------------------------------------------
Init ==
  /\ version = [k \in Kinds |-> 1]
  /\ queue = [w \in Workers |-> IF w = "inst" THEN Insts ELSE {1}]
  /\ pc = [w \in Workers |-> "idle"]
  /\ local = [w \in Workers |-> NoLocals]
  /\ table = [k \in Kinds |-> Nil]
  /\ sets = <<>>
  /\ stored = {}
  /\ generated = [i \in Insts |-> {}]
  /\ overrun = {}
  /\ dead = FALSE

Next ==
  \/ \E k \in Kinds : \/ Update(k)
                      \/ Look(k) \/ Store(k) \/ RangeBegin(k) \/ RangeEnd(k) \/ Find(k)
                      \/ LookUp(k) \/ Connect(k)
  \/ Put
  \/ \E w \in Workers : Reconcile(w) \/ NextCopy(w) \/ GetApp(w) \/ GetUser(w)
  \/ Fatal

Spec == Init /\ [][Next]_vars

-----------------------------------------------------------------------------
(* Properties *)

Labels == {"idle", "look", "store", "range", "ranging", "find", "put", "lookapp", "connectapp",
           "lookuser", "connectuser", "next", "getapp", "getuser"}

\* Types; every entry points to a set that was allocated.
TypeOK ==
  /\ version \in [Kinds -> 1..MaxVersions]
  /\ \A k \in Kinds : queue[k] \subseteq 1..MaxVersions
  /\ queue["inst"] \subseteq Insts /\ stored \subseteq Insts
  /\ pc \in [Workers -> Labels]
  /\ table \in [Kinds -> Entry \cup {Nil}]
  /\ \A k \in Kinds : table[k] # Nil => table[k].set \in DOMAIN sets
  /\ \A n \in DOMAIN sets : sets[n] \subseteq Insts
  /\ generated \in [Insts -> SUBSET [app : 1..MaxVersions, user : 1..MaxVersions]]
  /\ overrun \subseteq Kinds /\ dead \in BOOLEAN

AtRest == \A w \in Workers : queue[w] = {} /\ pc[w] = "idle"

\* The one thing lost by interleaving: unless a worker that found no entry wrote its
\* own over one that was made meanwhile, every instance's workload was, by the time
\* the workers rest, generated from the app and the user as they are, whatever the
\* interleaving of the statements and whatever the iteration over a set that grows
\* has seen.
GeneratedUnlessOverrun ==
  (AtRest /\ ~dead /\ overrun = {}) =>
    \A i \in Insts : [app |-> version["app"], user |-> version["user"]] \in generated[i]

\* Even an overrun entry is not a wrong one: an app or user in the table is the
\* latest that its own worker stored, or is missing.
NeverAnOldObject ==
  \A k \in Kinds : (pc[k] = "idle" /\ queue[k] = {} /\ Object(k) # Nil) => Object(k) = version[k]

\* An instance is missing from the set of its app or user only if the entry was
\* overrun: additions through a pointer read before the object was stored are kept.
AssociatedUnlessOverrun ==
  \A k \in Kinds : \A i \in Insts :
    (pc["inst"] = "idle" /\ i \in stored /\ k \notin overrun) => i \in sets[table[k].set]
=============================================================================
