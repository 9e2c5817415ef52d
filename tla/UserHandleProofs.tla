--------------------------- MODULE UserHandleProofs ---------------------------
(***************************************************************************)
(* The plug-in's mutex does what it is for: searches see one configuration,  *)
(* and loads leave one, for any number of workers, probes and files.          *)
(***************************************************************************)
EXTENDS UserHandle, TLAPS

Holds(c) == request[c].pc \in Fields \cup {"reply", "hung", "decode"}
Decoding == \E p \in Probes : request[p].pc = "decode"

\* Where goroutines can be; there are none while the plug-in is down.
States ==
  /\ \A w \in Workers : request[w].pc # "decode"
  /\ \A p \in Probes : request[p].pc \in {"none", "lock", "decode"}
  /\ ~serving => \A c \in Clients : request[c].pc = "none"

MutexHeld == \A c \in Clients : Holds(c) => mutex = c

\* What a search has used so far is what the configuration still says.
Snapshot ==
  \A w \in Workers :
    /\ request[w].pc \in {"lock", "reply"} \cup Fields => config \in request[w].seen \/ Decoding
    /\ request[w].pc \in {"BindDN", "BaseDN", "reply"} => request[w].used["Host"] = config["Host"]
    /\ request[w].pc \in {"BaseDN", "reply"} => request[w].used["BindDN"] = config["BindDN"]
    /\ request[w].pc = "reply" => request[w].used["BaseDN"] = config["BaseDN"]

\* What a load has decoded so far is what the configuration still says.
DecodedSoFar ==
  \A p \in Probes : request[p].read \in Loadable =>
    /\ request[p].pc = "lock" => request[p].left = Fields
    /\ request[p].pc = "decode" =>
         \A f \in Fields \ request[p].left :
           request[p].read[f] \in Values => config[f] = request[p].read[f]

IInv == TypeOK /\ States /\ MutexHeld /\ Snapshot /\ DecodedSoFar /\ ServesConfigured

-----------------------------------------------------------------------------
\* A loadable file has a value for each field or lacks it.
LEMMA LoadableFields ==
  ASSUME NEW F \in Loadable, NEW f \in Fields
  PROVE  F[f] \in Values \cup {Absent}
BY FilesAssumption DEF Loadable

LEMMA LoadsType ==
  ASSUME NEW F \in Loadable
  PROVE  /\ Loads(F) \in Config
         /\ \A f \in Fields : Loads(F)[f] = Zero => F[f] = Absent
<1>1. \A f \in Fields : F[f] \in Values \cup {Absent}
  BY LoadableFields
<1>2. \A f \in Fields : Loads(F)[f] = IF F[f] = Absent THEN Zero ELSE F[f]
  BY DEF Loads
<1>3. Zero \notin Values
  BY FilesAssumption
<1> QED BY <1>1, <1>2, <1>3 DEF Config, Loads

LEMMA NoRequestType == NoRequest \in Requests
BY DEF NoRequest, Requests, NoConfig, Config

-----------------------------------------------------------------------------
(* Type correctness *)

LEMMA InitTypeOK == Init => TypeOK
<1> SUFFICES ASSUME Init PROVE TypeOK
  OBVIOUS
<1>1. request \in [Clients -> Requests]
  BY NoRequestType DEF Init
<1>2. changes \in 0..MaxChanges /\ stops \in 0..MaxStops
  BY BoundsAssumption DEF Init
<1>3. config \in Config
  BY DEF Init, NoConfig, Config
<1>4. context \in [Workers -> BOOLEAN]
  BY DEF Init
<1> QED BY <1>1, <1>2, <1>3, <1>4 DEF Init, TypeOK

\* A goroutine's record, changed in one of the ways of the actions.
LEMMA RequestTypes ==
  ASSUME TypeOK, NEW c \in Clients
  PROVE  /\ \A pc \in {"none", "lock", "decode", "reply", "hung"} \cup Fields :
              [request[c] EXCEPT !.pc = pc] \in Requests
         /\ \A f \in Fields : [request[c] EXCEPT !.left = @ \ {f}] \in Requests
         /\ [request[c] EXCEPT !.seen = @ \cup {config}] \in Requests
BY DEF TypeOK, Requests

LEMMA AskType ==
  ASSUME TypeOK, NEW w \in Workers, NEW f \in Fields, Ask(w, f)
  PROVE  /\ request' \in [Clients -> Requests]
         /\ request'[w].pc = AfterField[f]
         /\ request'[w].seen = request[w].seen
         /\ request'[w].used[f] = config[f]
         /\ \A g \in Fields \ {f} : request'[w].used[g] = request[w].used[g]
         /\ \A c \in Clients \ {w} : request'[c] = request[c]
<1> DEFINE used == [request[w].used EXCEPT ![f] = config[f]]
           r == [request[w] EXCEPT !.used = used, !.pc = AfterField[f]]
<1>1. w \in Clients
  BY DEF Clients
<1>2. request[w] \in Requests /\ request[w].used \in Config /\ config \in Config
  BY <1>1 DEF TypeOK, Requests
<1>3. used \in Config
  BY <1>2 DEF Config
<1>4. AfterField[f] \in {"reply"} \cup Fields
  BY DEF AfterField, Fields
<1>5. r \in Requests
  BY <1>2, <1>3, <1>4 DEF Requests
<1>6. request' = [request EXCEPT ![w] = r]
  BY <1>1, <1>2 DEF Ask, TypeOK
<1>7. r.pc = AfterField[f] /\ r.used = used /\ r.seen = request[w].seen
  BY <1>2 DEF Requests
<1> HIDE DEF r
<1>8. request \in [Clients -> Requests]
  BY DEF TypeOK
<1>9. /\ request' \in [Clients -> Requests] /\ request'[w] = r
      /\ \A c \in Clients \ {w} : request'[c] = request[c]
  BY <1>1, <1>5, <1>6, <1>8
<1> QED BY <1>2, <1>7, <1>9 DEF Config

LEMMA NextTypeOK == TypeOK /\ [Next]_vars => TypeOK'
<1> SUFFICES ASSUME TypeOK, [Next]_vars PROVE TypeOK'
  OBVIOUS
<1>t. /\ request \in [Clients -> Requests] /\ context \in [Workers -> BOOLEAN]
      /\ config \in Config /\ mutex \in Clients \cup {Nil}
  BY DEF TypeOK
<1>c. Workers \subseteq Clients /\ Probes \subseteq Clients
  BY DEF Clients
<1>0. CASE UNCHANGED vars
  BY <1>0 DEF vars, plugin, TypeOK
<1>1. CASE \E F \in Files : SetFile(F)
  BY <1>1, BoundsAssumption DEF SetFile, plugin, TypeOK
<1>2. CASE Stop
  <2>1. request' \in [Clients -> Requests]
    BY <1>2, NoRequestType DEF Stop
  <2>2. config' \in Config
    BY <1>2 DEF Stop, NoConfig, Config
  <2>3. stops' \in 0..MaxStops
    BY <1>2, BoundsAssumption DEF Stop, TypeOK
  <2>4. context' \in [Workers -> BOOLEAN]
    BY <1>2, <1>t DEF Stop
  <2> QED BY <1>2, <2>1, <2>2, <2>3, <2>4 DEF Stop, TypeOK
<1>3. CASE Start
  BY <1>3, LoadsType DEF Start, TypeOK
<1>4. CASE \E c \in Clients : Lock(c)
  <2> PICK c \in Clients : Lock(c)
    BY <1>4
  <2>1. (IF c \in Workers THEN "Host" ELSE "decode") \in {"decode"} \cup Fields
    BY DEF Fields
  <2>2. request' \in [Clients -> Requests]
    BY <2>1, <1>t, RequestTypes DEF Lock
  <2> QED BY <2>2 DEF Lock, TypeOK
<1>5. CASE \E w \in Workers : Fetch(w)
  <2> PICK w \in Workers : Fetch(w)
    BY <1>5
  <2>1. InPlace \subseteq Config
    BY <1>t DEF InPlace
  <2>2. [NoRequest EXCEPT !.pc = "lock", !.seen = InPlace] \in Requests
    BY <2>1, NoRequestType DEF Requests
  <2>3. request' \in [Clients -> Requests] /\ context' \in [Workers -> BOOLEAN]
    BY <2>2, <1>t DEF Fetch
  <2> QED BY <2>3 DEF Fetch, plugin, TypeOK
<1>6. CASE \E w \in Workers : \E f \in Fields : Ask(w, f)
  <2> PICK w \in Workers, f \in Fields : Ask(w, f)
    BY <1>6
  <2>1. request' \in [Clients -> Requests]
    BY AskType
  <2> QED BY <2>1 DEF Ask, plugin, TypeOK
<1>7. CASE \E w \in Workers : Answer(w) \/ Fail(w)
  <2> PICK w \in Workers : Answer(w) \/ Fail(w)
    BY <1>7
  <2>1. request' \in [Clients -> Requests] /\ context' \in [Workers -> BOOLEAN]
    BY <1>t, NoRequestType DEF Answer, Fail
  <2> QED BY <2>1 DEF Answer, Fail, TypeOK
<1>8. CASE \E w \in Workers : Hang(w)
  <2> PICK w \in Workers : Hang(w)
    BY <1>8
  <2>1. request' \in [Clients -> Requests]
    BY <1>t, <1>c, RequestTypes DEF Hang
  <2> QED BY <2>1 DEF Hang, plugin, TypeOK
<1>9. CASE \E p \in Probes : Probe(p)
  <2> PICK p \in Probes : Probe(p)
    BY <1>9
  <2>1. [NoRequest EXCEPT !.pc = "lock", !.read = file,
           !.left = IF file = Garbled THEN {} ELSE Fields] \in Requests
    BY NoRequestType DEF Requests, TypeOK
  <2>2. request' \in [Clients -> Requests]
    BY <2>1, <1>t DEF Probe
  <2> QED BY <2>2 DEF Probe, plugin, TypeOK
<1>10. CASE \E p \in Probes : \E f \in Fields : Decode(p, f)
  <2> PICK p \in Probes, f \in Fields : Decode(p, f)
    BY <1>10
  <2>1. config' \in Config
    BY <1>t DEF Decode, Config
  <2>2. request' \in [Clients -> Requests]
    BY <1>t, <1>c, RequestTypes DEF Decode
  <2> QED BY <2>1, <2>2 DEF Decode, TypeOK
<1>11. CASE \E p \in Probes : Loaded(p)
  <2> PICK p \in Probes : Loaded(p)
    BY <1>11
  <2>1. request' \in [Clients -> Requests]
    BY <1>t, NoRequestType, RequestTypes DEF Loaded
  <2> QED BY <2>1 DEF Loaded, TypeOK
<1> QED
  BY <1>0, <1>1, <1>2, <1>3, <1>4, <1>5, <1>6, <1>7, <1>8, <1>9, <1>10, <1>11
     DEF Next, Serve, Load

\* The plug-in's type invariant (every action of the plug-in and its clients).
THEOREM TypeCorrect == Spec => []TypeOK
<1>1. Init => TypeOK
  BY InitTypeOK
<1>2. TypeOK /\ [Next]_vars => TypeOK'
  BY NextTypeOK
<1> QED BY <1>1, <1>2, PTL DEF Spec

-----------------------------------------------------------------------------
(* The mutex, and what it protects *)

LEMMA InitIInv == Init => IInv
<1> SUFFICES ASSUME Init PROVE IInv
  OBVIOUS
<1>1. TypeOK
  BY InitTypeOK
<1>2. \A c \in Clients : request[c].pc = "none"
  BY DEF Init, NoRequest
<1>3. States /\ MutexHeld /\ Snapshot /\ DecodedSoFar
  BY <1>2 DEF States, MutexHeld, Snapshot, DecodedSoFar, Holds, Fields, Clients
<1>4. ServesConfigured
  BY DEF Init, ServesConfigured
<1> QED BY <1>1, <1>3, <1>4 DEF IInv

Others(c) == \A d \in Clients \ {c} : request'[d] = request[d]

\* Only the holder of the mutex searches or decodes.
LEMMA OneHolder ==
  ASSUME IInv, NEW c \in Clients, NEW d \in Clients, Holds(c), Holds(d)
  PROVE  c = d
BY DEF IInv, MutexHeld

LEMMA NobodyHolds ==
  ASSUME IInv, mutex = Nil, NEW c \in Clients
  PROVE  ~Holds(c)
BY ClientsAssumption DEF IInv, MutexHeld

Clean == States' /\ MutexHeld' /\ Snapshot' /\ DecodedSoFar' /\ ServesConfigured'

LEMMA ClientsAre ==
  /\ Workers \subseteq Clients /\ Probes \subseteq Clients
  /\ Clients = Workers \cup Probes /\ Workers \cap Probes = {} /\ Nil \notin Clients
BY ClientsAssumption DEF Clients

\* Without goroutines there is nothing to keep.
LEMMA IdleKeeps ==
  ASSUME \A c \in Clients : request'[c].pc = "none", ServesConfigured'
  PROVE  Clean
BY ClientsAre DEF Clean, States, MutexHeld, Snapshot, DecodedSoFar, Holds, Fields

LEMMA StopKeeps ==
  ASSUME Stop PROVE Clean
<1>1. \A c \in Clients : request'[c].pc = "none"
  BY DEF Stop, NoRequest
<1>2. ServesConfigured'
  BY DEF Stop, ServesConfigured
<1> QED BY <1>1, <1>2, IdleKeeps

LEMMA StartKeeps ==
  ASSUME IInv, Start PROVE Clean
<1>1. \A c \in Clients : request'[c].pc = "none"
  BY DEF Start, IInv, States
<1>2. ServesConfigured'
  BY LoadsType DEF Start, ServesConfigured
<1> QED BY <1>1, <1>2, IdleKeeps

LEMMA LockKeeps ==
  ASSUME IInv, NEW c \in Clients, Lock(c)
  PROVE  Clean
<1>t. request \in [Clients -> Requests]
  BY DEF IInv, TypeOK
<1>1. /\ Others(c)
      /\ request'[c].pc = IF c \in Workers THEN "Host" ELSE "decode"
      /\ request'[c].seen = request[c].seen /\ request'[c].used = request[c].used
      /\ request'[c].read = request[c].read /\ request'[c].left = request[c].left
  BY <1>t DEF Lock, Others, Requests
<1>2. request[c].pc = "lock" /\ mutex = Nil /\ mutex' = c /\ UNCHANGED <<config, serving, started>>
  BY DEF Lock
<1>3. ~Decoding
  BY <1>2, ClientsAre, NobodyHolds DEF Decoding, Holds
<1>4. States'
  BY <1>1, <1>2, ClientsAre DEF IInv, States, Others, Fields
<1>5. MutexHeld'
  <2> SUFFICES ASSUME NEW d \in Clients, Holds(d)', d # c PROVE FALSE
    BY <1>2 DEF MutexHeld
  <2>1. request'[d] = request[d]
    BY <1>1 DEF Others
  <2> QED BY <2>1, <1>2, NobodyHolds DEF Holds
<1>6. Snapshot'
  <2> SUFFICES ASSUME NEW w \in Workers PROVE
        /\ request'[w].pc \in {"lock", "reply"} \cup Fields => config \in request'[w].seen \/ Decoding'
        /\ request'[w].pc \notin {"BindDN", "BaseDN", "reply"} \/ request'[w] = request[w]
    BY <1>2 DEF IInv, Snapshot
  <2>1. CASE w = c
    <3>1. config \in request[w].seen
      BY <2>1, <1>2, <1>3 DEF IInv, Snapshot
    <3> QED BY <3>1, <2>1, <1>1
  <2>2. CASE w # c
    <3>1. request'[w] = request[w]
      BY <2>2, <1>1, ClientsAre DEF Others
    <3> QED BY <3>1, <1>3 DEF IInv, Snapshot
  <2> QED BY <2>1, <2>2
<1>7. DecodedSoFar'
  <2> SUFFICES ASSUME NEW p \in Probes, request'[p].read \in Loadable PROVE
        /\ request'[p].pc = "lock" => request'[p].left = Fields
        /\ request'[p].pc = "decode" => request'[p].left = Fields
    BY DEF DecodedSoFar, Loadable
  <2>1. p \in Clients /\ p \notin Workers
    BY ClientsAre
  <2>2. CASE p = c
    <3>1. request[p].left = Fields
      BY <2>2, <1>1, <1>2 DEF IInv, DecodedSoFar
    <3> QED BY <3>1, <2>2, <1>1
  <2>3. CASE p # c
    <3>1. request'[p] = request[p]
      BY <2>1, <2>3, <1>1 DEF Others
    <3>2. request[p].pc # "decode"
      BY <2>1, <1>2, NobodyHolds DEF Holds
    <3> QED BY <3>1, <3>2 DEF IInv, DecodedSoFar
  <2> QED BY <2>2, <2>3
<1>8. ServesConfigured'
  BY <1>2 DEF IInv, ServesConfigured
<1> QED BY <1>4, <1>5, <1>6, <1>7, <1>8 DEF Clean

\* A worker's step that leaves the configuration alone: what is left to show of it
\* is what the worker itself has used, and who holds the mutex.
LEMMA WorkerKeeps ==
  ASSUME IInv, NEW w \in Workers, Others(w), UNCHANGED <<config, serving, started>>,
         request'[w].pc # "decode", serving \/ request'[w].pc = "none",
         MutexHeld',
         request'[w].pc \in {"lock", "reply"} \cup Fields => config \in request'[w].seen \/ Decoding,
         request'[w].pc \in {"BindDN", "BaseDN", "reply"} =>
           request'[w].used["Host"] = config["Host"],
         request'[w].pc \in {"BaseDN", "reply"} => request'[w].used["BindDN"] = config["BindDN"],
         request'[w].pc = "reply" => request'[w].used["BaseDN"] = config["BaseDN"]
  PROVE  Clean
<1>1. \A p \in Probes : request'[p] = request[p]
  BY ClientsAre DEF Others
<1>2. \A v \in Workers \ {w} : request'[v] = request[v]
  BY ClientsAre DEF Others
<1>3. Decoding' = Decoding
  BY <1>1 DEF Decoding
<1>4. States'
  <2>1. \A v \in Workers : request'[v].pc # "decode"
    BY <1>2 DEF IInv, States
  <2>2. \A p \in Probes : request'[p].pc \in {"none", "lock", "decode"}
    BY <1>1 DEF IInv, States
  <2>3. ASSUME ~serving', NEW c \in Clients PROVE request'[c].pc = "none"
    BY <2>3 DEF IInv, States, Others
  <2> QED BY <2>1, <2>2, <2>3 DEF States
<1>5. Snapshot'
  <2> SUFFICES ASSUME NEW v \in Workers, v # w PROVE
        /\ request'[v].pc \in {"lock", "reply"} \cup Fields => config' \in request'[v].seen \/ Decoding'
        /\ request'[v].pc \in {"BindDN", "BaseDN", "reply"} =>
             request'[v].used["Host"] = config'["Host"]
        /\ request'[v].pc \in {"BaseDN", "reply"} => request'[v].used["BindDN"] = config'["BindDN"]
        /\ request'[v].pc = "reply" => request'[v].used["BaseDN"] = config'["BaseDN"]
    BY <1>3 DEF Snapshot
  <2> QED BY <1>2, <1>3 DEF IInv, Snapshot
<1>6. DecodedSoFar'
  <2>1. DecodedSoFar
    BY DEF IInv
  <2> QED BY <2>1, <1>1 DEF DecodedSoFar, Loadable
<1>7. ServesConfigured'
  BY DEF IInv, ServesConfigured
<1> QED BY <1>4, <1>5, <1>6, <1>7 DEF Clean

LEMMA FetchKeeps ==
  ASSUME IInv, NEW w \in Workers, Fetch(w)
  PROVE  Clean
<1>t. request \in [Clients -> Requests] /\ w \in Clients
  BY ClientsAre DEF IInv, TypeOK
<1>u. UNCHANGED <<config, serving, started, mutex>>
  BY DEF Fetch, plugin
<1>1. CASE serving
  <2>1. /\ Others(w)
        /\ request'[w].pc = "lock" /\ request'[w].seen = InPlace
    BY <1>1, <1>t DEF Fetch, Others, NoRequest
  <2>2. config \in InPlace \/ Decoding
    BY DEF InPlace, Decoding
  <2>3. MutexHeld'
    BY <2>1, <1>u DEF IInv, MutexHeld, Holds, Others, Fields
  <2> QED BY <2>1, <2>2, <2>3, <1>1, <1>u, WorkerKeeps
<1>2. CASE ~serving
  <2>1. request' = request
    BY <1>2 DEF Fetch
  <2>2. \A c \in Clients : request'[c].pc = "none"
    BY <2>1, <1>2 DEF IInv, States
  <2>3. ServesConfigured'
    BY <1>u DEF IInv, ServesConfigured
  <2> QED BY <2>2, <2>3, IdleKeeps
<1> QED BY <1>1, <1>2

LEMMA AskKeeps ==
  ASSUME IInv, NEW w \in Workers, NEW f \in Fields, Ask(w, f)
  PROVE  Clean
<1>c. w \in Clients
  BY ClientsAre
<1>u. UNCHANGED <<config, serving, started, mutex>> /\ request[w].pc = f
  BY DEF Ask, plugin
<1>1. /\ Others(w)
      /\ request'[w].pc = AfterField[f] /\ request'[w].seen = request[w].seen
      /\ request'[w].used[f] = config[f]
      /\ \A g \in Fields \ {f} : request'[w].used[g] = request[w].used[g]
  BY AskType DEF IInv, Others
<1>2. mutex = w
  BY <1>c, <1>u DEF IInv, MutexHeld, Holds
<1>3. MutexHeld'
  BY <1>1, <1>2, <1>u DEF IInv, MutexHeld, Holds, Others
<1>4. config \in request'[w].seen \/ Decoding
  BY <1>1, <1>u DEF IInv, Snapshot
<1>5. serving
  BY <1>c, <1>u DEF IInv, States, Fields
<1>6. /\ f = "Host" => AfterField[f] = "BindDN"
      /\ f = "BindDN" => AfterField[f] = "BaseDN"
      /\ f = "BaseDN" => AfterField[f] = "reply"
  BY DEF AfterField
<1>7. f \in {"Host", "BindDN", "BaseDN"} /\ Fields = {"Host", "BindDN", "BaseDN"}
  BY DEF Fields
<1>8. /\ f \in {"BindDN", "BaseDN"} => request[w].used["Host"] = config["Host"]
      /\ f = "BaseDN" => request[w].used["BindDN"] = config["BindDN"]
  BY <1>u DEF IInv, Snapshot
<1>9. /\ request'[w].pc # "decode"
      /\ request'[w].pc \in {"BindDN", "BaseDN", "reply"} =>
           request'[w].used["Host"] = config["Host"]
      /\ request'[w].pc \in {"BaseDN", "reply"} => request'[w].used["BindDN"] = config["BindDN"]
      /\ request'[w].pc = "reply" => request'[w].used["BaseDN"] = config["BaseDN"]
  BY <1>1, <1>6, <1>7, <1>8
<1> QED BY <1>1, <1>3, <1>4, <1>5, <1>9, <1>u, WorkerKeeps

\* Whoever leaves gives the mutex back.
LEMMA LeaveKeeps ==
  ASSUME IInv, NEW w \in Workers, Answer(w) \/ Fail(w)
  PROVE  Clean
<1>t. request \in [Clients -> Requests] /\ w \in Clients
  BY ClientsAre DEF IInv, TypeOK
<1>1. /\ Others(w) /\ request'[w].pc = "none" /\ Holds(w)
      /\ UNCHANGED <<config, serving, started>>
  BY <1>t DEF Answer, Fail, Searching, Others, NoRequest, Holds
<1>2. MutexHeld'
  <2> SUFFICES ASSUME NEW d \in Clients, Holds(d)' PROVE FALSE
    BY DEF MutexHeld
  <2>1. d # w
    BY <1>1 DEF Holds, Fields
  <2>2. request'[d] = request[d]
    BY <2>1, <1>1 DEF Others
  <2> QED BY <2>1, <2>2, <1>1, <1>t, OneHolder DEF Holds
<1> QED BY <1>1, <1>2, WorkerKeeps DEF Fields

LEMMA HangKeeps ==
  ASSUME IInv, NEW w \in Workers, Hang(w)
  PROVE  Clean
<1>t. request \in [Clients -> Requests] /\ w \in Clients
  BY ClientsAre DEF IInv, TypeOK
<1>1. /\ Others(w) /\ request'[w].pc = "hung" /\ request[w].pc \in Fields
      /\ UNCHANGED <<config, serving, started, mutex>>
  BY <1>t DEF Hang, Searching, Others, Requests, plugin
<1>2. mutex = w
  BY <1>1, <1>t DEF IInv, MutexHeld, Holds
<1>3. MutexHeld'
  BY <1>1, <1>2 DEF IInv, MutexHeld, Holds, Others
<1>4. serving
  BY <1>1, <1>t DEF IInv, States, Fields
<1> QED BY <1>1, <1>3, <1>4, WorkerKeeps DEF Fields

LEMMA ProbeKeeps ==
  ASSUME IInv, NEW p \in Probes, Probe(p)
  PROVE  Clean
<1>t. request \in [Clients -> Requests] /\ p \in Clients /\ p \notin Workers
  BY ClientsAre DEF IInv, TypeOK
<1>1. /\ Others(p) /\ serving /\ request[p].pc = "none"
      /\ request'[p].pc = "lock" /\ request'[p].read = file
      /\ request'[p].left = IF file = Garbled THEN {} ELSE Fields
      /\ UNCHANGED <<config, serving, started, mutex>>
  BY <1>t DEF Probe, Others, NoRequest, plugin
<1>2. Decoding' = Decoding
  BY <1>1, <1>t, ClientsAre DEF Decoding, Others
<1>3. States'
  BY <1>1, <1>t, ClientsAre DEF IInv, States, Others
<1>4. MutexHeld'
  BY <1>1 DEF IInv, MutexHeld, Holds, Others, Fields
<1>5. Snapshot'
  <2>1. \A w \in Workers : request'[w] = request[w]
    BY <1>1, <1>t, ClientsAre DEF Others
  <2>2. Snapshot
    BY DEF IInv
  <2> QED BY <2>1, <2>2, <1>1, <1>2 DEF Snapshot
<1>6. DecodedSoFar'
  <2>1. \A q \in Probes \ {p} : request'[q] = request[q]
    BY <1>1, ClientsAre DEF Others
  <2>2. Garbled \notin Loadable
    BY DEF Loadable
  <2>3. DecodedSoFar /\ Loadable' = Loadable
    BY DEF IInv, Loadable
  <2> QED BY <2>1, <2>2, <2>3, <1>1 DEF DecodedSoFar
<1>7. ServesConfigured'
  BY <1>1 DEF IInv, ServesConfigured
<1> QED BY <1>3, <1>4, <1>5, <1>6, <1>7 DEF Clean

\* While a probe decodes nobody has used anything yet, and nobody else decodes.
LEMMA DecoderIsAlone ==
  ASSUME IInv, NEW p \in Probes, request[p].pc = "decode"
  PROVE  /\ mutex = p
         /\ \A w \in Workers : request[w].pc \in {"none", "lock"} \/ ~Holds(w)
         /\ \A c \in Clients \ {p} : ~Holds(c)
BY ClientsAre DEF IInv, MutexHeld, Holds

LEMMA DecodeKeeps ==
  ASSUME IInv, NEW p \in Probes, NEW f \in Fields, Decode(p, f)
  PROVE  Clean
<1>t. /\ request \in [Clients -> Requests] /\ p \in Clients /\ p \notin Workers
      /\ config \in Config /\ Zero \notin Values
  BY ClientsAre, FilesAssumption DEF IInv, TypeOK
<1>1. /\ Others(p) /\ request[p].pc = "decode"
      /\ request'[p].pc = "decode" /\ request'[p].read = request[p].read
      /\ request'[p].left = request[p].left \ {f}
      /\ UNCHANGED <<serving, started, mutex>>
  BY <1>t DEF Decode, Others, Requests
<1>2. /\ request[p].read[f] \in Values => config'[f] = request[p].read[f]
      /\ request[p].read[f] \notin Values => config'[f] = config[f]
      /\ \A g \in Fields \ {f} : config'[g] = config[g]
  BY <1>t DEF Decode, Config
<1>3. Decoding'
  BY <1>1 DEF Decoding
<1>4. States'
  BY <1>1, <1>t, ClientsAre DEF IInv, States, Others
<1>5. MutexHeld'
  BY <1>1, <1>t DEF IInv, MutexHeld, Holds, Others
<1>6. Snapshot'
  <2> SUFFICES ASSUME NEW w \in Workers PROVE request'[w].pc \notin {"BindDN", "BaseDN", "reply"}
    BY <1>3 DEF Snapshot
  <2>1. w \in Clients \ {p} /\ request'[w] = request[w]
    BY <1>1, <1>t, ClientsAre DEF Others
  <2> QED BY <2>1, <1>1, DecoderIsAlone DEF Holds, Fields
<1>7. DecodedSoFar'
  <2> SUFFICES ASSUME NEW q \in Probes, request'[q].read \in Loadable PROVE
        /\ request'[q].pc = "lock" => request'[q].left = Fields
        /\ request'[q].pc = "decode" =>
             \A g \in Fields \ request'[q].left :
               request'[q].read[g] \in Values => config'[g] = request'[q].read[g]
    BY DEF DecodedSoFar, Loadable
  <2>1. CASE q = p
    <3> SUFFICES ASSUME NEW g \in Fields, g = f \/ g \notin request[p].left,
                        request[p].read[g] \in Values
                 PROVE  config'[g] = request[p].read[g]
      BY <2>1, <1>1
    <3>1. g # f => config[g] = request[p].read[g]
      BY <2>1, <1>1 DEF IInv, DecodedSoFar
    <3> QED BY <3>1, <1>2
  <2>2. CASE q # p
    <3>1. q \in Clients \ {p} /\ request'[q] = request[q]
      BY <2>2, <1>1, ClientsAre DEF Others
    <3>2. request[q].pc # "decode"
      BY <3>1, <1>1, DecoderIsAlone DEF Holds
    <3> QED BY <3>1, <3>2 DEF IInv, DecodedSoFar
  <2> QED BY <2>1, <2>2
<1>8. ServesConfigured'
  BY <1>1, <1>2, <1>t DEF IInv, ServesConfigured
<1> QED BY <1>4, <1>5, <1>6, <1>7, <1>8 DEF Clean

LEMMA LoadedKeeps ==
  ASSUME IInv, NEW p \in Probes, Loaded(p)
  PROVE  Clean
<1>t. request \in [Clients -> Requests] /\ p \in Clients /\ p \notin Workers
  BY ClientsAre DEF IInv, TypeOK
<1>1. /\ request[p].pc = "decode" /\ request'[p].pc = "none"
      /\ \A q \in Probes \ {p} : request'[q] = request[q]
      /\ UNCHANGED <<config, serving, started>>
  BY <1>t, ClientsAre DEF Loaded, NoRequest
<1>2. \A w \in Workers :
        /\ request'[w].pc = request[w].pc /\ request'[w].used = request[w].used
        /\ request[w].pc # "none" => config \in request'[w].seen
  BY <1>t, ClientsAre DEF Loaded, Requests
<1>3. \A c \in Clients : ~Holds(c)'
  <2> SUFFICES ASSUME NEW c \in Clients, c # p PROVE request'[c].pc = request[c].pc
    BY <1>1, DecoderIsAlone DEF Holds, Fields
  <2> QED BY <1>1, <1>2, ClientsAre
<1>4. States'
  BY <1>1, <1>2, <1>t, ClientsAre DEF IInv, States
<1>5. MutexHeld'
  BY <1>3 DEF MutexHeld
<1>6. Snapshot'
  BY <1>1, <1>2, <1>3, ClientsAre DEF Snapshot, Holds, Fields
<1>7. DecodedSoFar'
  <2>1. DecodedSoFar /\ Loadable' = Loadable
    BY DEF IInv, Loadable
  <2> QED BY <2>1, <1>1 DEF DecodedSoFar
<1>8. ServesConfigured'
  BY <1>1 DEF IInv, ServesConfigured
<1> QED BY <1>4, <1>5, <1>6, <1>7, <1>8 DEF Clean

LEMMA NextIInv == IInv /\ [Next]_vars => IInv'
<1> SUFFICES ASSUME IInv, [Next]_vars PROVE Clean
  BY NextTypeOK DEF IInv, Clean
<1>1. CASE UNCHANGED <<request, config, mutex, serving, started>>
  BY <1>1 DEF IInv, Clean, States, MutexHeld, Snapshot, DecodedSoFar, ServesConfigured, Holds,
              Decoding, Loadable
<1>2. CASE \E F \in Files : SetFile(F)
  BY <1>1, <1>2 DEF SetFile, plugin
<1>3. CASE UNCHANGED vars
  BY <1>1, <1>3 DEF vars, plugin
<1> QED
  BY <1>2, <1>3, StopKeeps, StartKeeps, LockKeeps, FetchKeeps, AskKeeps, LeaveKeeps, HangKeeps,
     ProbeKeeps, DecodeKeeps, LoadedKeeps DEF Next, Serve, Load

LEMMA Invariant == Spec => []IInv
<1>1. Init => IInv
  BY InitIInv
<1>2. IInv /\ [Next]_vars => IInv'
  BY NextIInv
<1> QED BY <1>1, <1>2, PTL DEF Spec

\* A search that is about to answer has used one configuration that was in place while
\* it was served (searchLDAP and loadConfig under the mutex).
THEOREM OneConfig == Spec => []OneConfigPerSearch
<1>1. IInv => OneConfigPerSearch
  <2> SUFFICES ASSUME IInv, NEW w \in Workers, request[w].pc = "reply"
               PROVE  request[w].used \in request[w].seen
    BY DEF OneConfigPerSearch
  <2>1. w \in Clients /\ Holds(w)
    BY ClientsAre DEF Holds
  <2>2. ~Decoding
    BY <2>1, ClientsAre, OneHolder DEF Decoding, Holds
  <2>3. \A f \in Fields : request[w].used[f] = config[f]
    BY DEF IInv, Snapshot, Fields
  <2>4. request[w].used \in Config /\ config \in Config
    BY <2>1 DEF IInv, TypeOK, Requests
  <2>5. request[w].used = config
    BY <2>3, <2>4 DEF Config
  <2> QED BY <2>2, <2>5 DEF IInv, Snapshot
<1> QED BY <1>1, Invariant, PTL

\* The plug-in keeps every field that the file it started with had, whatever files come
\* later (main, loadConfig).
THEOREM Configured == Spec => []ServesConfigured
<1>1. IInv => ServesConfigured
  BY DEF IInv
<1> QED BY <1>1, Invariant, PTL

\* A probe that answers "ready" leaves what it read (ReadinessProbeHandler, loadConfig).
THEOREM Ready == Spec => ReadyMeansLoaded
<1> DEFINE A == \A p \in Probes :
       (Loaded(p) /\ request[p].read \in Loadable) =>
         \A f \in Fields : config'[f] \in {request[p].read[f]} \cup
                             (IF request[p].read[f] = Absent THEN Values \cup {Zero} ELSE {})
<1>1. IInv => A
  <2> SUFFICES ASSUME IInv, NEW p \in Probes, Loaded(p), request[p].read \in Loadable,
                      NEW f \in Fields
               PROVE  config'[f] \in {request[p].read[f]} \cup
                        (IF request[p].read[f] = Absent THEN Values \cup {Zero} ELSE {})
    OBVIOUS
  <2>1. config' = config /\ request[p].pc = "decode" /\ request[p].left = {}
    BY DEF Loaded
  <2>2. config[f] \in Values \cup {Zero}
    BY DEF IInv, TypeOK, Config
  <2>3. request[p].read[f] \in Values => config[f] = request[p].read[f]
    BY <2>1 DEF IInv, DecodedSoFar
  <2>4. request[p].read[f] \in Values \cup {Absent}
    BY LoadableFields
  <2> QED BY <2>1, <2>2, <2>3, <2>4
<1>2. ReadyMeansLoaded <=> [][A]_vars
  BY DEF ReadyMeansLoaded
<1> QED BY <1>1, <1>2, Invariant, PTL
=============================================================================
