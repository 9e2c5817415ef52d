------------------------------ MODULE UserHandle ------------------------------
(***************************************************************************)
(* The user handle: workers of the controller fetch what is known about a    *)
(* user while they generate artifacts (connect.FetchData), and the LDAP       *)
(* plug-in answers (plugin/ldap/main.go).                                   *)
(*                                                                         *)
(* Each request to the plug-in is served by a goroutine.  A search holds the *)
(* plug-in's mutex while it dials, binds and searches, and so does the        *)
(* readiness probe while it loads the configuration again from its file.      *)
(* LDAP may answer, fail or be silent; the plug-in may be stopped.  A worker *)
(* whose fetch fails generates without a security context; one whose fetch    *)
(* is never answered never goes on.                                         *)
(*                                                                         *)
(* The kubelet gives up on a slow probe and sends another, so that several    *)
(* are in progress; "Probes" bounds how many.  The liveness probe touches no  *)
(* state.                                                                   *)
(***************************************************************************)
EXTENDS Naturals

CONSTANTS
  Workers, Probes,  \* the plug-in's clients: the controller's workers, probes in progress
  Values,           \* what a field of the configuration may be set to
  Zero,             \* what a field is before it is set
  Absent, Mistyped, \* a field that the file does not have, or has with a wrong type
  Garbled,          \* a file that is not JSON
  Files,            \* what the file may contain
  MaxChanges,       \* bound on the changes of the file
  MaxStops,         \* bound on the times the plug-in is stopped
  Nil

Clients == Workers \cup Probes

\* LDAPConfig.  Port goes with Host and Password with BindDN.
Fields == {"Host", "BindDN", "BaseDN"}
Config == [Fields -> Values \cup {Zero}]
NoConfig == [f \in Fields |-> Zero]

ASSUME ClientsAssumption == Workers \cap Probes = {} /\ Nil \notin Clients
ASSUME FilesAssumption ==
  /\ Files \subseteq [Fields -> Values \cup {Absent, Mistyped}] \cup {Garbled}
  /\ Values \cap {Zero, Absent, Mistyped, Nil} = {}
  /\ Garbled \notin [Fields -> Values \cup {Absent, Mistyped}] \cup {Nil}
ASSUME BoundsAssumption == MaxChanges \in Nat /\ MaxStops \in Nat

\* What json.Unmarshal reports no error for.
Loadable == {F \in Files \ {Garbled} : \A f \in Fields : F[f] # Mistyped}

VARIABLES
  file,    \* /etc/config/config.json
  changes, \* counter for the bound
  serving, \* the plug-in listens
  started, \* the file that its main loaded (history)
  stops,   \* counter for the bound
  config,  \* ldapConfig
  mutex,   \* the client whose goroutine holds it, or Nil
  request, \* client -> the goroutine that serves it
  context  \* worker -> whether its last generation had a security context

plugin == <<serving, started, stops, config, mutex>>
vars == <<file, changes, plugin, request, context>>

\* pc and, for a search, the configuration it used so far and those in place since
\* the request arrived (history); for a load, the file read and the fields to decode.
NoRequest == [pc |-> "none", used |-> NoConfig, seen |-> {}, read |-> Nil, left |-> {}]

-----------------------------------------------------------------------------
(* The file and the plug-in's process *)

SetFile(F) ==
  /\ changes < MaxChanges
  /\ file' = F
  /\ changes' = changes + 1
  /\ UNCHANGED <<plugin, request, context>>

\* A worker's http.Get returns an error when the plug-in stops, or is not there.
Stop ==
  /\ serving
  /\ stops < MaxStops
  /\ serving' = FALSE
  /\ stops' = stops + 1
  /\ config' = NoConfig
  /\ mutex' = Nil
  /\ request' = [c \in Clients |-> NoRequest]
  /\ context' = [w \in Workers |-> context[w] /\ request[w].pc = "none"]
  /\ UNCHANGED <<file, changes, started>>

Loads(F) == [f \in Fields |-> IF F[f] = Absent THEN Zero ELSE F[f]]

\* A mutant of Start: the error of loadConfig is ignored.
StartAnyway ==
  /\ ~serving
  /\ serving' = TRUE
  /\ started' = file
  /\ config' = IF file \in Loadable THEN Loads(file) ELSE NoConfig
  /\ UNCHANGED <<file, changes, stops, mutex, request, context>>

\* main: the process exits, to be started again, until the file can be loaded.
Start ==
  /\ ~serving
  /\ file \in Loadable
  /\ serving' = TRUE
  /\ started' = file
  /\ config' = Loads(file)
  /\ UNCHANGED <<file, changes, stops, mutex, request, context>>

-----------------------------------------------------------------------------
(* The mutex *)

\* Mutants of Lock: loadConfig does without the mutex, or both do.
LockToSearch(c) ==
  /\ request[c].pc = "lock"
  /\ c \in Workers => mutex = Nil
  /\ mutex' = IF c \in Workers THEN c ELSE mutex
  /\ request' = [request EXCEPT ![c].pc = IF c \in Workers THEN "Host" ELSE "decode"]
  /\ UNCHANGED <<file, changes, serving, started, stops, config, context>>

LockFreely(c) ==
  /\ request[c].pc = "lock"
  /\ mutex' = c
  /\ request' = [request EXCEPT ![c].pc = IF c \in Workers THEN "Host" ELSE "decode"]
  /\ UNCHANGED <<file, changes, serving, started, stops, config, context>>

Lock(c) ==
  /\ request[c].pc = "lock"
  /\ mutex = Nil
  /\ mutex' = c
  /\ request' = [request EXCEPT ![c].pc = IF c \in Workers THEN "Host" ELSE "decode"]
  /\ UNCHANGED <<file, changes, serving, started, stops, config, context>>

-----------------------------------------------------------------------------
(* A fetch: FetchData in the controller, userHandler and searchLDAP in the plug-in *)

\* ldapConfig is only whole while nobody decodes a file into it.
InPlace == IF \E p \in Probes : request[p].pc = "decode" THEN {} ELSE {config}

Fetch(w) ==
  /\ request[w].pc = "none"
  /\ IF serving
     THEN /\ request' = [request EXCEPT ![w] = [NoRequest EXCEPT !.pc = "lock", !.seen = InPlace]]
          /\ UNCHANGED context
     ELSE /\ context' = [context EXCEPT ![w] = FALSE]
          /\ UNCHANGED request
  /\ UNCHANGED <<file, changes, plugin>>

\* Dial, Bind and Search use one field after the other; "pc" names the field.
AfterField == [Host |-> "BindDN", BindDN |-> "BaseDN", BaseDN |-> "reply"]

Searching(w) == request[w].pc \in Fields

Ask(w, f) ==
  /\ request[w].pc = f
  /\ request' = [request EXCEPT ![w].used[f] = config[f], ![w].pc = AfterField[f]]
  /\ UNCHANGED <<file, changes, plugin, context>>

\* The user was found: the deferred Unlock, the answer, and ExtractSCFromMap on it.
Answer(w) ==
  /\ request[w].pc = "reply"
  /\ mutex' = Nil
  /\ context' = [context EXCEPT ![w] = TRUE]
  /\ request' = [request EXCEPT ![w] = NoRequest]
  /\ UNCHANGED <<file, changes, serving, started, stops, config>>

\* A mutant of Fail: a return without the deferred Unlock.
FailLocked(w) ==
  /\ Searching(w)
  /\ context' = [context EXCEPT ![w] = FALSE]
  /\ request' = [request EXCEPT ![w] = NoRequest]
  /\ UNCHANGED <<file, changes, plugin>>

\* LDAP refuses, or has no such user: status 500 and a text that is not JSON, which
\* FetchData reports as an error, and GenerateArtifacts logs it.
Fail(w) ==
  /\ Searching(w)
  /\ mutex' = Nil
  /\ context' = [context EXCEPT ![w] = FALSE]
  /\ request' = [request EXCEPT ![w] = NoRequest]
  /\ UNCHANGED <<file, changes, serving, started, stops, config>>

\* LDAP is silent.  Dialling it gives up after a time, but Bind and Search have no
\* timeout, nor has FetchData.
Hang(w) ==
  /\ request[w].pc \in {"BindDN", "BaseDN"}
  /\ request' = [request EXCEPT ![w].pc = "hung"]
  /\ UNCHANGED <<file, changes, plugin, context>>

-----------------------------------------------------------------------------
(* The readiness probe: loadConfig *)

\* A mutant of Probe: the file is read once and for all.
ProbeStarted(p) ==
  /\ serving
  /\ request[p].pc = "none"
  /\ request' = [request EXCEPT ![p] = [NoRequest EXCEPT !.pc = "lock", !.read = started,
                                          !.left = Fields]]
  /\ UNCHANGED <<file, changes, plugin, context>>

\* The file is read before the mutex is taken.
Probe(p) ==
  /\ serving
  /\ request[p].pc = "none"
  /\ request' = [request EXCEPT ![p] = [NoRequest EXCEPT !.pc = "lock", !.read = file,
                                          !.left = IF file = Garbled THEN {} ELSE Fields]]
  /\ UNCHANGED <<file, changes, plugin, context>>

\* A mutant of Decode: no field keeps its value.
DecodeAny(p, f) ==
  /\ request[p].pc = "decode"
  /\ f \in request[p].left
  /\ config' = [config EXCEPT ![f] = request[p].read[f]]
  /\ request' = [request EXCEPT ![p].left = @ \ {f}]
  /\ UNCHANGED <<file, changes, serving, started, stops, mutex, context>>

\* A field that the file lacks, or that has a wrong type, keeps its value, and the
\* other fields are set all the same.
Decode(p, f) ==
  /\ request[p].pc = "decode"
  /\ f \in request[p].left
  /\ config' = IF request[p].read[f] \in Values
               THEN [config EXCEPT ![f] = request[p].read[f]] ELSE config
  /\ request' = [request EXCEPT ![p].left = @ \ {f}]
  /\ UNCHANGED <<file, changes, serving, started, stops, mutex, context>>

\* Unlock, and the answer: ready if the file is loadable.
Loaded(p) ==
  /\ request[p].pc = "decode"
  /\ request[p].left = {}
  /\ mutex' = Nil
  /\ request' = [c \in Clients |->
                   IF c = p THEN NoRequest
                   ELSE IF c \in Workers /\ request[c].pc # "none"
                        THEN [request[c] EXCEPT !.seen = @ \cup {config}]
                        ELSE request[c]]
  /\ UNCHANGED <<file, changes, serving, started, stops, config, context>>

-----------------------------------------------------------------------------
Init ==
  /\ file \in Files
  /\ changes = 0
  /\ serving = FALSE
  /\ started = Nil
  /\ stops = 0
  /\ config = NoConfig
  /\ mutex = Nil
  /\ request = [c \in Clients |-> NoRequest]
  /\ context = [w \in Workers |-> FALSE]

Serve(w) == (\E f \in Fields : Ask(w, f)) \/ Answer(w)
Load(p) == (\E f \in Fields : Decode(p, f)) \/ Loaded(p)

Next ==
  \/ \E F \in Files : SetFile(F)
  \/ Stop \/ Start
  \/ \E c \in Clients : Lock(c)
  \/ \E w \in Workers : Fetch(w) \/ Serve(w) \/ Fail(w) \/ Hang(w)
  \/ \E p \in Probes : Probe(p) \/ Load(p)

Spec == Init /\ [][Next]_vars

\* The kubelet starts the plug-in and probes it, goroutines run, and a sync.Mutex
\* hands itself to the goroutine that has waited longest before it starves.  That LDAP
\* answers, rather than Hang, is not assumed.
Fairness ==
  /\ WF_vars(Start)
  /\ \A w \in Workers : WF_vars(Serve(w) \/ Fail(w))
  /\ \A p \in Probes : WF_vars(Probe(p)) /\ WF_vars(Load(p))
  /\ \A c \in Clients : SF_vars(Lock(c))

LiveSpec == Spec /\ Fairness

-----------------------------------------------------------------------------
(* Properties *)

Requests ==
  [pc : {"none", "lock", "decode", "reply", "hung"} \cup Fields, used : Config,
   seen : SUBSET Config, read : Files \cup {Nil}, left : SUBSET Fields]

\* Types.
TypeOK ==
  /\ file \in Files /\ started \in Files \cup {Nil}
  /\ changes \in 0..MaxChanges /\ stops \in 0..MaxStops
  /\ serving \in BOOLEAN
  /\ config \in Config
  /\ mutex \in Clients \cup {Nil}
  /\ request \in [Clients -> Requests]
  /\ context \in [Workers -> BOOLEAN]

\* A user's data come from one value of ldapConfig, which was in place at some time while
\* the request was served: no search dials the host of the configuration before a load
\* and binds or searches with that after it or half way through it, though probes load
\* the file in the middle of searches (searchLDAP and loadConfig under the mutex).  That
\* the value itself is that of one file is not said, and not so: a load of a file that
\* lacks a field, or has one mistyped, leaves the other file's field beside its own.
OneConfigPerSearch ==
  \A w \in Workers : request[w].pc = "reply" => request[w].used \in request[w].seen

\* While it serves, the plug-in has every field that the file it started with had,
\* through all loads that fail or come half way (main, loadConfig).
ServesConfigured ==
  serving => \A f \in Fields : config[f] = Zero => started \in Loadable /\ started[f] = Absent

\* A probe that answers "ready" leaves a configuration that agrees with the file it
\* read, whatever other probes do at the same time (ReadinessProbeHandler).
ReadyMeansLoaded ==
  [][\A p \in Probes :
       (Loaded(p) /\ request[p].read \in Loadable) =>
         \A f \in Fields : config'[f] \in {request[p].read[f]} \cup
                             (IF request[p].read[f] = Absent THEN Values \cup {Zero} ELSE {})]_vars

Hung == \E w \in Workers : request[w].pc = "hung"

\* Every fetch returns, so that the worker goes on, unless LDAP has left a search
\* without an answer; that one search then blocks all (the mutex).
FetchReturns ==
  \A w \in Workers : request[w].pc # "none" ~> (request[w].pc = "none" \/ Hung)

Agrees(F) == \A f \in Fields : F[f] # Absent => config[f] = F[f]

\* A file that stays is what the plug-in ends up with, though a probe may load an
\* older one that it had read before (loadConfig reads before it locks).
ConfigFollowsFile ==
  \A F \in Loadable : <>[](file = F) => (<>[](serving => Agrees(F)) \/ <>Hung)
=============================================================================
