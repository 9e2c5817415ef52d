------------------------------- MODULE Pipeline -------------------------------
(***************************************************************************)
(* GenerateArtifacts for one complete triple: the app's services become     *)
(* containers and volumes (transformApp, with the volume DSL), the security *)
(* context is resolved, and the Deployment, the PersistentVolumeClaims and  *)
(* the Services are rendered.                                               *)
(*                                                                         *)
(* Go iterates over a map in an arbitrary order: the volumes of a service   *)
(* are parsed and mounted one at a time in any order, and so are the claims *)
(* rendered.                                                               *)
(* Strings are abstracted to what the templates tell apart.                 *)
(***************************************************************************)
EXTENDS Naturals, FiniteSets, SequencesExt

CONSTANTS
  AppSpecs,  \* the apps, each a sequence of services
  VolumeIds, \* the keys of a service's map of volumes
  Sources,   \* the sources a volume string may have, split at each "/"
  OptionSets,\* the sets of options it may have
  Ports,     \* the ports it may publish a container's port under; 0 is not to publish it
  Garbled,   \* a volume string that the DSL's regular expression does not match
  Nil        \* a nil pointer, an absent entry

Schemes == {"", "pvc", "nfs"}
VolumeString == [scheme : Schemes, src : Sources, opts : OptionSets] \cup {Garbled}

Service == [name : STRING, init : BOOLEAN, ports : SUBSET Ports,
            volumes : UNION {[ids -> VolumeString] : ids \in SUBSET VolumeIds}]

ASSUME AppsAssumption == AppSpecs \subseteq Seq(Service)
ASSUME NilAssumption == Nil \notin VolumeString

VARIABLES
  app, instSC, userHandle, \* the triple: the app's services, the instance's security
                           \* context and the user's handle
  pc,
  services,   \* transformApp: the services not yet transformed,
  pending,    \* the current one's volumes not yet parsed,
  mounts,     \* and its volumes mounted so far, a slice
  containers, \* transformApp's results
  sourceMap,
  securityContext,
  unrendered, \* volumes whose claim is not yet rendered
  pvcs,       \* claim -> rendered PersistentVolumeClaim
  artifacts

triple == <<app, instSC, userHandle>>
vars == <<app, instSC, userHandle, pc, services, pending, mounts, containers, sourceMap,
          securityContext, unrendered, pvcs, artifacts>>

-----------------------------------------------------------------------------
(* The volume DSL *)

\* A volume: its scheme, where it comes from and its options.  The source of nfs
\* is split at its first two slashes; what stands before the first is ignored.
processVolume(v) ==
  IF v = Garbled THEN Nil
  ELSE IF v.scheme # "nfs" THEN [scheme |-> "pvc", source |-> v.src, opts |-> v.opts]
  ELSE IF Len(v.src) < 3 THEN Nil
  ELSE [scheme |-> "nfs", source |-> Tail(v.src), opts |-> v.opts]

Parses(service) == \A id \in DOMAIN service.volumes : processVolume(service.volumes[id]) # Nil

-----------------------------------------------------------------------------
(* transformApp *)

VolumesOf(list) == IF list = <<>> THEN {} ELSE DOMAIN Head(list).volumes

\* A mutant of NextService: the mounts of the service before are kept.
NextServiceWithMounts ==
  /\ services' = Tail(services)
  /\ pending' = VolumesOf(Tail(services))
  /\ mounts' = mounts

NextService ==
  /\ services' = Tail(services)
  /\ pending' = VolumesOf(Tail(services))
  /\ mounts' = <<>>

\* A Go map with one entry written.
Put(map, key, value) == [k \in DOMAIN map \cup {key} |-> IF k = key THEN value ELSE map[k]]

\* A mutant of Include: the last volume of a name wins.
IncludeLast(map, id, volume) == Put(map, id, volume)

\* The first volume of a name wins, whichever service declares it.
Include(map, id, volume) == IF id \in DOMAIN map THEN map ELSE Put(map, id, volume)

\* transformVolumes, a volume at a time.  One that does not parse skips the
\* service, but what its other volumes put into the source map stays there.
TransformVolume(id) ==
  LET volume == processVolume(Head(services).volumes[id]) IN
  /\ pc = "transform"
  /\ id \in pending
  /\ IF volume = Nil
     THEN NextService /\ UNCHANGED sourceMap
     ELSE /\ sourceMap' = Include(sourceMap, id, volume)
          /\ mounts' = Append(mounts, id)
          /\ pending' = pending \ {id}
          /\ UNCHANGED services
  /\ UNCHANGED <<triple, pc, containers, securityContext, unrendered, pvcs, artifacts>>

\* transformPorts: there is a Service when some port is published.
HasService(service) == \E p \in service.ports : p # 0

\* Whether the service is an init container is not looked at.  The template lists
\* the mounts as they stand in the slice.
Container(service) ==
  [name |-> service.name, ports |-> service.ports, hasService |-> HasService(service),
   mounts |-> mounts]

\* A mutant of TransformService: each service begins with an empty source map.
TransformServiceAlone ==
  /\ pc = "transform" /\ services # <<>> /\ pending = {}
  /\ containers' = Append(containers, Container(Head(services)))
  /\ NextService
  /\ sourceMap' = <<>>
  /\ UNCHANGED <<triple, pc, securityContext, unrendered, pvcs, artifacts>>

\* All its volumes have parsed: the service becomes a container.
TransformService ==
  /\ pc = "transform" /\ services # <<>> /\ pending = {}
  /\ containers' = Append(containers, Container(Head(services)))
  /\ NextService
  /\ UNCHANGED <<triple, pc, sourceMap, securityContext, unrendered, pvcs, artifacts>>

-----------------------------------------------------------------------------
(* The security context *)

\* ExtractSCFromCR and ExtractSCFromMap: one without any field counts as none.
ExtractSC(from, sc) == IF sc = "set" THEN from ELSE Nil

\* FetchData either answers with some fields or none of the known ones, or fails.
FetchData == {"set", "empty", "error"}

ResolveSC ==
  IF instSC # Nil THEN {ExtractSC("inst", instSC)}
  ELSE IF userHandle = Nil THEN {Nil}
  ELSE {ExtractSC("user", answer) : answer \in FetchData}

-----------------------------------------------------------------------------
(* GenerateArtifacts *)

IsClaim(id) == sourceMap[id].scheme = "pvc"

\* No container, no artifacts, and no error.
Resolve ==
  /\ pc = "transform" /\ services = <<>>
  /\ pc' = IF containers = <<>> THEN "nothing" ELSE "render"
  /\ securityContext' \in IF containers = <<>> THEN {Nil} ELSE ResolveSC
  /\ unrendered' = IF containers = <<>> THEN {} ELSE {id \in DOMAIN sourceMap : IsClaim(id)}
  /\ UNCHANGED <<triple, services, pending, mounts, containers, sourceMap, pvcs, artifacts>>

\* The claim's template: the first access mode in this order, and a label to retain.
AccessMode(opts) ==
  CASE "rwx" \in opts -> "ReadWriteMany"
    [] "rwx" \notin opts /\ "rox" \in opts -> "ReadOnlyMany"
    [] opts \cap {"rwx", "rox"} = {} /\ "rwop" \in opts -> "ReadWriteOncePod"
    [] OTHER -> "ReadWriteOnce"
PVC(opts) == [accessMode |-> AccessMode(opts), retain |-> "retain" \in opts]

\* A mutant of PVCName: the claim is named after the volume.
PVCNameOfVolume(id) == <<id>>
PVCName(id) == sourceMap[id].source

\* Two volumes with one claim: the one rendered last is kept.  The template
\* refers to a field that does not exist once the volume has a storage class:
\* the rendering fails, and the generation with it.
RenderPVC(id) ==
  /\ pc = "render"
  /\ id \in unrendered
  /\ IF "storageClass" \in sourceMap[id].opts
     THEN pc' = "failed" /\ UNCHANGED <<unrendered, pvcs>>
     ELSE /\ pvcs' = Put(pvcs, PVCName(id), PVC(sourceMap[id].opts))
          /\ unrendered' = unrendered \ {id}
          /\ UNCHANGED pc
  /\ UNCHANGED <<triple, services, pending, mounts, containers, sourceMap, securityContext, artifacts>>

\* A Service lists all the ports of its container; a container without a port to
\* publish has an empty rendering, and of two with one name the last counts.
LastNamed(name) == CHOOSE i \in 1..Len(containers) :
                     /\ containers[i].name = name
                     /\ \A j \in (i + 1)..Len(containers) : containers[j].name # name
RenderService(name) == IF containers[LastNamed(name)].hasService
                       THEN containers[LastNamed(name)].ports ELSE {}

\* The rendering of the Deployment, a claim or a Service fails because of what the
\* app, the instance and the user put into the templates (module Render says when).
RenderFails ==
  /\ pc = "render"
  /\ pc' = "failed"
  /\ UNCHANGED <<triple, services, pending, mounts, containers, sourceMap, securityContext,
                 unrendered, pvcs, artifacts>>

RenderServices ==
  /\ pc = "render"
  /\ unrendered = {}
  /\ artifacts' = [containers |-> containers, volumes |-> sourceMap, securityContext |-> securityContext,
                   pvcs |-> pvcs,
                   services |-> [name \in {containers[i].name : i \in 1..Len(containers)} |->
                                   RenderService(name)]]
  /\ pc' = "done"
  /\ UNCHANGED <<triple, services, pending, mounts, containers, sourceMap, securityContext, unrendered, pvcs>>

Init ==
  /\ app \in AppSpecs
  /\ instSC \in {Nil, "empty", "set"}
  /\ userHandle \in {Nil, "url"}
  /\ pc = "transform"
  /\ services = app /\ pending = VolumesOf(app) /\ mounts = <<>>
  /\ containers = <<>> /\ sourceMap = <<>>
  /\ securityContext = Nil
  /\ unrendered = {} /\ pvcs = <<>>
  /\ artifacts = Nil

Next ==
  \/ \E id \in VolumeIds : TransformVolume(id) \/ RenderPVC(id)
  \/ TransformService
  \/ Resolve
  \/ RenderFails
  \/ RenderServices

Spec == Init /\ [][Next]_vars

-----------------------------------------------------------------------------
(* Properties *)

Volume == [scheme : {"pvc", "nfs"}, source : Sources \cup {Tail(x) : x \in Sources \ {<<>>}},
           opts : OptionSets]

TypeOK ==
  /\ pc \in {"transform", "render", "done", "nothing", "failed"}
  /\ mounts \in Seq(VolumeIds)
  /\ ToSet(mounts) \cup pending \subseteq VolumesOf(services)
  /\ DOMAIN sourceMap \subseteq VolumeIds
  /\ \A id \in DOMAIN sourceMap : sourceMap[id] \in Volume
  /\ Len(containers) + Len(services) <= Len(app)
  /\ securityContext \in {Nil, "inst", "user"}
  /\ unrendered \subseteq DOMAIN sourceMap

\* Whatever the order in which volumes are parsed and services skipped, each mount
\* of a container names a volume of the pod: a Deployment for which this fails is
\* refused as a whole.
MountsAreBacked ==
  \A i \in 1..Len(containers) : ToSet(containers[i].mounts) \subseteq DOMAIN sourceMap

\* Every claim that the pod mounts is rendered under the very name that the pod
\* mounts it by: without it the pod waits for ever.
ClaimsAreProvided ==
  pc = "done" => \A id \in DOMAIN artifacts.volumes :
                   artifacts.volumes[id].scheme = "pvc"
                     => artifacts.volumes[id].source \in DOMAIN artifacts.pvcs

\* The reference: what the artifacts of an app are, with no iteration in it.  The
\* services that become containers, and how many of them stand up to the i-th.
Transformed == {i \in 1..Len(app) : Parses(app[i])}
Position(i) == Cardinality({j \in Transformed : j <= i})
Declared == UNION {DOMAIN app[i].volumes : i \in Transformed}
FirstWith(id) == CHOOSE i \in Transformed :
                   /\ id \in DOMAIN app[i].volumes
                   /\ \A j \in Transformed : id \in DOMAIN app[j].volumes => i <= j
VolumeFor(id) == processVolume(app[FirstWith(id)].volumes[id])

\* Apps whose artifacts the order of iteration changes in their mounts at most: a
\* service that is skipped has no volume that parses, and volumes that share a claim
\* agree on it.
HalfParsed(service) ==
  ~Parses(service) /\ \E id \in DOMAIN service.volumes : processVolume(service.volumes[id]) # Nil
OrderFree ==
  /\ \A i \in 1..Len(app) : ~HalfParsed(app[i])
  /\ \A x, y \in Declared :
       VolumeFor(x).source = VolumeFor(y).source => PVC(VolumeFor(x).opts) = PVC(VolumeFor(y).opts)

\* A list of mounts with each of these volumes, once.
MountedOnce(list, volumes) == ToSet(list) = volumes /\ Len(list) = Cardinality(volumes)

\* What Go's map iteration can change from one reconcile to the next, where nothing
\* but the iteration changed: the order in which a container lists its mounts, each of
\* the service's volumes once, and nothing else.  With two volumes the lists differ,
\* and so do the Deployments; with one volume at most they are the same.
ArtifactsAreDetermined ==
  (pc = "done" /\ OrderFree) =>
    /\ artifacts.volumes = [id \in Declared |-> VolumeFor(id)]
    /\ artifacts.pvcs =
         LET claimed == {id \in Declared : VolumeFor(id).scheme = "pvc"}
         IN  [claim \in {VolumeFor(id).source : id \in claimed} |->
                PVC(VolumeFor(CHOOSE id \in claimed : VolumeFor(id).source = claim).opts)]
    /\ Len(artifacts.containers) = Cardinality(Transformed)
    /\ \A i \in Transformed :
         /\ artifacts.containers[Position(i)].name = app[i].name
         /\ MountedOnce(artifacts.containers[Position(i)].mounts, DOMAIN app[i].volumes)
=============================================================================
