---------------------------- MODULE PipelineProofs ----------------------------
(***************************************************************************)
(* The artifacts of a triple, for every app: they fit together, and where   *)
(* nothing in the app makes them depend on it, the order in which Go ranges  *)
(* over its maps shows in nothing but the order of the mounts.              *)
(***************************************************************************)
EXTENDS Pipeline, FiniteSetTheorems, SequenceTheorems, TLAPS

-----------------------------------------------------------------------------
(* Types *)

Containers == [name : STRING, ports : SUBSET Ports, hasService : BOOLEAN, mounts : Seq(VolumeIds)]

\* How many of the app's services have been transformed or skipped.
Taken == Len(app) - Len(services)

\* Of the service at hand, each volume is either mounted, and once, or still to be parsed.
Mounting ==
  /\ mounts \in Seq(VolumeIds)
  /\ ToSet(mounts) \cup pending = VolumesOf(services)
  /\ ToSet(mounts) \cap pending = {}
  /\ IsFiniteSet(ToSet(mounts))
  /\ Len(mounts) = Cardinality(ToSet(mounts))

\* transformApp goes through the app's services in their order, and through each
\* one's volumes; the rendering begins when none is left.
Progress ==
  /\ app \in Seq(Service)
  /\ services \in Seq(Service)
  /\ Len(services) <= Len(app)
  /\ \A j \in 1..Len(services) : services[j] = app[Taken + j]
  /\ Mounting
  /\ containers \in Seq(Containers)
  /\ Len(containers) <= Taken
  /\ pc \in {"transform", "render", "done", "nothing", "failed"}
  /\ pc # "transform" => services = <<>>
  /\ pc = "transform" => unrendered = {} /\ DOMAIN pvcs = {}

\* A Go map is a function.
IsMap(f) == f = [x \in DOMAIN f |-> f[x]]

\* The source map is a map from volumes to what they are.
SourcesOK ==
  /\ IsMap(sourceMap) /\ IsMap(pvcs)
  /\ DOMAIN sourceMap \subseteq VolumeIds
  /\ \A id \in DOMAIN sourceMap : sourceMap[id] \in Volume
  /\ unrendered \subseteq DOMAIN sourceMap
  /\ securityContext \in {Nil, "inst", "user"}

\* What a list mounts, and what one more entry adds.
LEMMA MountsForm ==
  /\ ToSet(<<>>) = {}
  /\ \A list \in Seq(VolumeIds), id \in VolumeIds :
       /\ Append(list, id) \in Seq(VolumeIds)
       /\ Len(Append(list, id)) = Len(list) + 1
       /\ ToSet(Append(list, id)) = ToSet(list) \cup {id}
<1>1. ToSet(<<>>) = {}
  BY DEF ToSet
<1>2. ASSUME NEW list \in Seq(VolumeIds), NEW id \in VolumeIds
      PROVE  /\ Append(list, id) \in Seq(VolumeIds)
             /\ Len(Append(list, id)) = Len(list) + 1
             /\ ToSet(Append(list, id)) = ToSet(list) \cup {id}
  <2>1. /\ Append(list, id) \in Seq(VolumeIds)
        /\ Len(Append(list, id)) = Len(list) + 1
        /\ \A i \in 1..Len(list) : Append(list, id)[i] = list[i]
        /\ Append(list, id)[Len(list) + 1] = id
    BY <1>2, AppendProperties
  <2> DEFINE longer == Append(list, id)
  <2>2. DOMAIN list = 1..Len(list) /\ DOMAIN longer = 1..(Len(list) + 1) /\ Len(list) \in Nat
    BY <1>2, <2>1
  <2>3. 1..(Len(list) + 1) = 1..Len(list) \cup {Len(list) + 1}
    BY <2>2
  <2> HIDE DEF longer
  <2>4. ToSet(longer) = ToSet(list) \cup {id}
    BY <2>1, <2>2, <2>3 DEF ToSet, longer
  <2> QED BY <2>1, <2>4 DEF longer
<1> QED BY <1>1, <1>2

\* Nothing is mounted of a service just begun.
LEMMA NothingMounted ==
  ASSUME mounts = <<>>, pending = VolumesOf(services)
  PROVE  Mounting
<1>1. ToSet(mounts) = {} /\ mounts \in Seq(VolumeIds) /\ Len(mounts) = 0
  BY MountsForm
<1>2. IsFiniteSet({}) /\ Cardinality({}) = 0
  BY FS_EmptySet
<1> QED BY <1>1, <1>2 DEF Mounting

\* One volume more is mounted.
LEMMA OneMoreMounted ==
  ASSUME Mounting, NEW id \in VolumeIds, id \in pending, services' = services,
         mounts' = Append(mounts, id), pending' = pending \ {id}
  PROVE  Mounting' /\ ToSet(mounts') = ToSet(mounts) \cup {id}
<1> DEFINE seen == ToSet(mounts)
<1>1. /\ mounts' \in Seq(VolumeIds)
      /\ Len(mounts') = Len(mounts) + 1
      /\ ToSet(mounts') = seen \cup {id}
  BY MountsForm DEF Mounting
<1>2. /\ mounts \in Seq(VolumeIds)
      /\ seen \cup pending = VolumesOf(services) /\ seen \cap pending = {}
      /\ IsFiniteSet(seen) /\ Len(mounts) = Cardinality(seen)
  BY DEF Mounting
<1> HIDE DEF seen
<1>3. id \notin seen
  BY <1>2
<1>4. IsFiniteSet(seen \cup {id}) /\ Cardinality(seen \cup {id}) = Cardinality(seen) + 1
  BY <1>2, <1>3, FS_AddElement
<1>5. (seen \cup {id}) \cup pending' = VolumesOf(services) /\ (seen \cup {id}) \cap pending' = {}
  BY <1>2, <1>3
<1>6. VolumesOf(services)' = VolumesOf(services) /\ ToSet(mounts)' = ToSet(mounts')
  BY DEF VolumesOf, ToSet
<1>7. Mounting'
  BY <1>1, <1>2, <1>4, <1>5, <1>6 DEF Mounting
<1> QED BY <1>1, <1>7 DEF seen

LEMMA SameMounting ==
  ASSUME Mounting, services' = services, mounts' = mounts, pending' = pending
  PROVE  Mounting'
BY DEF Mounting, VolumesOf, ToSet

\* What an entry written to a map leaves of it.
LEMMA PutForm ==
  ASSUME NEW map, NEW key, NEW value
  PROVE  /\ DOMAIN Put(map, key, value) = DOMAIN map \cup {key}
         /\ Put(map, key, value)[key] = value
         /\ \A k \in DOMAIN map : k # key => Put(map, key, value)[k] = map[k]
         /\ IsMap(Put(map, key, value))
BY DEF Put, IsMap

\* The first entry of a name is kept.
LEMMA IncludeForm ==
  ASSUME NEW map, NEW id, NEW volume, IsMap(map)
  PROVE  /\ DOMAIN Include(map, id, volume) = DOMAIN map \cup {id}
         /\ id \notin DOMAIN map => Include(map, id, volume)[id] = volume
         /\ \A k \in DOMAIN map : Include(map, id, volume)[k] = map[k]
         /\ IsMap(Include(map, id, volume))
<1>1. CASE id \in DOMAIN map
  <2>1. Include(map, id, volume) = map
    BY <1>1 DEF Include
  <2>2. DOMAIN map = DOMAIN map \cup {id}
    BY <1>1
  <2> QED BY <1>1, <2>1, <2>2
<1>2. CASE id \notin DOMAIN map
  <2>1. Include(map, id, volume) = Put(map, id, volume)
    BY <1>2 DEF Include
  <2> DEFINE put == Put(map, id, volume)
  <2>2. /\ DOMAIN put = DOMAIN map \cup {id}
        /\ put[id] = volume
        /\ \A k \in DOMAIN map : k # id => put[k] = map[k]
        /\ IsMap(put)
    BY PutForm
  <2> HIDE DEF put
  <2>3. Include(map, id, volume) = put
    BY <2>1 DEF put
  <2>4. /\ DOMAIN Include(map, id, volume) = DOMAIN map \cup {id}
        /\ Include(map, id, volume)[id] = volume
        /\ \A k \in DOMAIN map : Include(map, id, volume)[k] = map[k]
    BY <1>2, <2>2, <2>3
  <2>5. IsMap(Include(map, id, volume))
    BY <2>2, <2>3
  <2> QED BY <1>2, <2>4, <2>5
<1> QED BY <1>1, <1>2

\* The volumes of a service.
LEMMA ServiceVolumes ==
  ASSUME NEW service \in Service
  PROVE  /\ DOMAIN service.volumes \subseteq VolumeIds
         /\ \A id \in DOMAIN service.volumes : service.volumes[id] \in VolumeString
BY DEF Service

\* A volume string that parses gives a volume.
LEMMA ProcessedIsVolume ==
  ASSUME NEW v \in VolumeString, processVolume(v) # Nil
  PROVE  processVolume(v) \in Volume
<1>1. v # Garbled /\ v \in [scheme : Schemes, src : Sources, opts : OptionSets]
  BY DEF processVolume, VolumeString
<1>2. CASE v.scheme # "nfs"
  BY <1>1, <1>2 DEF processVolume, Volume, Schemes
<1>3. CASE v.scheme = "nfs"
  <2>1. ~(Len(v.src) < 3)
    BY <1>1, <1>3 DEF processVolume
  <2>2. v.src # <<>>
    BY <2>1
  <2>3. Tail(v.src) \in {Tail(x) : x \in Sources \ {<<>>}}
    BY <1>1, <2>2
  <2> QED BY <1>1, <1>3, <2>1, <2>3 DEF processVolume, Volume
<1> QED BY <1>2, <1>3

\* Where the iteration over the services stands.
LEMMA HeadIsNext ==
  ASSUME Progress, services # <<>>
  PROVE  /\ Taken \in 0..(Len(app) - 1)
         /\ Head(services) = app[Taken + 1]
         /\ Head(services) \in Service
         /\ VolumesOf(services) = DOMAIN app[Taken + 1].volumes
<1>1. Len(services) \in Nat \ {0} /\ Len(app) \in Nat
  BY DEF Progress
<1>2. Head(services) = services[1] /\ Head(services) \in Service
  BY <1>1 DEF Progress
<1>3. services[1] = app[Taken + 1]
  BY <1>1 DEF Progress
<1>4. Taken \in 0..(Len(app) - 1)
  BY <1>1 DEF Progress, Taken
<1> QED BY <1>2, <1>3, <1>4 DEF VolumesOf

\* A service is taken off the list.
LEMMA NextServiceTakes ==
  ASSUME Progress, services # <<>>, NextService, app' = app
  PROVE  /\ services' \in Seq(Service)
         /\ Len(services') <= Len(app')
         /\ Taken' = Taken + 1
         /\ \A j \in 1..Len(services') : services'[j] = app'[Taken' + j]
         /\ Mounting'
         /\ mounts' = <<>>
<1>1. Len(services) \in Nat \ {0} /\ Len(app) \in Nat
  BY DEF Progress
<1>2. /\ services' \in Seq(Service)
      /\ Len(services') = Len(services) - 1
      /\ \A j \in 1..Len(services') : services'[j] = services[j + 1]
  BY <1>1 DEF Progress, NextService
<1>3. Taken' = Taken + 1
  BY <1>1, <1>2 DEF Taken
<1>4. \A j \in 1..Len(services') : services'[j] = app'[Taken' + j]
  <2> SUFFICES ASSUME NEW j \in 1..Len(services') PROVE services'[j] = app'[Taken' + j]
    OBVIOUS
  <2>1. j + 1 \in 1..Len(services) /\ Taken \in Int /\ j \in Int
    BY <1>1, <1>2 DEF Taken
  <2>2. services[j + 1] = app[Taken + (j + 1)]
    BY <2>1 DEF Progress
  <2>3. Taken + (j + 1) = Taken' + j
    BY <1>3, <2>1
  <2> QED BY <1>2, <2>2, <2>3
<1>5. Len(services') <= Len(app')
  BY <1>1, <1>2 DEF Progress
<1>6. Mounting' /\ mounts' = <<>>
  <2>1. mounts' = <<>> /\ pending' = VolumesOf(services)'
    BY DEF NextService, VolumesOf
  <2>2. (mounts = <<>> /\ pending = VolumesOf(services) => Mounting)'
    BY NothingMounted, PTL
  <2> QED BY <2>1, <2>2
<1> QED BY <1>2, <1>3, <1>4, <1>5, <1>6

LEMMA InitProgress == Init => Progress /\ SourcesOK
<1> SUFFICES ASSUME Init PROVE Progress /\ SourcesOK
  OBVIOUS
<1>1. app \in Seq(Service) /\ Len(app) \in Nat
  BY AppsAssumption DEF Init
<1>2. Taken = 0 /\ \A j \in 1..Len(services) : services[j] = app[Taken + j]
  BY <1>1 DEF Init, Taken
<1>3. Mounting
  BY NothingMounted DEF Init
<1>4. containers \in Seq(Containers) /\ Len(containers) = 0
  BY DEF Init
<1>5. DOMAIN sourceMap = {} /\ DOMAIN pvcs = {}
  BY DEF Init
<1>6. Progress
  BY <1>1, <1>2, <1>3, <1>4, <1>5 DEF Init, Progress
<1>7. IsMap(sourceMap) /\ IsMap(pvcs)
  BY DEF Init, IsMap
<1>8. SourcesOK
  BY <1>5, <1>7 DEF Init, SourcesOK
<1> QED BY <1>6, <1>8

\* A volume is put into the source map, or its service is skipped.
LEMMA VolumeProgress ==
  ASSUME Progress, SourcesOK, NEW id \in VolumeIds, TransformVolume(id)
  PROVE  /\ Progress' /\ SourcesOK'
         /\ DOMAIN sourceMap \subseteq DOMAIN sourceMap'
<1> DEFINE volume == processVolume(Head(services).volumes[id])
<1>1. /\ pc = "transform" /\ id \in pending
      /\ app' = app /\ pc' = pc /\ containers' = containers
      /\ securityContext' = securityContext /\ unrendered' = unrendered /\ pvcs' = pvcs
  BY DEF TransformVolume, triple
<1>2. id \in VolumesOf(services) /\ services # <<>>
  BY <1>1 DEF Progress, Mounting, VolumesOf
<1>3. Len(containers) <= Taken /\ Len(containers) \in Nat /\ Taken \in Nat
  BY <1>2, HeadIsNext DEF Progress
<1>4. CASE volume = Nil
  <2>1. NextService /\ sourceMap' = sourceMap
    BY <1>4 DEF TransformVolume
  <2>2. /\ services' \in Seq(Service)
        /\ Len(services') <= Len(app')
        /\ Taken' = Taken + 1
        /\ \A j \in 1..Len(services') : services'[j] = app'[Taken' + j]
        /\ Mounting'
    BY <1>1, <1>2, <2>1, NextServiceTakes
  <2>3. Len(containers') <= Taken'
    BY <1>1, <1>3, <2>2
  <2>4. Progress'
    BY <1>1, <2>2, <2>3 DEF Progress
  <2>5. SourcesOK'
    BY <1>1, <2>1 DEF SourcesOK
  <2> QED BY <2>1, <2>4, <2>5
<1>5. CASE volume # Nil
  <2>1. /\ sourceMap' = Include(sourceMap, id, volume)
        /\ mounts' = Append(mounts, id) /\ pending' = pending \ {id}
        /\ services' = services
    BY <1>5 DEF TransformVolume
  <2>2. volume \in Volume
    <3>1. Head(services) \in Service /\ id \in DOMAIN Head(services).volumes
      BY <1>2, HeadIsNext DEF VolumesOf
    <3>2. Head(services).volumes[id] \in VolumeString
      BY <3>1, ServiceVolumes
    <3> QED BY <1>5, <3>2, ProcessedIsVolume
  <2>3. Taken' = Taken
    BY <1>1, <2>1 DEF Taken
  <2>4. Mounting'
    BY <1>1, <2>1, OneMoreMounted DEF Progress
  <2>5. Progress'
    BY <1>1, <2>1, <2>3, <2>4 DEF Progress
  <2> HIDE DEF volume
  <2>6. /\ DOMAIN sourceMap' = DOMAIN sourceMap \cup {id}
        /\ id \notin DOMAIN sourceMap => sourceMap'[id] = volume
        /\ \A k \in DOMAIN sourceMap : sourceMap'[k] = sourceMap[k]
        /\ IsMap(sourceMap')
    <3> DEFINE inc == Include(sourceMap, id, volume)
    <3>1. /\ DOMAIN inc = DOMAIN sourceMap \cup {id}
          /\ id \notin DOMAIN sourceMap => inc[id] = volume
          /\ \A k \in DOMAIN sourceMap : inc[k] = sourceMap[k]
          /\ IsMap(inc)
      <4>1. IsMap(sourceMap)
        BY DEF SourcesOK
      <4> QED BY ONLY <4>1, IncludeForm
    <3>2. sourceMap' = inc
      BY <2>1 DEF volume
    <3> HIDE DEF inc
    <3> QED BY ONLY <3>1, <3>2
  <2>7. \A k \in DOMAIN sourceMap' : sourceMap'[k] \in Volume
    BY <2>2, <2>6 DEF SourcesOK
  <2>8. SourcesOK'
    BY <1>1, <2>6, <2>7 DEF SourcesOK
  <2> QED BY <2>5, <2>6, <2>8
<1> QED BY <1>4, <1>5

\* The container of a service is one.
LEMMA ContainerType ==
  ASSUME Progress, services # <<>>
  PROVE  pending = {} => Container(Head(services)) \in Containers
<1>1. Head(services) \in Service /\ mounts \in Seq(VolumeIds)
  BY HeadIsNext DEF Progress, Mounting
<1>2. HasService(Head(services)) \in BOOLEAN
  BY DEF HasService
<1> QED BY <1>1, <1>2 DEF Container, Containers, Service

LEMMA ServiceProgress ==
  ASSUME Progress, SourcesOK, TransformService
  PROVE  /\ Progress' /\ SourcesOK'
         /\ Len(containers') = Len(containers) + 1
         /\ containers'[Len(containers) + 1] = Container(Head(services))
         /\ \A i \in 1..Len(containers) : containers'[i] = containers[i]
<1>1. /\ pc = "transform" /\ services # <<>> /\ pending = {}
      /\ containers' = Append(containers, Container(Head(services)))
      /\ NextService
      /\ app' = app /\ pc' = pc /\ sourceMap' = sourceMap
      /\ securityContext' = securityContext /\ unrendered' = unrendered /\ pvcs' = pvcs
  BY DEF TransformService, triple
<1>2. Container(Head(services)) \in Containers
  BY <1>1, ContainerType
<1> DEFINE c == Container(Head(services))
<1> HIDE DEF c
<1>3. /\ containers' \in Seq(Containers)
      /\ Len(containers') = Len(containers) + 1
      /\ containers'[Len(containers) + 1] = c
      /\ \A i \in 1..Len(containers) : containers'[i] = containers[i]
  <2>1. containers' = Append(containers, c) /\ c \in Containers /\ containers \in Seq(Containers)
    BY <1>1, <1>2 DEF Progress, c
  <2>2. /\ Append(containers, c) \in Seq(Containers)
        /\ Len(Append(containers, c)) = Len(containers) + 1
        /\ \A i \in 1..Len(containers) : Append(containers, c)[i] = containers[i]
        /\ Append(containers, c)[Len(containers) + 1] = c
    BY <2>1, AppendProperties
  <2> QED BY <2>1, <2>2
<1>4. /\ services' \in Seq(Service)
      /\ Len(services') <= Len(app')
      /\ Taken' = Taken + 1
      /\ \A j \in 1..Len(services') : services'[j] = app'[Taken' + j]
      /\ Mounting'
  BY <1>1, NextServiceTakes
<1>5. Len(containers') <= Taken'
  <2>1. Len(containers) <= Taken /\ Len(containers) \in Nat /\ Taken \in Nat
    BY <1>1, HeadIsNext DEF Progress
  <2> QED BY <1>3, <1>4, <2>1
<1>6. Progress'
  BY <1>1, <1>3, <1>4, <1>5 DEF Progress
<1>7. SourcesOK'
  BY <1>1 DEF SourcesOK
<1> QED BY <1>3, <1>6, <1>7 DEF c

\* After the last service: the rendering begins, unless there is nothing to render.
LEMMA ResolveProgress ==
  ASSUME Progress, SourcesOK, Resolve
  PROVE  Progress' /\ SourcesOK'
<1>1. /\ pc = "transform" /\ services = <<>>
      /\ app' = app /\ services' = services /\ pending' = pending /\ mounts' = mounts
      /\ containers' = containers /\ sourceMap' = sourceMap /\ pvcs' = pvcs
      /\ pc' \in {"nothing", "render"}
      /\ unrendered' \subseteq DOMAIN sourceMap
      /\ securityContext' \in {Nil, "inst", "user"}
  BY DEF Resolve, triple, ResolveSC, ExtractSC
<1>2. Taken' = Taken /\ Mounting'
  BY <1>1, SameMounting DEF Taken, Progress
<1>3. Progress'
  BY <1>1, <1>2 DEF Progress
<1>4. SourcesOK'
  BY <1>1 DEF SourcesOK
<1> QED BY <1>3, <1>4

\* The rendering of a claim.
LEMMA PVCProgress ==
  ASSUME Progress, SourcesOK, NEW id \in VolumeIds, RenderPVC(id)
  PROVE  Progress' /\ SourcesOK'
<1>1. /\ pc = "render" /\ id \in unrendered
      /\ app' = app /\ services' = services /\ pending' = pending /\ mounts' = mounts
      /\ containers' = containers /\ sourceMap' = sourceMap
      /\ securityContext' = securityContext
      /\ pc' \in {"render", "failed"}
      /\ unrendered' \subseteq unrendered
  BY DEF RenderPVC, triple
<1>2. Taken' = Taken /\ Mounting'
  BY <1>1, SameMounting DEF Taken, Progress
<1>3. Progress'
  BY <1>1, <1>2 DEF Progress
<1>4. IsMap(pvcs')
  <2>1. CASE pvcs' = pvcs
    BY <2>1 DEF SourcesOK
  <2>2. CASE pvcs' # pvcs
    <3>1. pvcs' = Put(pvcs, PVCName(id), PVC(sourceMap[id].opts))
      BY <2>2 DEF RenderPVC
    <3> QED BY ONLY <3>1, PutForm
  <2> QED BY <2>1, <2>2
<1>5. SourcesOK'
  BY <1>1, <1>4 DEF SourcesOK
<1> QED BY <1>3, <1>5

\* The artifacts are handed over as they were rendered.
LEMMA HandedOver ==
  ASSUME RenderServices
  PROVE  /\ pc = "render" /\ unrendered = {} /\ pc' = "done"
         /\ artifacts'.containers = containers
         /\ artifacts'.volumes = sourceMap
         /\ artifacts'.pvcs = pvcs
         /\ app' = app /\ services' = services /\ pending' = pending /\ mounts' = mounts
         /\ containers' = containers /\ sourceMap' = sourceMap /\ pvcs' = pvcs
         /\ securityContext' = securityContext /\ unrendered' = unrendered
BY DEF RenderServices, triple

LEMMA DoneProgress ==
  ASSUME Progress, SourcesOK, RenderServices
  PROVE  Progress' /\ SourcesOK'
<1>1. Taken' = Taken /\ Mounting'
  BY HandedOver, SameMounting DEF Taken, Progress
<1>2. Progress'
  BY <1>1, HandedOver DEF Progress
<1>3. SourcesOK'
  BY HandedOver DEF SourcesOK
<1> QED BY <1>2, <1>3

LEMMA FailureProgress ==
  ASSUME Progress, SourcesOK, RenderFails
  PROVE  Progress' /\ SourcesOK'
<1>1. Taken' = Taken /\ Mounting'
  BY SameMounting DEF RenderFails, triple, Taken, Progress
<1>2. Progress'
  BY <1>1 DEF Progress, RenderFails, triple
<1>3. SourcesOK'
  BY DEF SourcesOK, RenderFails, triple
<1> QED BY <1>2, <1>3

LEMMA StutterProgress ==
  ASSUME Progress, SourcesOK, UNCHANGED vars
  PROVE  Progress' /\ SourcesOK'
<1>1. Taken' = Taken /\ Mounting'
  BY SameMounting DEF vars, Taken, Progress
<1>2. Progress'
  BY <1>1 DEF Progress, vars
<1>3. SourcesOK'
  BY DEF SourcesOK, vars
<1> QED BY <1>2, <1>3

LEMMA StepProgress ==
  ASSUME Progress, SourcesOK, [Next]_vars
  PROVE  Progress' /\ SourcesOK'
BY VolumeProgress, ServiceProgress, ResolveProgress, PVCProgress, DoneProgress,
   FailureProgress, StutterProgress
   DEF Next

LEMMA ProgressInvariant == Spec => [](Progress /\ SourcesOK)
<1>1. Progress /\ SourcesOK /\ [Next]_vars => (Progress /\ SourcesOK)'
  BY StepProgress
<1> QED BY InitProgress, <1>1, PTL DEF Spec

\* The types of what is computed, and transformApp takes every service once: never
\* are there more containers than services gone through.
THEOREM TypeCorrect == Spec => []TypeOK
<1>1. Progress /\ SourcesOK => TypeOK
  <2> SUFFICES ASSUME Progress, SourcesOK PROVE TypeOK
    OBVIOUS
  <2>1. Len(containers) + Len(services) <= Len(app)
    <3>1. Len(containers) \in Nat /\ Len(services) \in Nat /\ Len(app) \in Nat
      BY DEF Progress
    <3> QED BY <3>1 DEF Progress, Taken
  <2> QED BY <2>1 DEF Progress, Mounting, SourcesOK, TypeOK
<1> QED BY <1>1, ProgressInvariant, PTL

-----------------------------------------------------------------------------
(* Mounts, volumes and claims *)

\* What a container mounts, and what the service at hand has mounted so far, is in
\* the source map: an entry is written before its mount is, and never removed.
Backed ==
  /\ ToSet(mounts) \subseteq DOMAIN sourceMap
  /\ \A i \in 1..Len(containers) : ToSet(containers[i].mounts) \subseteq DOMAIN sourceMap

LEMMA VolumeBacked ==
  ASSUME Progress, SourcesOK, Backed, NEW id \in VolumeIds, TransformVolume(id)
  PROVE  Backed'
<1>1. containers' = containers /\ DOMAIN sourceMap \subseteq DOMAIN sourceMap'
  BY VolumeProgress DEF TransformVolume
<1>2. CASE mounts' = <<>>
  <2>1. ToSet(mounts') = {}
    BY <1>2, MountsForm
  <2> QED BY <1>1, <2>1 DEF Backed, ToSet
<1>3. CASE mounts' # <<>>
  <2>1. /\ mounts' = Append(mounts, id)
        /\ sourceMap' = Include(sourceMap, id, processVolume(Head(services).volumes[id]))
    BY <1>3 DEF TransformVolume, NextService
  <2>2. id \in DOMAIN sourceMap'
    <3> DEFINE v == processVolume(Head(services).volumes[id])
    <3>1. IsMap(sourceMap) /\ sourceMap' = Include(sourceMap, id, v)
      BY <2>1 DEF SourcesOK
    <3> HIDE DEF v
    <3>2. DOMAIN Include(sourceMap, id, v) = DOMAIN sourceMap \cup {id}
      BY ONLY <3>1, IncludeForm
    <3> QED BY <3>1, <3>2
  <2>3. ToSet(mounts') = ToSet(mounts) \cup {id}
    BY <2>1, MountsForm DEF Progress, Mounting
  <2>4. ToSet(mounts') \subseteq DOMAIN sourceMap'
    BY <1>1, <2>2, <2>3 DEF Backed
  <2>5. \A i \in 1..Len(containers') : ToSet(containers'[i].mounts) \subseteq DOMAIN sourceMap'
    BY <1>1 DEF Backed
  <2> QED BY <2>4, <2>5 DEF Backed, ToSet
<1> QED BY <1>2, <1>3

LEMMA ServiceBacked ==
  ASSUME Progress, SourcesOK, Backed, TransformService
  PROVE  Backed'
<1>1. /\ ToSet(mounts') = {} /\ sourceMap' = sourceMap
      /\ Container(Head(services)).mounts = mounts
  BY MountsForm DEF TransformService, NextService, Container
<1>2. /\ Len(containers') = Len(containers) + 1
      /\ containers'[Len(containers) + 1] = Container(Head(services))
      /\ \A i \in 1..Len(containers) : containers'[i] = containers[i]
      /\ Len(containers) \in Nat
  BY ServiceProgress DEF Progress
<1>3. ASSUME NEW i \in 1..Len(containers') PROVE ToSet(containers'[i].mounts) \subseteq DOMAIN sourceMap'
  <2>1. i \in 1..Len(containers) \/ i = Len(containers) + 1
    BY <1>2
  <2> QED BY <1>1, <1>2, <2>1 DEF Backed
<1> QED BY <1>1, <1>3 DEF Backed, ToSet

LEMMA StepBacked ==
  ASSUME Progress, SourcesOK, Backed, [Next]_vars
  PROVE  Backed'
<1>1. ASSUME NEW id \in VolumeIds, TransformVolume(id) PROVE Backed'
  BY <1>1, VolumeBacked
<1>2. ASSUME NEW id \in VolumeIds, RenderPVC(id) PROVE Backed'
  BY <1>2 DEF RenderPVC, Backed, ToSet
<1>3. CASE TransformService
  BY <1>3, ServiceBacked
<1>4. CASE Resolve
  BY <1>4 DEF Resolve, Backed, ToSet
<1>5. CASE RenderServices
  BY <1>5, HandedOver DEF Backed, ToSet
<1>6. CASE UNCHANGED vars
  BY <1>6 DEF vars, Backed, ToSet
<1>7. CASE RenderFails
  BY <1>7 DEF RenderFails, Backed, ToSet
<1> QED BY <1>1, <1>2, <1>3, <1>4, <1>5, <1>6, <1>7 DEF Next

\* Whatever the order in which volumes are parsed, and whichever services are skipped
\* on the way, a pod has every volume that its containers mount.
THEOREM AllMountsAreBacked == Spec => []MountsAreBacked
<1>1. Init => Backed
  BY MountsForm DEF Init, Backed
<1>2. Progress /\ SourcesOK /\ Backed /\ [Next]_vars => Backed'
  BY StepBacked
<1>3. Backed => MountsAreBacked
  BY DEF Backed, MountsAreBacked
<1> QED BY <1>1, <1>2, <1>3, ProgressInvariant, PTL DEF Spec

\* While claims are rendered, the claim of a volume is rendered or will be; at the end
\* the artifacts are what was rendered.
Provided ==
  /\ pc \in {"render", "done"} =>
       \A id \in DOMAIN sourceMap :
         IsClaim(id) => id \in unrendered \/ PVCName(id) \in DOMAIN pvcs
  /\ pc = "done" =>
       /\ unrendered = {}
       /\ artifacts.containers = containers
       /\ artifacts.volumes = sourceMap
       /\ artifacts.pvcs = pvcs

LEMMA PVCProvided ==
  ASSUME Provided, NEW id \in VolumeIds, RenderPVC(id)
  PROVE  Provided'
<1>1. pc = "render" /\ id \in unrendered /\ sourceMap' = sourceMap
  BY DEF RenderPVC
<1>2. CASE pc' = "failed"
  BY <1>2 DEF Provided
<1>3. CASE pc' # "failed"
  <2>1. /\ pc' = "render" /\ unrendered' = unrendered \ {id}
        /\ pvcs' = Put(pvcs, PVCName(id), PVC(sourceMap[id].opts))
    BY <1>1, <1>3 DEF RenderPVC
  <2>2. DOMAIN pvcs' = DOMAIN pvcs \cup {PVCName(id)}
    BY <2>1, PutForm
  <2> QED BY <1>1, <2>1, <2>2 DEF Provided, IsClaim, PVCName
<1> QED BY <1>2, <1>3

LEMMA StepProvided ==
  ASSUME Provided, [Next]_vars
  PROVE  Provided'
<1>1. ASSUME NEW id \in VolumeIds, TransformVolume(id) PROVE Provided'
  BY <1>1 DEF TransformVolume, Provided
<1>2. ASSUME NEW id \in VolumeIds, RenderPVC(id) PROVE Provided'
  BY <1>2, PVCProvided
<1>3. CASE TransformService
  BY <1>3 DEF TransformService, Provided
<1>4. CASE Resolve
  <2>1. CASE pc' = "nothing"
    BY <2>1 DEF Provided
  <2>2. CASE pc' = "render"
    <3>1. unrendered' = {id \in DOMAIN sourceMap : IsClaim(id)} /\ sourceMap' = sourceMap
      BY <1>4, <2>2 DEF Resolve
    <3> QED BY <2>2, <3>1 DEF Provided, IsClaim
  <2> QED BY <1>4, <2>1, <2>2 DEF Resolve
<1>5. CASE RenderServices
  BY <1>5, HandedOver DEF Provided, IsClaim, PVCName
<1>6. CASE UNCHANGED vars
  BY <1>6 DEF vars, Provided, IsClaim, PVCName
<1>7. CASE RenderFails
  BY <1>7 DEF RenderFails, Provided
<1> QED BY <1>1, <1>2, <1>3, <1>4, <1>5, <1>6, <1>7 DEF Next

LEMMA ProvidedInvariant == Spec => []Provided
<1>1. Init => Provided
  BY DEF Init, Provided
<1>2. Provided /\ [Next]_vars => Provided'
  BY StepProvided
<1> QED BY <1>1, <1>2, PTL DEF Spec

\* Every claim that the pod mounts is among the rendered ones, under the same name.
THEOREM AllClaimsAreProvided == Spec => []ClaimsAreProvided
<1>1. Provided => ClaimsAreProvided
  BY DEF Provided, ClaimsAreProvided, IsClaim, PVCName
<1> QED BY <1>1, ProvidedInvariant, PTL

-----------------------------------------------------------------------------
(* What the order of iteration shows in *)

UpTo(k) == {i \in Transformed : i <= k}

\* A container is what its service becomes, in some order of its mounts.
Becomes(container, service) ==
  /\ container.name = service.name
  /\ MountedOnce(container.mounts, DOMAIN service.volumes)

\* Halfway, the services gone through have become what the reference makes of
\* them, and the volumes mounted so far are of a service that is to become a container.
Follows ==
  /\ Len(containers) = Position(Taken)
  /\ \A i \in Transformed : i <= Taken => Becomes(containers[Position(i)], app[i])
  /\ DOMAIN sourceMap = ToSet(mounts) \cup UNION {DOMAIN app[i].volumes : i \in UpTo(Taken)}
  /\ \A id \in DOMAIN sourceMap : sourceMap[id] = VolumeFor(id)
  /\ ToSet(mounts) # {} => Taken + 1 \in Transformed

\* Halfway through the claims, those rendered say what each of their volumes asks for.
Claims == {id \in DOMAIN sourceMap : IsClaim(id)}
RenderedSoFar ==
  pc \in {"render", "done"} =>
    /\ unrendered \subseteq Claims
    /\ DOMAIN pvcs = {PVCName(id) : id \in Claims \ unrendered}
    /\ \A id \in Claims \ unrendered : pvcs[PVCName(id)] = PVC(sourceMap[id].opts)

Determined == OrderFree => Follows /\ RenderedSoFar

\* The places of containers: each service that parses takes the next.
LEMMA PositionSteps ==
  ASSUME app \in Seq(Service), NEW k \in Nat
  PROVE  /\ Position(k) \in Nat
         /\ k + 1 \in Transformed => Position(k + 1) = Position(k) + 1
         /\ k + 1 \notin Transformed => Position(k + 1) = Position(k)
         /\ \A i \in UpTo(k) : Position(i) \in 1..Position(k)
<1>1. Len(app) \in Nat /\ IsFiniteSet(1..Len(app))
  BY FS_Interval
<1>2. IsFiniteSet(Transformed) /\ \A j \in Transformed : j \in Int
  <2>1. Transformed \subseteq 1..Len(app)
    BY DEF Transformed
  <2>2. \A j \in 1..Len(app) : j \in Int
    BY <1>1
  <2> QED BY <1>1, <2>1, <2>2, FS_Subset
<1>3. \A j : IsFiniteSet(UpTo(j)) /\ Position(j) = Cardinality(UpTo(j)) /\ Position(j) \in Nat
  <2> TAKE j
  <2>1. UpTo(j) \subseteq Transformed
    BY DEF UpTo
  <2>2. IsFiniteSet(UpTo(j))
    BY <1>2, <2>1, FS_Subset
  <2>3. Position(j) = Cardinality(UpTo(j))
    BY DEF Position, UpTo
  <2> QED BY <2>2, <2>3, FS_CardinalityType
<1>4. ASSUME k + 1 \in Transformed PROVE Position(k + 1) = Position(k) + 1
  <2>1. UpTo(k + 1) = UpTo(k) \cup {k + 1} /\ k + 1 \notin UpTo(k)
    <3>1. \A j \in Transformed : j <= k + 1 <=> j <= k \/ j = k + 1
      BY <1>2
    <3>2. ~(k + 1 <= k)
      OBVIOUS
    <3> QED BY <1>4, <3>1, <3>2 DEF UpTo
  <2>2. Cardinality(UpTo(k) \cup {k + 1}) = Cardinality(UpTo(k)) + 1
    BY <1>3, <2>1, FS_AddElement
  <2> QED BY <1>3, <2>1, <2>2
<1>5. ASSUME k + 1 \notin Transformed PROVE Position(k + 1) = Position(k)
  <2>1. UpTo(k + 1) = UpTo(k)
    <3>1. \A j \in Transformed : j <= k + 1 <=> j <= k \/ j = k + 1
      BY <1>2
    <3> QED BY <1>5, <3>1 DEF UpTo
  <2> QED BY <1>3, <2>1
<1>6. ASSUME NEW i \in UpTo(k) PROVE Position(i) \in 1..Position(k)
  <2>1. i \in UpTo(i) /\ UpTo(i) \subseteq UpTo(k)
    <3>1. i \in Transformed /\ i \in Int /\ i <= k /\ i <= i
      BY <1>2 DEF UpTo
    <3>2. \A j \in Transformed : j <= i => j <= k
      BY <1>2, <3>1
    <3> QED BY <3>1, <3>2 DEF UpTo
  <2>2. Cardinality(UpTo(i)) <= Cardinality(UpTo(k))
    BY <1>3, <2>1, FS_Subset
  <2>3. Cardinality(UpTo(i)) # 0
    BY <1>3, <2>1, FS_EmptySet
  <2> QED BY <1>3, <2>2, <2>3
<1> QED BY <1>3, <1>4, <1>5, <1>6

\* At the ends of the list.
LEMMA PositionEnds ==
  ASSUME app \in Seq(Service)
  PROVE  Position(0) = 0 /\ Position(Len(app)) = Cardinality(Transformed)
<1>1. {j \in Transformed : j <= 0} = {}
  BY DEF Transformed
<1>2. {j \in Transformed : j <= Len(app)} = Transformed
  BY DEF Transformed
<1> QED BY <1>1, <1>2, FS_EmptySet DEF Position

\* The first service with a volume of a name, once it is found, is the one.
LEMMA FirstIs ==
  ASSUME app \in Seq(Service), NEW i \in Transformed, NEW id \in DOMAIN app[i].volumes,
         \A j \in Transformed : id \in DOMAIN app[j].volumes => i <= j
  PROVE  FirstWith(id) = i
<1>1. Transformed \subseteq Int
  BY DEF Transformed
<1> DEFINE First(j) == /\ id \in DOMAIN app[j].volumes
                       /\ \A h \in Transformed : id \in DOMAIN app[h].volumes => j <= h
<1>2. First(i)
  OBVIOUS
<1>3. \A j \in Transformed : First(j) => j = i
  <2> SUFFICES ASSUME NEW j \in Transformed, First(j) PROVE j = i
    OBVIOUS
  <2>1. j <= i /\ i <= j
    OBVIOUS
  <2>2. j \in Int /\ i \in Int
    BY <1>1
  <2> QED BY <2>1, <2>2
<1>4. FirstWith(id) = CHOOSE j \in Transformed : First(j)
  BY DEF FirstWith
<1> HIDE DEF First
<1> QED BY <1>2, <1>3, <1>4

\* The reference speaks of the app alone.
LEMMA SameReference ==
  ASSUME app' = app
  PROVE  /\ Transformed' = Transformed
         /\ OrderFree' = OrderFree
         /\ \A i : Position(i)' = Position(i) /\ UpTo(i)' = UpTo(i)
         /\ \A id : VolumeFor(id)' = VolumeFor(id)
<1>1. Transformed' = Transformed
  BY DEF Transformed
<1>2. \A id : VolumeFor(id)' = VolumeFor(id)
  BY <1>1 DEF VolumeFor, FirstWith
<1>3. Declared' = Declared
  BY <1>1 DEF Declared
<1>4. OrderFree' = OrderFree
  BY <1>2, <1>3 DEF OrderFree
<1> QED BY <1>1, <1>2, <1>4 DEF Position, UpTo

\* A service that is not half parsed is skipped before any volume of it is mounted;
\* one that parses mounts all.
LEMMA VolumeFollows ==
  ASSUME Progress, SourcesOK, OrderFree, Follows, NEW id \in VolumeIds, TransformVolume(id)
  PROVE  Follows'
<1> DEFINE k == Taken
           volume == processVolume(app[k + 1].volumes[id])
<1>1. id \in pending /\ services # <<>> /\ app' = app /\ containers' = containers
  <2>1. id \in pending /\ id \in VolumesOf(services)
    BY DEF TransformVolume, Progress, Mounting
  <2> QED BY <2>1 DEF TransformVolume, triple, VolumesOf
<1>2. /\ k \in Nat /\ k + 1 \in 1..Len(app)
      /\ Head(services) = app[k + 1]
      /\ VolumesOf(services) = DOMAIN app[k + 1].volumes
  BY <1>1, HeadIsNext DEF Progress
<1>3. id \in DOMAIN app[k + 1].volumes
  BY <1>1, <1>2 DEF Progress, Mounting
<1>4. app \in Seq(Service) /\ \A j \in Transformed : j \in Int
  BY DEF Progress, Transformed
<1>5. /\ Transformed' = Transformed
      /\ \A i : Position(i)' = Position(i) /\ UpTo(i)' = UpTo(i)
      /\ \A x : VolumeFor(x)' = VolumeFor(x)
  BY <1>1, SameReference
<1>6. CASE volume = Nil
  <2>1. NextService /\ sourceMap' = sourceMap /\ ToSet(mounts') = {}
    BY <1>2, <1>6, MountsForm DEF TransformVolume, NextService
  <2>2. ~Parses(app[k + 1])
    BY <1>3, <1>6 DEF Parses
  <2>3. k + 1 \notin Transformed /\ ToSet(mounts) = {}
    BY <2>2 DEF Transformed, Follows
  <2>4. Taken' = k + 1
    BY <1>1, <2>1, NextServiceTakes
  <2>5. UpTo(k + 1) = UpTo(k)
    <3>1. \A j \in Transformed : j <= k + 1 <=> j <= k \/ j = k + 1
      BY <1>2, <1>4
    <3> QED BY <2>3, <3>1 DEF UpTo
  <2>6. Position(k + 1) = Position(k)
    BY <1>2, <1>4, <2>3, PositionSteps
  <2> HIDE DEF k, volume
  <2>7. \A i \in Transformed : i <= k + 1 => i <= k
    BY <2>5 DEF UpTo
  <2>8. /\ Len(containers) = Position(k)
        /\ \A i \in Transformed : i <= k => Becomes(containers[Position(i)], app[i])
        /\ DOMAIN sourceMap = ToSet(mounts) \cup UNION {DOMAIN app[i].volumes : i \in UpTo(k)}
        /\ \A x \in DOMAIN sourceMap : sourceMap[x] = VolumeFor(x)
    BY DEF Follows, k
  <2>9. UpTo(Taken)' = UpTo(k + 1) /\ Position(Taken)' = Position(k + 1)
    BY <1>1, <1>5, <2>4 DEF UpTo, Position
  <2>10. DOMAIN sourceMap' = ToSet(mounts') \cup UNION {DOMAIN app'[i].volumes : i \in UpTo(Taken)'}
    BY <1>1, <2>1, <2>3, <2>5, <2>8, <2>9
  <2>11. \A i \in Transformed' : i <= Taken' => Becomes(containers'[Position(i)'], app'[i])
    BY <1>1, <1>5, <2>4, <2>7, <2>8
  <2> QED BY <1>1, <1>5, <2>1, <2>6, <2>8, <2>9, <2>10, <2>11 DEF Follows, Becomes, MountedOnce, ToSet
<1>7. CASE volume # Nil
  <2>1. /\ sourceMap' = Include(sourceMap, id, volume)
        /\ mounts' = Append(mounts, id) /\ services' = services
        /\ ToSet(mounts') = ToSet(mounts) \cup {id}
    BY <1>2, <1>7, MountsForm DEF TransformVolume, Progress, Mounting
  <2>2. Parses(app[k + 1])
    BY <1>2, <1>3, <1>7 DEF OrderFree, HalfParsed
  <2>3. k + 1 \in Transformed
    BY <1>2, <2>2 DEF Transformed
  <2>4. Taken' = k
    BY <1>1, <2>1 DEF Taken
  <2>5. id \notin DOMAIN sourceMap => VolumeFor(id) = volume
    <3> SUFFICES ASSUME id \notin DOMAIN sourceMap PROVE VolumeFor(id) = volume
      OBVIOUS
    <3>1. ASSUME NEW j \in Transformed, id \in DOMAIN app[j].volumes PROVE k + 1 <= j
      <4>1. j \notin UpTo(k)
        BY <3>1 DEF Follows
      <4> QED BY <1>2, <1>4, <3>1, <4>1 DEF UpTo
    <3>2. FirstWith(id) = k + 1
      BY <1>3, <1>4, <2>3, <3>1, FirstIs
    <3> QED BY <3>2 DEF VolumeFor
  <2> HIDE DEF k, volume
  <2>6. /\ DOMAIN sourceMap' = DOMAIN sourceMap \cup {id}
        /\ id \notin DOMAIN sourceMap => sourceMap'[id] = volume
        /\ \A x \in DOMAIN sourceMap : sourceMap'[x] = sourceMap[x]
    <3> DEFINE inc == Include(sourceMap, id, volume)
    <3>1. IsMap(sourceMap) /\ sourceMap' = inc
      BY <2>1 DEF SourcesOK
    <3>2. /\ DOMAIN inc = DOMAIN sourceMap \cup {id}
          /\ id \notin DOMAIN sourceMap => inc[id] = volume
          /\ \A x \in DOMAIN sourceMap : inc[x] = sourceMap[x]
          /\ IsMap(inc)
      <4>1. IsMap(sourceMap)
        BY <3>1
      <4> QED BY ONLY <4>1, IncludeForm
    <3> HIDE DEF inc
    <3> QED BY ONLY <3>1, <3>2
  <2>7. \A x \in DOMAIN sourceMap' : sourceMap'[x] = VolumeFor(x)'
    BY <1>5, <2>5, <2>6 DEF Follows
  <2>8. UpTo(Taken)' = UpTo(Taken) /\ Position(Taken)' = Position(Taken)
    BY <1>1, <1>5, <2>4 DEF UpTo, Position, k
  <2>9. DOMAIN sourceMap' = ToSet(mounts') \cup UNION {DOMAIN app'[i].volumes : i \in UpTo(Taken)'}
    BY <1>1, <2>1, <2>6, <2>8 DEF Follows
  <2>10. Taken' = Taken
    BY <2>4 DEF k
  <2>11. Taken' + 1 \in Transformed'
    BY <1>5, <2>3, <2>10 DEF k
  <2>12. \A i \in Transformed' : i <= Taken' => Becomes(containers'[Position(i)'], app'[i])
    BY <1>1, <1>5, <2>10 DEF Follows
  <2>13. Len(containers') = Position(Taken)'
    BY <1>1, <2>8 DEF Follows
  <2> QED BY <2>7, <2>9, <2>11, <2>12, <2>13 DEF Follows, Becomes, MountedOnce, ToSet
<1> QED BY <1>6, <1>7

\* The service at hand takes the next place.
LEMMA ServiceFollows ==
  ASSUME Progress, SourcesOK, Follows, TransformService
  PROVE  Follows'
<1> DEFINE k == Taken
<1>1. /\ services # <<>> /\ pending = {} /\ NextService
      /\ app' = app /\ sourceMap' = sourceMap /\ ToSet(mounts') = {}
  BY MountsForm DEF TransformService, triple, NextService
<1>2. /\ k \in Nat /\ k + 1 \in 1..Len(app)
      /\ Head(services) = app[k + 1]
      /\ VolumesOf(services) = DOMAIN app[k + 1].volumes
  BY <1>1, HeadIsNext DEF Progress
<1>3. app \in Seq(Service) /\ \A j \in Transformed : j \in Int
  BY DEF Progress, Transformed
<1>4. /\ Transformed' = Transformed
      /\ \A i : Position(i)' = Position(i) /\ UpTo(i)' = UpTo(i)
      /\ \A x : VolumeFor(x)' = VolumeFor(x)
  BY <1>1, SameReference
<1>5. ToSet(mounts) = DOMAIN app[k + 1].volumes /\ MountedOnce(mounts, DOMAIN app[k + 1].volumes)
  BY <1>1, <1>2 DEF Progress, Mounting, MountedOnce
<1>6. k + 1 \in Transformed
  BY <1>2, <1>5 DEF Follows, Transformed, Parses
<1>7. Taken' = k + 1
  BY <1>1, NextServiceTakes
<1>8. Becomes(Container(Head(services)), app[k + 1])
  BY <1>2, <1>5 DEF Container, Becomes
<1>9. /\ Position(k) \in Nat /\ Position(k + 1) = Position(k) + 1
      /\ \A i \in UpTo(k) : Position(i) \in 1..Position(k)
  BY <1>2, <1>3, <1>6, PositionSteps
<1>10. /\ Len(containers') = Len(containers) + 1
       /\ containers'[Len(containers) + 1] = Container(Head(services))
       /\ \A i \in 1..Len(containers) : containers'[i] = containers[i]
  BY ServiceProgress
<1>11. UpTo(k + 1) = UpTo(k) \cup {k + 1}
  <2>1. \A j \in Transformed : j <= k + 1 <=> j <= k \/ j = k + 1
    BY <1>2, <1>3
  <2> QED BY <1>6, <2>1 DEF UpTo
<1> HIDE DEF k
<1>12. UpTo(Taken)' = UpTo(k + 1) /\ Position(Taken)' = Position(k + 1)
  BY <1>1, <1>4, <1>7 DEF UpTo, Position
<1>13. /\ Len(containers) = Position(k)
       /\ \A i \in UpTo(k) : Becomes(containers[Position(i)], app[i])
       /\ DOMAIN sourceMap = ToSet(mounts) \cup UNION {DOMAIN app[i].volumes : i \in UpTo(k)}
       /\ \A x \in DOMAIN sourceMap : sourceMap[x] = VolumeFor(x)
  BY DEF Follows, UpTo, k
<1>14. Len(containers') = Position(Taken)'
  BY <1>9, <1>10, <1>12, <1>13
<1>15. ASSUME NEW i \in Transformed, i <= k + 1
       PROVE  Becomes(containers'[Position(i)], app[i])
  <2>1. CASE i = k + 1
    BY <1>8, <1>9, <1>10, <1>13, <2>1
  <2>2. CASE i # k + 1
    <3>1. i \in UpTo(k)
      BY <1>11, <1>15, <2>2 DEF UpTo
    <3>2. containers'[Position(i)] = containers[Position(i)]
      BY <1>9, <1>10, <1>13, <3>1
    <3> QED BY <1>13, <3>1, <3>2
  <2> QED BY <2>1, <2>2
<1>16. \A i \in Transformed' : i <= Taken' => Becomes(containers'[Position(i)'], app'[i])
  BY <1>1, <1>4, <1>7, <1>15
<1>17. DOMAIN sourceMap' = ToSet(mounts') \cup UNION {DOMAIN app'[i].volumes : i \in UpTo(Taken)'}
  BY <1>1, <1>5, <1>11, <1>12, <1>13
<1>18. \A x \in DOMAIN sourceMap' : sourceMap'[x] = VolumeFor(x)'
  BY <1>1, <1>4, <1>13
<1> QED BY <1>1, <1>14, <1>16, <1>17, <1>18 DEF Follows, Becomes, MountedOnce, ToSet

\* What does not touch the transformation leaves it so.
LEMMA RestFollows ==
  ASSUME Follows,
         app' = app, services' = services, containers' = containers,
         sourceMap' = sourceMap, mounts' = mounts
  PROVE  Follows'
<1>1. /\ Transformed' = Transformed
      /\ \A i : Position(i)' = Position(i) /\ UpTo(i)' = UpTo(i)
      /\ \A x : VolumeFor(x)' = VolumeFor(x)
  BY SameReference
<1>2. Taken' = Taken
  BY DEF Taken
<1>3. UpTo(Taken)' = UpTo(Taken) /\ Position(Taken)' = Position(Taken)
  BY <1>1, <1>2 DEF UpTo, Position
<1> QED BY <1>1, <1>2, <1>3 DEF Follows, Becomes, MountedOnce, ToSet

\* Once all services are gone through, the source map is the reference's.
LEMMA FollowsToTheEnd ==
  ASSUME Progress, Follows, services = <<>>
  PROVE  /\ DOMAIN sourceMap = Declared
         /\ Len(containers) = Cardinality(Transformed)
         /\ \A i \in Transformed : Becomes(containers[Position(i)], app[i])
<1>1. app \in Seq(Service) /\ Len(app) \in Nat
  BY DEF Progress
<1>2. Taken = Len(app)
  BY <1>1 DEF Taken
<1>3. ToSet(mounts) = {}
  BY DEF Progress, Mounting, VolumesOf
<1>4. \A i \in Transformed : i <= Taken
  BY <1>1, <1>2 DEF Transformed
<1>5. UpTo(Taken) = Transformed
  BY <1>4 DEF UpTo
<1>6. DOMAIN sourceMap = Declared
  BY <1>3, <1>5 DEF Follows, Declared
<1>7. Len(containers) = Cardinality(Transformed)
  BY <1>1, <1>2, PositionEnds DEF Follows
<1> QED BY <1>4, <1>6, <1>7 DEF Follows

\* Volumes with one claim agree on it, in an app on which the order has no bearing.
LEMMA ClaimsAgree ==
  ASSUME Progress, Follows, OrderFree, services = <<>>,
         NEW x \in Claims, NEW y \in Claims, PVCName(x) = PVCName(y)
  PROVE  PVC(sourceMap[x].opts) = PVC(sourceMap[y].opts)
<1>1. x \in Declared /\ y \in Declared
  BY FollowsToTheEnd DEF Claims
<1>2. sourceMap[x] = VolumeFor(x) /\ sourceMap[y] = VolumeFor(y)
  BY DEF Follows, Claims
<1> QED BY <1>1, <1>2 DEF OrderFree, PVCName

LEMMA PVCRendered ==
  ASSUME Progress, Follows, OrderFree, RenderedSoFar, NEW id \in VolumeIds, RenderPVC(id)
  PROVE  RenderedSoFar'
<1>1. /\ pc = "render" /\ id \in unrendered /\ services = <<>>
      /\ sourceMap' = sourceMap
  BY DEF RenderPVC, Progress
<1>2. /\ Claims' = Claims
      /\ \A x : PVCName(x)' = PVCName(x)
  BY <1>1 DEF Claims, IsClaim, PVCName
<1>3. CASE pc' = "failed"
  BY <1>3 DEF RenderedSoFar
<1>4. CASE pc' # "failed"
  <2> DEFINE pvc == PVC(sourceMap[id].opts)
  <2>1. unrendered' = unrendered \ {id} /\ pvcs' = Put(pvcs, PVCName(id), pvc)
    BY <1>4 DEF RenderPVC
  <2>2. /\ unrendered \subseteq Claims
        /\ DOMAIN pvcs = {PVCName(x) : x \in Claims \ unrendered}
        /\ \A x \in Claims \ unrendered : pvcs[PVCName(x)] = PVC(sourceMap[x].opts)
    BY <1>1 DEF RenderedSoFar
  <2> HIDE DEF pvc
  <2>3. /\ DOMAIN pvcs' = DOMAIN pvcs \cup {PVCName(id)}
        /\ pvcs'[PVCName(id)] = pvc
        /\ \A c \in DOMAIN pvcs : c # PVCName(id) => pvcs'[c] = pvcs[c]
    <3>1. LET put == Put(pvcs, PVCName(id), pvc) IN
            /\ DOMAIN put = DOMAIN pvcs \cup {PVCName(id)}
            /\ put[PVCName(id)] = pvc
            /\ \A c \in DOMAIN pvcs : c # PVCName(id) => put[c] = pvcs[c]
            /\ IsMap(put)
      BY ONLY PutForm
    <3> QED BY <2>1, <3>1
  <2>4. Claims \ unrendered' = (Claims \ unrendered) \cup {id}
    BY <1>1, <2>1, <2>2
  <2>5. DOMAIN pvcs' = {PVCName(x) : x \in Claims \ unrendered'}
    BY <2>2, <2>3, <2>4
  <2>6. ASSUME NEW x \in Claims \ unrendered'
        PROVE  pvcs'[PVCName(x)] = PVC(sourceMap[x].opts)
    <3>1. CASE PVCName(x) = PVCName(id)
      <4>1. PVC(sourceMap[x].opts) = pvc
        BY <1>1, <2>2, <3>1, ClaimsAgree DEF pvc
      <4> QED BY <2>3, <3>1, <4>1
    <3>2. CASE PVCName(x) # PVCName(id)
      <4>1. x \in Claims \ unrendered
        BY <2>4, <3>2
      <4> QED BY <2>2, <2>3, <3>2, <4>1
    <3> QED BY <3>1, <3>2
  <2> QED BY <1>1, <1>2, <2>1, <2>2, <2>5, <2>6 DEF RenderedSoFar
<1> QED BY <1>3, <1>4

LEMMA ResolveRendered ==
  ASSUME Progress, Resolve
  PROVE  RenderedSoFar'
<1>1. /\ pc = "transform" /\ pvcs' = pvcs /\ sourceMap' = sourceMap
      /\ pc' \in {"nothing", "render"}
      /\ pc' = "render" => unrendered' = {id \in DOMAIN sourceMap : IsClaim(id)}
  BY DEF Resolve
<1>2. CASE pc' = "nothing"
  BY <1>2 DEF RenderedSoFar
<1>3. CASE pc' = "render"
  <2>1. unrendered' = Claims' /\ DOMAIN pvcs' = {}
    BY <1>1, <1>3 DEF Claims, IsClaim, Progress
  <2>2. Claims' \ unrendered' = {}
    BY <2>1
  <2> QED BY <2>1, <2>2 DEF RenderedSoFar
<1> QED BY <1>1, <1>2, <1>3

LEMMA RestRendered ==
  ASSUME RenderedSoFar,
         sourceMap' = sourceMap, unrendered' = unrendered, pvcs' = pvcs,
         pc' \in {"render", "done"} => pc \in {"render", "done"}
  PROVE  RenderedSoFar'
<1>1. /\ Claims' = Claims
      /\ \A x : PVCName(x)' = PVCName(x)
  BY DEF Claims, IsClaim, PVCName
<1> QED BY <1>1 DEF RenderedSoFar

LEMMA InitDetermined == Init => Determined
<1> SUFFICES ASSUME Init PROVE Follows /\ RenderedSoFar
  BY DEF Determined
<1>1. app \in Seq(Service) /\ Len(app) \in Nat
  BY AppsAssumption DEF Init
<1>2. Taken = 0 /\ Len(containers) = 0 /\ ToSet(mounts) = {} /\ DOMAIN sourceMap = {}
  BY <1>1, MountsForm DEF Init, Taken
<1>3. \A i \in Transformed : ~(i <= 0)
  BY DEF Transformed
<1>4. UpTo(0) = {}
  BY <1>3 DEF UpTo
<1>5. Position(0) = 0
  BY <1>1, PositionEnds
<1>6. Follows
  BY <1>2, <1>3, <1>4, <1>5 DEF Follows
<1>7. RenderedSoFar
  BY DEF Init, RenderedSoFar
<1> QED BY <1>6, <1>7

LEMMA StepDetermined ==
  ASSUME Progress, SourcesOK, Determined, [Next]_vars
  PROVE  Determined'
<1>1. app' = app
  BY DEF Next, TransformVolume, TransformService, Resolve, RenderPVC, RenderFails, RenderServices,
         triple, vars
<1> SUFFICES ASSUME OrderFree, Follows, RenderedSoFar PROVE Follows' /\ RenderedSoFar'
  BY <1>1, SameReference DEF Determined
<1>2. ASSUME NEW id \in VolumeIds, TransformVolume(id) PROVE Follows' /\ RenderedSoFar'
  <2>1. pc' = "transform"
    BY <1>2 DEF TransformVolume
  <2> QED BY <1>2, <2>1, VolumeFollows DEF RenderedSoFar
<1>3. CASE TransformService
  <2>1. pc' = "transform"
    BY <1>3 DEF TransformService
  <2> QED BY <1>3, <2>1, ServiceFollows DEF RenderedSoFar
<1>4. CASE Resolve
  <2>1. Follows'
    BY <1>4, RestFollows DEF Resolve, triple
  <2> QED BY <1>4, <2>1, ResolveRendered
<1>5. ASSUME NEW id \in VolumeIds, RenderPVC(id) PROVE Follows' /\ RenderedSoFar'
  <2>1. Follows'
    BY <1>5, RestFollows DEF RenderPVC, triple
  <2> QED BY <1>5, <2>1, PVCRendered
<1>6. CASE RenderServices
  <2>1. Follows'
    BY <1>6, HandedOver, RestFollows
  <2>2. RenderedSoFar'
    BY <1>6, HandedOver, RestRendered
  <2> QED BY <2>1, <2>2
<1>7. CASE UNCHANGED vars
  <2>1. Follows'
    BY <1>7, RestFollows DEF vars
  <2>2. RenderedSoFar'
    BY <1>7, RestRendered DEF vars
  <2> QED BY <2>1, <2>2
<1>8. CASE RenderFails
  <2>1. Follows'
    BY <1>8, RestFollows DEF RenderFails, triple
  <2>2. RenderedSoFar'
    BY <1>8 DEF RenderFails, RenderedSoFar
  <2> QED BY <2>1, <2>2
<1> QED BY <1>2, <1>3, <1>4, <1>5, <1>6, <1>7, <1>8 DEF Next

\* The artifacts of an app depend on the order in which maps are iterated over in
\* nothing but the order of a container's mounts, unless a service is half parsed or
\* volumes disagree on a claim.
THEOREM OrderShowsInMountsOnly == Spec => []ArtifactsAreDetermined
<1>1. Progress /\ SourcesOK /\ Determined /\ [Next]_vars => Determined'
  BY StepDetermined
<1>2. Progress /\ SourcesOK /\ Provided /\ Determined => ArtifactsAreDetermined
  <2> SUFFICES ASSUME Progress, SourcesOK, Provided, Follows, RenderedSoFar, pc = "done", OrderFree
               PROVE  ArtifactsAreDetermined
    BY DEF Determined, ArtifactsAreDetermined
  <2>1. /\ services = <<>> /\ unrendered = {}
        /\ artifacts.containers = containers
        /\ artifacts.volumes = sourceMap
        /\ artifacts.pvcs = pvcs
    BY DEF Progress, Provided
  <2>2. DOMAIN sourceMap = Declared /\ \A id \in Declared : sourceMap[id] = VolumeFor(id)
    BY <2>1, FollowsToTheEnd DEF Follows
  <2>3. sourceMap = [id \in Declared |-> VolumeFor(id)]
    BY <2>2 DEF SourcesOK, IsMap
  <2>4. Claims = {id \in Declared : VolumeFor(id).scheme = "pvc"}
    BY <2>2 DEF Claims, IsClaim
  <2>5. DOMAIN pvcs = {VolumeFor(id).source : id \in Claims}
    BY <2>1, <2>2, <2>4 DEF RenderedSoFar, PVCName
  <2> DEFINE Claimed == {id \in Declared : VolumeFor(id).scheme = "pvc"}
  <2> DEFINE One(claim) == CHOOSE id \in Claimed : VolumeFor(id).source = claim
  <2>6. ASSUME NEW claim \in DOMAIN pvcs PROVE pvcs[claim] = PVC(VolumeFor(One(claim)).opts)
    <3>1. \E id \in Claimed : VolumeFor(id).source = claim
      BY <2>4, <2>5, <2>6
    <3>2. /\ One(claim) \in Declared
          /\ VolumeFor(One(claim)).scheme = "pvc" /\ VolumeFor(One(claim)).source = claim
      BY <3>1
    <3> DEFINE x == One(claim)
    <3> HIDE DEF x
    <3>3. x \in Claims \ unrendered /\ PVCName(x) = claim /\ sourceMap[x] = VolumeFor(x)
      BY <2>1, <2>2, <2>4, <3>2 DEF PVCName, x
    <3>4. pvcs[PVCName(x)] = PVC(sourceMap[x].opts)
      BY <3>3 DEF RenderedSoFar
    <3>5. pvcs[claim] = PVC(VolumeFor(x).opts)
      BY <3>3, <3>4
    <3> QED BY <3>5 DEF x
  <2>7. pvcs = [claim \in DOMAIN pvcs |-> PVC(VolumeFor(One(claim)).opts)]
    <3> HIDE DEF One
    <3> QED BY <2>6 DEF SourcesOK, IsMap
  <2>8. pvcs = [claim \in {VolumeFor(id).source : id \in Claimed} |-> PVC(VolumeFor(One(claim)).opts)]
    BY <2>4, <2>5, <2>7
  <2>9. /\ Len(containers) = Cardinality(Transformed)
        /\ \A i \in Transformed :
             /\ containers[Position(i)].name = app[i].name
             /\ MountedOnce(containers[Position(i)].mounts, DOMAIN app[i].volumes)
    BY <2>1, FollowsToTheEnd DEF Becomes
  <2> QED BY <2>1, <2>3, <2>8, <2>9 DEF ArtifactsAreDetermined
<1> QED BY <1>1, <1>2, InitDetermined, ProgressInvariant, ProvidedInvariant, PTL DEF Spec

=============================================================================
