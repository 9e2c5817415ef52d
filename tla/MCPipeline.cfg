\* Two services, each with any of two volumes.
CONSTANTS
  Garbled = Garbled
  Nil = Nil
  VolumeIds = {"v1", "v2"}
  Sources <- MCSources
  OptionSets <- MCOptionSets
  Ports = {0, 80}
  AppSpecs <- TwoServices
SPECIFICATION Spec
INVARIANTS TypeOK MountsAreBacked ClaimsAreProvided ArtifactsAreDetermined
CHECK_DEADLOCK FALSE
