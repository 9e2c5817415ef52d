\* Two workers and two probes; the file changes once and the plug-in is stopped once.
CONSTANTS
  v1 = v1
  v2 = v2
  Workers = {"user", "inst"}
  Probes = {"probe1", "probe2"}
  Values = {v1, v2}
  Zero = Zero
  Absent = Absent
  Mistyped = Mistyped
  Garbled = Garbled
  Nil = Nil
  Files <- FewFiles
  MaxChanges = 1
  MaxStops = 1
SPECIFICATION LiveSpec
INVARIANT TypeOK
INVARIANT OneConfigPerSearch
INVARIANT ServesConfigured
PROPERTY ReadyMeansLoaded
PROPERTY FetchReturns
PROPERTY ConfigFollowsFile
CHECK_DEADLOCK FALSE
