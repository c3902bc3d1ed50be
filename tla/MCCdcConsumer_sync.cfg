SPECIFICATION FairSpec
CONSTANTS
  k1 = k1
  k2 = k2
  Keys = {k1, k2}
  v1 = v1
  v2 = v2
  Values = {v1, v2}
  Absent = Absent
  c1 = c1
  c2 = c2
  Consumers = {c1}
  NoConsumer = NoConsumer
  MaxLog = 4
  MaxStops = 2
  Faults = {"commit"}
INVARIANTS SyncedWhenCaughtUp
PROPERTIES EventuallySynced
CHECK_DEADLOCK FALSE
