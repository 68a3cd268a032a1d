\* Every kind of storage; two concurrent ReceiveZones calls.
CONSTANTS
  Calls = {c1, c2}
  Zones = {z1, z2}
  NoViews = NoViews
  StorageKinds = {"memory", "disk", "memoryDisk"}
SPECIFICATION FairSpec
INVARIANTS OneLongLastingOperation OkStreamIsComplete
PROPERTIES FailureIsRetried StreamEnds
