CONSTANTS
  Ports = {1, 2}
  Nsd = 0
  Puller = puller
  Updaters = {puller, user}
  MaxChanges = 2
  MaxOthers = 2
SPECIFICATION FairSpec
INVARIANTS NoDuplicates  StoredIsComplete
PROPERTIES Converges
