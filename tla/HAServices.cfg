CONSTANTS
  Primary = prim
  Secondary = sec
  Unmonitored = {sec}
  MaxServerChanges = 2
SPECIFICATION HAServicesSpec
INVARIANTS OneService
PROPERTIES Converges
