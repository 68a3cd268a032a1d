\* One daemon with a subnet and two reservations, one per page; a handler and one change
\* of the setting, between disabled, 10 seconds and the interval of a disabled executor.
SPECIFICATION PullersSpec
CONSTANTS
  Subnets = 1
  Reservations = {1, 2}
  Limit = 1
  MaxChanges = 1
  MaxFaults = 1
  Intervals = {0, 10, 60}
  InactiveInterval = 60
  Handlers = {h1}
  MaxSettings = 1
INVARIANTS PausedIsQuiet OnlyWhatKeaHad
PROPERTIES MirrorsKea
\* Shutdown stops the loop; changes and faults are bounded.
CHECK_DEADLOCK FALSE
