\* Twelve independent parts, each with the values that MCParts gives its constants.
SPECIFICATION PartsSpec
CONSTANTS
  NoStatistics = NoStatistics
  Requesters = {"u1", "u2"}
  CheckedDaemons = {"d1", "d2"}
  CheckerNames = {"c1", "c2"}
  AvailableCheckers <- MCAvailable
  AllDaemons = "global"
  MaxPuts = 2
  SubnetIds = {1, 2}
  MaxKeaChanges = 2
  MaxNamedChanges = 3
  LeaseApps <- MCApps
  RecentApps = {"a2"}
  LeaseHooks <- MCHooks
  AllLeases <- MCLeases
  LeaseTexts <- MCTexts
  LeaseHost <- MCHost
  EmptyId = ""
  MaxGranted = 1
  FormUsers = {"t1", "t2"}
  FormDaemons = {"d1", "d2"}
  Settable = {"s"}
  Others = {"o"}
  Values = {1}
  Absent = 0
  MaxSubmits = 2
  MaxOutside = 1
  Views = {"v", "w"}
  Zones = {"a"}
  MaxSaves = 2
  ShortWindow = 1
  LongWindow = 2
  MaxCounter = 2
  MaxTime = 3
  MaxSent = 1
  MaxRestarts = 1
  CountedApps <- MCCounted
  HAPair = {"d1", "d2"}
  Subnets4 = {"s4"}
  Subnets6 = {"s6", "t6"}
  ServedSubnets <- MCServedSubnets
  NetworkOf <- MCNetworkOf
  NoNetwork = "none"
  PoolSizes <- MCPoolSizes
  MaxUint = 7
  MaxLeased = 2
INVARIANTS ReportsAreTrue RestartsLoseNothing RowsAreAsAsked ExportsAreTrue RatesAreTrue
           StatisticsAreExact SearchIsHonest SuccessIsTheForm
PROPERTY RepairsEnd
\* Requests, changes, edits and time are bounded, and the exporters can be shut down.
CHECK_DEADLOCK FALSE
