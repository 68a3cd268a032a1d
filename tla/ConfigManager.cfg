\* One user with several browser tabs, two daemons, two objects, two transactions,
\* two later calls.
CONSTANTS
  u1 = u1  u2 = u2  d1 = d1  d2 = d2  o1 = o1  o2 = o2  t1 = t1  t2 = t2
  Users = {u1}
  Daemons = {d1, d2}
  Objects = {o1, o2}
  Transactions = {t1, t2}
  Requests = {r1, r2}
  InitialOwners <- MCOwners
  Targets <- MCTargets
  NoOne = NoOne
SPECIFICATION FairSpec
INVARIANTS NoOrphanLocks LiveHoldsItsLocks
PROPERTY LocksAreReleased
CHECK_DEADLOCK FALSE
