\* Two daemons, two users with two submits, one fault; a subnet that may be in a
\* shared network without faults.  Users are interchangeable.
SPECIFICATION KeaChangesSpec
CONSTANTS
  KeaDaemons = {"kea26", "kea24"}
  Order <- MCOrder
  Reloaded <- MCReloaded
  Nets = {n1}
  Submitters = {u1, u2}
  Topics <- MCTopics
  MaxContents = 2
  MaxRows = 2
  MaxKeaFaults <- MCMaxFaults
SYMMETRY MCSymmetry
INVARIANTS
  NothingClaimedEarly
PROPERTIES
  SuccessAgrees
\* Submits are bounded: all may be used up.
CHECK_DEADLOCK FALSE
