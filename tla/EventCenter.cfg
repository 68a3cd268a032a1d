\* Two events, two subscribers with different filters and one that is refused, clients that go away.
CONSTANTS
  e1 = e1  e2 = e2  s1 = s1  s2 = s2  s3 = s3  message = message  connectivity = connectivity
  Events = {e1, e2}
  Subscribers = {s1, s2, s3}
  Streams = {message, connectivity}
  Message = message
  Tags <- MCTags
  Level <- MCLevel
  About <- MCAbout
  Query <- MCQuery
  Apps <- MCApps
  NoOne = NoOne
SPECIFICATION FairSpec
INVARIANTS EventsInOrder RegularStreamIsComplete
PROPERTIES ShutdownEnds
\* A loop that waits for a connection that has left is stuck for good.
CHECK_DEADLOCK FALSE
