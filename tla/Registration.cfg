SPECIFICATION Spec
CONSTANTS
  Keys = {1, 2, 3, 4, 5}
  Handlers = {h1, h2}
  MaxFaults = 2
  MaxUser = 1
INVARIANTS
  AuthorizedByGrant
  RegisteredIsComplete
  RegisteredConnects
