\* Two servers, two workers, batches of two zones.
CONSTANTS
  Apps = {a1, a2}
  Workers = {w1, w2}
  BatchSize = 2
  Contents <- MCContents
  NoApp = NoApp
  NoView = NoView
  a1 = a1  a2 = a2  v1 = v1  v2 = v2  x = x  y = y
SPECIFICATION FairSpec
INVARIANTS ResultsAreTrue
PROPERTIES ImplementsRounds
