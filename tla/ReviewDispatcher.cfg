\* Two daemons, one refers to the other; a change of configuration, a manual
\* review, a failing database and a shutdown.
CONSTANTS
  d1 = d1  d2 = d2
  Daemons = {d1, d2}
  Order <- MCOrder
  Refs <- MCRefs
  DbFails = TRUE
  MaxChanges = 1
  MaxExtras = 1
  MaxReviews = 1
SPECIFICATION FairSpec
INVARIANTS OneReviewPerDaemon ReportsMatchReview
PROPERTIES FirstReviewIsRetried
\* After a shutdown nothing is left to do.
CHECK_DEADLOCK FALSE
