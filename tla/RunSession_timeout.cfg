CONSTANTS
  t1 = t1
  t2 = t2
  r1 = r1
  r2 = r2
  noRun = noRun
  noToken = noToken
  Sessions <- MCSessions
  Runs <- MCRuns
  NoRun <- noRun
  NoToken <- noToken
  CanCrash = FALSE
  Timed = TRUE
SPECIFICATION Spec
PROPERTIES TimeoutStopsRun
