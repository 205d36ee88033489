SPECIFICATION Spec
CONSTANTS
  Callers = {c1, c2}
  c1 = c1
  c2 = c2
  failure_threshold = 3
  window_sec = 2
  reset_timeout_sec = 4
  MaxTime = 6
  MaxFailures = 4
INVARIANT
  ClosedMeansHealthy
PROPERTY
  ForgetsOnlyStale
  TripsOnRecentFailures
CHECK_DEADLOCK FALSE
