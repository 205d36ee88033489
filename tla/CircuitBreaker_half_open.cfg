SPECIFICATION Spec
CONSTANTS
  Callers = {c1}
  c1 = c1
  failure_threshold = 3
  window_sec = 2
  reset_timeout_sec = 4
  MaxTime = 9
  MaxFailures = 4
PROPERTY
  HalfOpenFailureReopens
CHECK_DEADLOCK FALSE
