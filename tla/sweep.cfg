CONSTANTS
  Probes = {"fatal", "stuck", "plain", "other"}
  Fatal = {"fatal"}
  Stuck = {"stuck"}
  Threads = {t1, t2}
  Tears = {"short", "last"}
  KILLS = 1
SPECIFICATION FairSpec
INVARIANT InFlightPerThread
PROPERTIES
  MeasuredIsSettled
  SweepEnds
CHECK_DEADLOCK FALSE
