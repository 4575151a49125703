\* One request, two handlers of buttons, two schedules, one restart.
SPECIFICATION Spec
CONSTANTS
  r1 = r1
  t1 = t1
  t2 = t2
  Sweep = Sweep
  Requests = {r1}
  Taps = {t1, t2}
  MaxPosts = 2
  MaxFires = 2
  MaxCrashes = 1
INVARIANTS
  TypeOK
  SweepFiresOnce
  OnePendingPerRequest
  CalledOffStaysOff
  FiredOnce
SYMMETRY TapSymmetry
CHECK_DEADLOCK FALSE
