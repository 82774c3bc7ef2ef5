CONSTANTS
  f1 = f1
  f2 = f2
  None = None
  Fills = {f1, f2}
  Daily = daily
  Api = api
  Worker = worker
  Activator = activator
  MaxDays = 2
  MaxActivations = 1
  MaxFaults = 0
SPECIFICATION Spec
CHECK_DEADLOCK FALSE
INVARIANT EachDayItsOwn
