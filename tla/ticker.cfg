CONSTANTS
  f1 = f1
  f2 = f2
  None = None
  Fills = {f1, f2}
  Daily = daily
  Api = api
  Worker = worker
  Activator = activator
  MaxDays = 1
  MaxActivations = 1
  MaxFaults = 1
SPECIFICATION FairSpec
CHECK_DEADLOCK FALSE
INVARIANT TypeOK
INVARIANT TickerKept
PROPERTY SummaryCatchesUp
