CONSTANTS
  t1 = t1
  t2 = t2
  None = None
  Trades = {t1, t2}
  Activator = api
  Cron = cron
  OtherCron = cron2
  Offset = 1
  MaxClock = 2
  MaxActivations = 1
  MaxFaults = 1
SPECIFICATION Spec
INVARIANT TypeOK
INVARIANT TradeKept
INVARIANT ZeroOnlyIfMissed

SYMMETRY Symmetry
