SPECIFICATION FairSpec
CONSTANTS
  TickMod = 16
  SpinPeriod = 2
  SecPeriod = 5
  MaxGap = 3
INVARIANTS NoStrayInterrupt DisplayIsFresh
PROPERTIES TicksAreServed HltResumes
CHECK_DEADLOCK FALSE
