SPECIFICATION ShellSpec
CONSTANTS
  Lines <- TypedLines
  Sums <- EdgeSums
  Slots = 3
  SlotLen = 7
  Word = 256
INVARIANTS EveryCommandIsReached HistoryIsRecent HistoryIsARotation CalcIsExact OnlyOverflowHalts
CHECK_DEADLOCK FALSE
