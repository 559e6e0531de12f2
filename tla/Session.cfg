SPECIFICATION SessionSpec
CONSTANTS
  s = s  S = S
  Keys = {s}
  SKey = s
  Chars = {s, S, newline}
  Plain <- Row
  Shifted <- UpRow
  Newline = newline
  NUL = nul
  Size = 5
  Garbage <- Stacks
  OnDisk <- TornTexts
  NoFile = nofile
  FieldLen = 1
  MaxLine = 1
  HelpPages = 2
INVARIANTS SessionTypeOK NoStuckShift
PROPERTIES SavedIsTyped CtrlStaysInStep
