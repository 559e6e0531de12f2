SPECIFICATION MemorySpec
CONSTANTS
  a = a  b = b  x = x  y = y
  MaxLogs = 5
  Messages <- ShortAndLong
  FirstMessage <- First
  NoMessage <- Empty
  MaxWritten = 10
  SectorSize = 8
  MaxFiles = 4
  EntrySize = 5
  NameAt = 0  SizeAt = 1  UsedAt = 2  OwnerAt = 3  PermAt = 4
  LineSize = 3
  Chars = {a, b}
  Names = {x, y}
  NUL = nul
  Set = set
  BootMessages <- Boot
  InitMessage <- InitLine
  FormatMessage <- FormatLine
INVARIANTS DumpIsRecent LinesAreKept BootLinesSurvive NoPhantomOnDisk
