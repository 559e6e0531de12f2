SPECIFICATION Spec
CONSTANTS
  f = f  g = g  h = h  d = d  p = p  a = a  b = b
  FileNames <- FileAndDir
  DirNames <- SlashedNames
  PhantomName <- Phantom
  Parts = {d, p, ".."}
  NoName = noname
  Bytes = {a, b}
  Zero = zero
  Contents <- OneText
  Absent = absent
  MaxFiles = 2
  MaxSectorsPerFile = 1
  SectorSize = 1
  PersistedSlots = 1
  BootGarbage <- PhantomBoot
  MaxCwd = 4
INVARIANTS PathsWellFormed UpUndoesDown
PROPERTIES WriteIsReadBack CwdIsAStack
