SPECIFICATION Spec
CONSTANTS
  f = f  g = g  h = h  d = d  p = p  a = a  b = b
  FileNames = {f, g}
  DirNames = {}
  PhantomName <- Phantom
  Parts = {d, p}
  NoName = noname
  Bytes = {a, b}
  Zero = zero
  Contents <- ShortTexts
  Absent = absent
  MaxFiles = 4
  MaxSectorsPerFile = 2
  SectorSize = 2
  PersistedSlots = 2
  BootGarbage <- PhantomBoot
  MaxCwd = 1
INVARIANTS TypeOK DiskAgrees SavedIsDurable OneEntryPerFile
PROPERTIES MoveDelivers ImplementsFileStore
