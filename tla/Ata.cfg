SPECIFICATION FairSpec
CONSTANTS
  a = a  z = z
  Lbas = {1, 256}
  SectorLen = 4
  Bytes = {a, z}
  ZeroByte = z
  Buffers <- TwoBuffers
  Faults = {"command"}
  NoData = nodata
PROPERTIES ImplementsSectorStore CallsEnd
