SPECIFICATION ToolSpec
CONSTANTS
  Bytes = {0, 1, 2, 3}
  Zero = 0
  PAGE = 2
  MaxPages = 2
  Buffers <- SmallBuffers
  Bases <- SmallBases
  CHUNK = 2
  VirtualSize = 3
  Verbs = {"info", "read", "readFile", "write", "writeFile", "create"}
  Ranges <- SmallRanges
  Inputs <- SmallInputs
  HEADER1 = 0
  HEADER2 = 2
  OldFile <- EarlierFile
  Leftover <- EarlierPartial
  OldDisk <- EarlierDisk
  MaxCalls = 2
CHECK_DEADLOCK FALSE
INVARIANTS
  ToolTypeOK
  OutputIsWhole
  StreamIsPrefix
  ReportIsOfTheFile
  WriteIsExact
PROPERTIES
  ImplementsFlatDevice
