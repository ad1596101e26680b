SPECIFICATION Spec
CONSTANTS
  NBlocks = 2
  EntriesPerSector = 2
  BlockSize = 2
  MaxLen = 6
  SeqBits = 4
  SeqLimit = 16
  Data = {d1}
  Zero = Zero
  Junk = Junk
  Tears = {"error"}
  Writers = {w1, w2}
  Requests <- ContendedRequests
  Starts <- EmptyStart
  Lost = Lost
  MaxSessions = 2
  MaxErrors = 1
  Kills = TRUE
SYMMETRY WriterSymmetry
INVARIANTS
  NoAliasing
  NamesInsideFile
  HeaderSurvives
  BoundNeverAhead
  WritesStayInside
