SPECIFICATION Spec
CONSTANTS
  NBlocks = 3
  EntriesPerSector = 2
  BlockSize = 2
  MaxLen = 10
  SeqBits = 4
  SeqLimit = 16
  Data = {d1}
  Zero = Zero
  Junk = Junk
  Tears = {"crash"}
  Writers = {w1}
  Requests <- SerialRequests
  Starts <- CleanStart
  Lost = Lost
  MaxSessions = 3
  MaxErrors = 0
  Kills = FALSE
PROPERTIES
  ClosedMeansClean
