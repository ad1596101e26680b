SPECIFICATION FairSpec
CONSTANTS
  NBlocks = 2
  EntriesPerSector = 1
  BlockSize = 1
  MaxLen = 3
  SeqBits = 4
  SeqLimit = 16
  Data = {d1}
  Zero = Zero
  Junk = Junk
  Tears = {}
  Writers = {w1, w2}
  Requests <- ThreadRequests
  Starts <- ThreadStarts
  Lost = Lost
  MaxSessions = 2
  MaxErrors = 1
  Kills = TRUE
INVARIANTS
  ReadsArePromised
PROPERTIES
  WritesReturn
