SPECIFICATION Spec
CONSTANTS
  NBlocks = 3
  EntriesPerSector = 3
  BlockSize = 2
  MaxLen = 10
  SeqBits = 4
  SeqLimit = 16
  Data = {d1}
  Zero = Zero
  Junk = Junk
  Tears = {}
  Writers = {w1, w2}
  Requests <- BlockRequests
  Starts <- CleanStart
  Lost = Lost
  MaxSessions = 2
  MaxErrors = 0
  Kills = FALSE
INVARIANTS
  ReadsArePromised
