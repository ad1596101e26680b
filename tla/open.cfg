SPECIFICATION Spec
CONSTANTS
  BAT_ENTRY_SIZE = 1
  MIB = 5
  MIN_BLOCK_SIZE = 2
  MAX_BLOCK_SIZE = 4
  SectorSizes <- SectorSizesHere
  MAX_METADATA_ENTRIES = 6
  MAX_REGION_ENTRIES = 4
  EntriesPerGranule = 2
  SeqLimit = 16
  MaxLen = 30
  Images <- PipelineImages
  MaxErrors = 2
INVARIANTS
  OpenTypeOK
  ReaderIsReplayed
  RecoverableIsOpened
  RefusedIsUntouched
  OnlyTheLogWrites
  ReplayIsConsumed
