SPECIFICATION EraseFair
CONSTANTS
  NumSectors = 3
  RecordsPerSector = 2
  RamRecords = 2
  Tears <- TornOnly
  ReadsFail = TRUE
  MaxSamples = 8
  MaxFaults = 2
INVARIANTS SoundUnlessEraseFailed ErasedStaysErased
PROPERTIES UsedOnce EraseCallsReturn
