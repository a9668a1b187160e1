SPECIFICATION ReadersFair
CONSTANTS
  NumSectors = 2
  RecordsPerSector = 2
  RamRecords = 2
  Tears <- TornOnly
  ReadsFail = FALSE
  MaxSamples = 6
  MaxFaults = 1
  MaxRows = 3
  ReaderFails = TRUE
INVARIANTS ReadersTypeOK OldRowsInOrder NewestRows ExcessIsNew
PROPERTY RequestAnswered
