SPECIFICATION ReadersSpec
CONSTANTS
  NumSectors = 3
  RecordsPerSector = 2
  RamRecords = 2
  Tears <- NoTears
  ReadsFail = FALSE
  MaxSamples = 9
  MaxFaults = 0
  MaxRows = 6
  ReaderFails = FALSE
INVARIANT RowsInOrder
