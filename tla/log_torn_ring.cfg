SPECIFICATION Spec
CONSTANTS
  NumSectors = 3
  RecordsPerSector = 2
  RamRecords = 2
  Tears <- TornOnly
  ReadsFail = FALSE
  MaxSamples = 6
  MaxFaults = 3
PROPERTY RingOnly
