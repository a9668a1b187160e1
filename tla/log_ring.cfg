SPECIFICATION Spec
CONSTANTS
  NumSectors = 3
  RecordsPerSector = 2
  RamRecords = 2
  Tears <- NoTears
  ReadsFail = FALSE
  MaxSamples = 9
  MaxFaults = 3
INVARIANTS Retention
PROPERTIES RingOnly ImplementsRing
