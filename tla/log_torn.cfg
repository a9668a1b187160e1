SPECIFICATION Spec
CONSTANTS
  NumSectors = 3
  RecordsPerSector = 2
  RamRecords = 2
  Tears <- TornOnly
  ReadsFail = FALSE
  MaxSamples = 8
  MaxFaults = 3
INVARIANTS TypeOK RecordNumbering CursorNumbering NoHiddenRecord CursorTail Chronological
PROPERTIES WriteOnce NoSilentDrop RingExceptTwins
