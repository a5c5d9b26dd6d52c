\* The log through rotations, crashes, errors and the loss of the disk.
SPECIFICATION Spec
CONSTANTS
  NumRecs = 4
  Size <- Sizes
  Durable <- Archived
  SegmentSize = 4
  MaxBatch = 2
  MaxSegments = 3
  MaxCrashes = 2
  MaxFaults = 1
INVARIANTS
  AckedReadableUnlessHarmed
  WatermarkHonest
PROPERTIES
  ArchiveCatchesUp
\* Everything submitted and answered, the log may stay as it is.
CHECK_DEADLOCK FALSE
