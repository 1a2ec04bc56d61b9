SPECIFICATION LiveSpec
CONSTANTS
  MaxBlocks = 2
  MaxFrames = 3
  FrameLimit = 3
  MaxBytes = 100
  MaxManifest = 10
  BlockSizes = {1, 2}
  FrameSizes = {2}
  ManifestHead = 1
  ManifestEntry = 1
  MetaBytes = 1
  JournalHead = 1
  RecordHead = 1
  MaxAttempts = 4
  MaxFaults = 3
INVARIANT TypeOK
INVARIANT AckedSurvives
PROPERTY ImplementsDurableLog
PROPERTY EventuallyFramed
