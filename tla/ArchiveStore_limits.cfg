SPECIFICATION Spec
CONSTANTS
  MaxBlocks = 3
  MaxFrames = 3
  FrameLimit = 3
  MaxBytes = 12
  MaxManifest = 3
  BlockSizes = {1, 2}
  FrameSizes = {1, 3}
  ManifestHead = 1
  ManifestEntry = 1
  MetaBytes = 1
  JournalHead = 1
  RecordHead = 1
  MaxAttempts = 5
  MaxFaults = 2
INVARIANT UsageExact
INVARIANT WithinLimit
INVARIANT Reopenable
INVARIANT PublishesSafely
