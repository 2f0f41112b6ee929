SPECIFICATION Spec
CONSTANTS
  manifest = manifest
  doc = doc
  cached = cached
  Files <- MCFiles
  Manifest = manifest
  Listed <- MCListed
  Excluded <- MCExcluded
  OutDirs <- MCOutDirs
  InRoot <- MCInRoot
  Below <- MCBelow
  QualitySpecs <- MCQualitySpecs
  MaxRuns = 2
  MaxEdits = 1
INVARIANTS
  TypeOK
  ReviewIsOfOneTree
  ZipIsOfOneRun
PROPERTIES
  KeepsPromise
CHECK_DEADLOCK FALSE
