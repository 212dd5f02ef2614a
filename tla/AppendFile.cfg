CONSTANTS
  Contents <- MCContents
  Directory = Directory
  Missing = Missing
  ReadLimit = 8
  MaxLength = 24
SPECIFICATION AppendSpec
INVARIANTS
  FileIsMerge
  ReadStaysTrue
PROPERTY
  CopyEnds
CHECK_DEADLOCK FALSE
