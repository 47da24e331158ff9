SPECIFICATION FairSpec
CONSTANTS
  Process = {p1, p2}
  Job <- MCJob
  Contents <- MCContents
  BufferSize = 2
INVARIANTS
  CopyIsImage
  SuccessIsWhole
  MixedByPosition
  OneContentsLeft
PROPERTY CopiesEnd
CHECK_DEADLOCK FALSE
