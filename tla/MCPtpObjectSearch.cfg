CONSTANTS
  Half = 8
  Handle <- MCNearHandle
SPECIFICATION FairSpec
INVARIANTS
  Sorted
PROPERTIES
  IsHandleSet
  SearchEnds
