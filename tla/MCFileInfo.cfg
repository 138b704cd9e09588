CONSTANTS
  Driver <- MCDriver
  Photo <- MCPhoto
  Time = {1, 2}
  File = {1, 2, 3, 4, 5, 6, 7, 8}
  StackDepth = 16
  Reuses = FALSE
SPECIFICATION FairSpec
INVARIANTS
  DownloadIsTrue
  InfoIsTrue
PROPERTY
  CallReturns
