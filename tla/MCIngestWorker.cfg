SPECIFICATION FairSpec
CONSTANTS
  MaxJobs = 2
  Sizes = {1, 3}
  ChunkSizes = {2}
  SmallImport = 1
  MaxConsecutive = 2
  MaxFaults = 3
INVARIANTS TypeOK CompletedMeansProgress OldestFirst
PROPERTY EveryJobEnds
CHECK_DEADLOCK FALSE
