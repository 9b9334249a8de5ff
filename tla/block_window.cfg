SPECIFICATION FairSpec
CONSTANTS
  NumBatches = 2
  NumRows <- OneEach
  Long = {1}
  Need <- SmallAndBig
  Concurrency <- AnyTwo
  Sized = {}
  Pool <- TwoCpus
  Workers = 3
  Configured = 2
  MaxJobs = 2
  Elsewhere = {2}
  MaxTroubles = 2
INVARIANTS
  TypeOK
  SlotIsTaken
PROPERTIES
  BlockKept
  EachIsServed
