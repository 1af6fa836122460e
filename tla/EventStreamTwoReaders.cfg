SPECIFICATION FairSpec
CONSTANTS
  Readers = {r1, r2}
  MaxEvents = 2
PROPERTY EveryStreamCloses
