SPECIFICATION FairSpec
CONSTANTS
  Shapes <- Bodies
  All = All
  NoLength = NoLength
  Large = 99
INVARIANTS TypeOK BytesInOrder DecodedOnDemand ShortReadMeansEnd ReturnedWhenDone
PROPERTY EveryCallReturns
