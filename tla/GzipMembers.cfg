SPECIFICATION Spec
CONSTANTS
  Shapes <- TwoMembers
  All = All
  NoLength = NoLength
  Large = 99
INVARIANT PrefixDelivered
