\* A process that may end and be started again, one conversation beside the
\* dispatcher's, and the destructor, after which everything rests.
SPECIFICATION FairSpec
CONSTANTS
  MaxServers = 2
  MaxTalks = 1
  Capacity = 1
INVARIANTS
  ChannelsAreOwned
  TalksAreWhole
  WaitersAreWoken
PROPERTY DestructionCompletes
CHECK_DEADLOCK FALSE
