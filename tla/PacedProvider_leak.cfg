SPECIFICATION PacedFairSpec
CONSTANT MaxTokens = 2
PROPERTY ChannelCloses
CHECK_DEADLOCK FALSE
