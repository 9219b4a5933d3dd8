CONSTANTS
  Chains = {c1}
  NoChain = NoChain
  MaxResponses = 3
  MaxStarts = 2
SPECIFICATION Spec
CHECK_DEADLOCK FALSE
INVARIANT NoSendOnClosedChannel
VIEW ChannelState
