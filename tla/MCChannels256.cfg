\* A side that accepts 256 channels.
CONSTANTS
  m1 = m1
  m2 = m2
  m3 = m3
  Channels <- UsedChannels
  Messages = {m1, m2, m3}
  NoMessage = NoMessage
  Setups <- Setups256
  Cuts = {0, 1, 3}
  MaxShort = 2
SPECIFICATION Spec
INVARIANT
  EveryCountUnderstood
