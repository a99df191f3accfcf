\* Peers of every kind: orders of packets, counts of channels, sizes of
\* packets and buffers, each around their limits.
CONSTANTS
  m1 = m1
  m2 = m2
  m3 = m3
  Channels <- UsedChannels
  Messages = {m1, m2, m3}
  NoMessage = NoMessage
  Setups <- SomeSetups
  Cuts = {0, 1, 3}
  MaxShort = 2
SPECIFICATION Spec
INVARIANTS
  TypeOK
  RefusesOnlyUnreadable
  WriterWithinPeer
  ActionKeptUntilReuse
PROPERTIES
  ImplementsPacketStream
