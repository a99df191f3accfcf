\* Two calls of Close, a buffer of one message or none, three reads; the peer may
\* stay silent or break the transport, and the application may stop receiving.
CONSTANTS
  Closers = {c1, c2}
  Buffers = {0, 1}
  MaxReads = 3
  MayBreak = TRUE
SPECIFICATION FairSpec
INVARIANTS
  TypeOK
  ChannelsCloseLast
PROPERTIES
  NewConnReturns
  ContextEndsConnection
  HandleEnds
  PeerEndsConnection
