\* Three messages of every kind over one channel or two; one or two handlers.
\* With fewer handlers than channels the application may stop for good.
CONSTANTS
  Channels <- TwoChannels
  Messages = {m1, m2, m3}
  NoMessage = NoMessage
  Handlers = {h1, h2}
  Buffers = {0, 1}
  MaxSent = 1
SPECIFICATION FairSpec
CHECK_DEADLOCK FALSE
INVARIANTS
  TypeOK
  HandledIsWhole
PROPERTIES
  EverythingHandled
