\* Two messages of every kind over two channels; a run that stops has sent
\* everything.
CONSTANTS
  channelsCount = 2
  Callers = {a, b}
  Users = {"user"}
  Roles <- SomeRoles
  Drafts <- AllDrafts
  MaxChunks = 1
  NoGoroutine = NoGoroutine
  NoMessage = NoMessage
  MayBreak = FALSE
SPECIFICATION FairSpec
INVARIANTS
  TypeOK
  PeerFollowsOwner
  PeerAccepts
  NeverOutOfChannels
PROPERTIES
  KeepsWriterContract
  ImplementsExchange
  EverySendSucceeds
