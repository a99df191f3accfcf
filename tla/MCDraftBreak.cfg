\* The target may break; messages with at most one of data and stream, every
\* requested stream used by two goroutines of the application.  A send
\* whose Close failed never returns, so the system may stop.
CONSTANTS
  channelsCount = 2
  Callers = {a, b}
  Users = {"user1", "user2"}
  Roles <- SomeRoles
  Drafts <- OnePartDrafts
  MaxChunks = 1
  NoGoroutine = NoGoroutine
  NoMessage = NoMessage
  MayBreak = TRUE
SPECIFICATION FairSpec
INVARIANTS
  PeerAccepts
  SuccessMeansSent
  ReleasedUnlessMessageFailed
PROPERTIES
  KeepsWriterContract
  ImplementsExchange
  ReturnsUnlessCloseFailed
CHECK_DEADLOCK FALSE
