\* Two messages and one channel: the second search finds no channel and the
\* system stops.
CONSTANTS
  channelsCount = 1
  Callers = {a, b}
  Users = {"user"}
  Roles <- SomeRoles
  Drafts <- OnePartDrafts
  MaxChunks = 0
  NoGoroutine = NoGoroutine
  NoMessage = NoMessage
  MayBreak = FALSE
SPECIFICATION FairSpec
PROPERTIES
  SearchEnds
CHECK_DEADLOCK FALSE
