\* One message with data and a stream; the target may break.
CONSTANTS
  channelsCount = 1
  Callers = {a}
  Users = {"user"}
  Roles <- SomeRoles
  Drafts <- AllDrafts
  MaxChunks = 1
  NoGoroutine = NoGoroutine
  NoMessage = NoMessage
  MayBreak = TRUE
SPECIFICATION Spec
INVARIANTS
  SuccessMeansSent
CHECK_DEADLOCK FALSE
