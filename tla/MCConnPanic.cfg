\* One message is enough for a send on the closed channel.
CONSTANTS
  Closers = {c1, c2}
  Buffers = {0}
  MaxReads = 1
  MayBreak = FALSE
SPECIFICATION Spec
INVARIANTS
  CancelledWithoutPanic
