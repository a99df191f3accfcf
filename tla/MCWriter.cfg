\* Two callers with two goroutines each share two channels; the target may
\* break.  A search that finds no free channel stops for good.
CONSTANTS
  channelsCount = 2
  Callers = {a, b}
  Roles = {p, q}
  NoGoroutine = NoGoroutine
  MayBreak = TRUE
SYMMETRY Symmetry
SPECIFICATION WriterSpec
INVARIANTS
  WriterTypeOK
  ExclusiveReservation
  PacketOnRightChannel
  ChanneledFramesIntact
CHECK_DEADLOCK FALSE
