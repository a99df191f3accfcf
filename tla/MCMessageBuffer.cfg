\* Data and a stream of six bytes in pieces of up to three, read by two goroutines
\* in up to two bytes at a time; they stop once they are told EOF.  The second
\* reader of a stream ends up at the locked mu.
CONSTANTS
  Kinds = {"stream", "data"}
  Size = 6
  MaxPiece = 3
  MaxRead = 2
  Readers = {r1, r2}
  Free = Free
SPECIFICATION FairSpec
INVARIANTS
  TypeOK
  NothingLost
  EOFIsLast
PROPERTIES
  EverythingIsRead
CHECK_DEADLOCK FALSE
