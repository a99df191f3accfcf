---------------------------- MODULE MessageBuffer ---------------------------
(***************************************************************************)
(* The buffers between the parser and the application: messageStream of    *)
(* message_stream.go and messageData of message_data.go.  The parser       *)
(* pushes pieces, goroutines of the application Read.                      *)
(*                                                                         *)
(* The two share push and Read; they differ in how they end.  Data is      *)
(* complete with its last byte, and push closes `ch`.  A stream is closed  *)
(* by a packet of its own, outside `mu`.                                   *)
(*                                                                         *)
(* What runs under mu is one step.  A Read that finds nothing leaves mu to *)
(* a goroutine that unlocks it, and then waits at `ch`; push wakes whoever *)
(* waits there at that very moment, and nobody else.                       *)
(***************************************************************************)
EXTENDS Integers, Sequences, SequencesExt

CONSTANTS
  Kinds,        \* "stream" and "data", or one of them
  Size,         \* bytes that are sent; for data, its announced size
  MaxPiece,     \* bound: bytes of one piece
  MaxRead,      \* bound: bytes a Read asks for
  Readers,      \* goroutines that read until they are told EOF
  Free          \* mu is not locked

ASSUME MessageBufferAssumption ==
  /\ Kinds \subseteq {"stream", "data"}
  /\ Size \in Nat /\ MaxPiece \in Nat \ {0} /\ MaxRead \in Nat \ {0}
  /\ Free \notin Readers

VARIABLES
  kind,         \* which of the two it is, fixed at the start
  buf,          \* pieces that are not read to their end
  bufOffset,    \* bytes of the first piece that are read
  wrote,        \* bytes pushed so far; byte n of the message is the number n
  done,         \* done of a stream
  closed,       \* ch is closed
  mu,           \* Free, "unlocker" or, after EOF of a stream, its reader
  at,           \* where each reader is
  out           \* the bytes read so far, in the order they were read

vars == <<kind, buf, bufOffset, wrote, done, closed, mu, at, out>>

TypeOK ==
  /\ kind \in Kinds
  /\ \A i \in DOMAIN buf : Len(buf[i]) \in 1..MaxPiece
  /\ IF buf = <<>> THEN bufOffset = 0 ELSE bufOffset \in 0..(Len(Head(buf)) - 1)
  /\ wrote \in 0..Size
  /\ done \in BOOLEAN
  /\ closed \in BOOLEAN
  /\ mu \in {Free, "unlocker"} \cup Readers
  /\ at \in [Readers -> {"read", "park", "parked", "eof"}]

\* The data of a message without data, emptyMessageData, never closes its ch.
Init ==
  /\ kind \in Kinds
  /\ buf = <<>>
  /\ bufOffset = 0
  /\ wrote = 0
  /\ done = FALSE
  /\ closed = FALSE
  /\ mu = Free
  /\ at = [r \in Readers |-> "read"]
  /\ out = <<>>

-----------------------------------------------------------------------------
(* The parser.                                                             *)

\* putOptional(ch): one of the readers that wait at ch goes on, if there is one.
putOptional ==
  IF \E r \in Readers : at[r] = "parked"
  THEN \E r \in Readers : at[r] = "parked" /\ at' = [at EXCEPT ![r] = "read"]
  ELSE UNCHANGED at

\* close(ch): all of them go on.
closeCh ==
  /\ closed' = TRUE
  /\ at' = [r \in Readers |-> IF at[r] = "parked" THEN "read" ELSE at[r]]

\* Mutant: the last piece wakes one reader instead of closing ch.
pushNeverCloses ==
  /\ mu = Free
  /\ ~ done
  /\ \E n \in 1..MaxPiece :
       /\ wrote + n <= Size
       /\ buf' = Append(buf, [i \in 1..n |-> wrote + i])
       /\ wrote' = wrote + n
  /\ putOptional
  /\ UNCHANGED <<kind, bufOffset, done, closed, mu, out>>

push ==
  /\ mu = Free
  /\ ~ done
  /\ \E n \in 1..MaxPiece :
       /\ wrote + n <= Size
       /\ buf' = Append(buf, [i \in 1..n |-> wrote + i])
       /\ wrote' = wrote + n
  /\ IF kind = "data" /\ wrote' = Size
     THEN closeCh
     ELSE putOptional /\ UNCHANGED closed
  /\ UNCHANGED <<kind, bufOffset, done, mu, out>>

\* close: first the flag, then ch.
setDone ==
  /\ kind = "stream"
  /\ wrote = Size
  /\ ~ done
  /\ done' = TRUE
  /\ UNCHANGED <<kind, buf, bufOffset, wrote, closed, mu, at, out>>

\* Mutant: close sets the flag and nothing more.
closeStreamForgetsCh == done /\ closed /\ UNCHANGED vars

closeStream ==
  /\ kind = "stream"
  /\ done
  /\ ~ closed
  /\ closeCh
  /\ UNCHANGED <<kind, buf, bufOffset, wrote, done, mu, out>>

-----------------------------------------------------------------------------
(* Read.                                                                   *)

\* Nothing will be pushed any more.
Ended == IF kind = "stream" THEN done ELSE wrote = Size

\* Mutant: a piece that is left for the next Read is read from its start again.
ReadBytesAgain(r) ==
  /\ at[r] = "read"
  /\ mu = Free
  /\ buf # <<>>
  /\ \E n \in 1..MaxRead :
       LET rest == SubSeq(Head(buf), bufOffset + 1, Len(Head(buf))) IN
       IF Len(rest) > n
       THEN /\ out' = out \o SubSeq(rest, 1, n)
            /\ UNCHANGED <<buf, bufOffset>>
       ELSE /\ out' = out \o rest
            /\ bufOffset' = 0
            /\ buf' = Tail(buf)
  /\ UNCHANGED <<kind, wrote, done, closed, mu, at>>

\* Mutant: the offset is not reset with the next piece.
ReadBytesKeepsOffset(r) ==
  /\ at[r] = "read"
  /\ mu = Free
  /\ buf # <<>>
  /\ \E n \in 1..MaxRead :
       LET rest == SubSeq(Head(buf), bufOffset + 1, Len(Head(buf))) IN
       IF Len(rest) > n
       THEN /\ out' = out \o SubSeq(rest, 1, n)
            /\ bufOffset' = bufOffset + n
            /\ UNCHANGED buf
       ELSE /\ out' = out \o rest
            /\ buf' = Tail(buf)
            /\ UNCHANGED bufOffset
  /\ UNCHANGED <<kind, wrote, done, closed, mu, at>>

\* Bytes of the first piece: as many as asked for, or what is left of it.
ReadBytes(r) ==
  /\ at[r] = "read"
  /\ mu = Free
  /\ buf # <<>>
  /\ \E n \in 1..MaxRead :
       LET rest == SubSeq(Head(buf), bufOffset + 1, Len(Head(buf))) IN
       IF Len(rest) > n
       THEN /\ out' = out \o SubSeq(rest, 1, n)
            /\ bufOffset' = bufOffset + n
            /\ UNCHANGED buf
       ELSE /\ out' = out \o rest
            /\ bufOffset' = 0
            /\ buf' = Tail(buf)
  /\ UNCHANGED <<kind, wrote, done, closed, mu, at>>

\* Mutant: Read looks at the end before it looks at the buffer.
ReadEOFEarly(r) ==
  /\ at[r] = "read"
  /\ mu = Free
  /\ Ended
  /\ at' = [at EXCEPT ![r] = "eof"]
  /\ mu' = IF kind = "stream" THEN r ELSE Free
  /\ UNCHANGED <<kind, buf, bufOffset, wrote, done, closed, out>>

\* EOF: the one of a stream is returned without unlocking mu.
ReadEOF(r) ==
  /\ at[r] = "read"
  /\ mu = Free
  /\ buf = <<>>
  /\ Ended
  /\ at' = [at EXCEPT ![r] = "eof"]
  /\ mu' = IF kind = "stream" THEN r ELSE Free
  /\ UNCHANGED <<kind, buf, bufOffset, wrote, done, closed, out>>

ReadNothing(r) ==
  /\ at[r] = "read"
  /\ mu = Free
  /\ buf = <<>>
  /\ ~ Ended
  /\ mu' = "unlocker"
  /\ at' = [at EXCEPT ![r] = "park"]
  /\ UNCHANGED <<kind, buf, bufOffset, wrote, done, closed, out>>

Unlock ==
  /\ mu = "unlocker"
  /\ mu' = Free
  /\ UNCHANGED <<kind, buf, bufOffset, wrote, done, closed, at, out>>

\* <-m.ch: a closed channel lets the reader pass.
Park(r) ==
  /\ at[r] = "park"
  /\ at' = [at EXCEPT ![r] = IF closed THEN "read" ELSE "parked"]
  /\ UNCHANGED <<kind, buf, bufOffset, wrote, done, closed, mu, out>>

ReaderStep(r) ==
  \/ ReadBytes(r)
  \/ ReadEOF(r)
  \/ ReadNothing(r)
  \/ Park(r)

ParserStep == push \/ setDone \/ closeStream

Next ==
  \/ ParserStep
  \/ Unlock
  \/ \E r \in Readers : ReaderStep(r)

Spec == Init /\ [][Next]_vars

\* The peer sends everything it announced, and the application keeps reading.
FairSpec ==
  /\ Spec
  /\ WF_vars(ParserStep)
  /\ WF_vars(Unlock)
  /\ \A r \in Readers : WF_vars(ReaderStep(r))

-----------------------------------------------------------------------------
(* Properties.                                                             *)

\* The bytes of a piece, and those of one piece and the next, follow on each other.
Consecutive ==
  /\ \A k \in 1..Len(buf) : \A i \in 1..Len(buf[k]) : buf[k][i] = buf[k][1] + (i - 1)
  /\ \A k \in 1..(Len(buf) - 1) : buf[k + 1][1] = Last(buf[k]) + 1

\* Whatever the pieces and the sizes of the reads, and however many goroutines
\* read: what was read and what is left is what was pushed, in order, with
\* nothing lost and nothing twice.
NothingLost ==
  /\ \A i \in 1..Len(out) : out[i] = i
  /\ Consecutive
  /\ IF buf = <<>>
     THEN wrote = Len(out)
     ELSE /\ Head(buf)[bufOffset + 1] = Len(out) + 1
          /\ Last(Last(buf)) = wrote

\* A reader is told EOF only when every byte has been read.
EOFIsLast == \A r \in Readers : at[r] = "eof" => Len(out) = Size

\* A wakeup may miss a reader that is on its way to ch.  Closing ch makes up for
\* it: everything is read in the end, and every reader of data, for a stream
\* the first one, is told EOF.  The others stay at the mu that the EOF of the
\* stream has left locked.
EverythingIsRead ==
  <>(/\ Len(out) = Size
     /\ \E r \in Readers : at[r] = "eof"
     /\ kind = "data" => \A r \in Readers : at[r] = "eof")
=============================================================================
