------------------------------ MODULE PacketStream -----------------------------
(***************************************************************************)
(* What the bytes of a connection mean to the one who reads them: packets, *)
(* one after the other and each of them whole, that act on the channel     *)
(* they were sent on the way ParserChannel says.  There are no bytes, no   *)
(* buffers and no switch packets here; Parser shows that with them the     *)
(* same comes out.                                                         *)
(***************************************************************************)
EXTENDS Integers, ParserChannel

VARIABLES
  sent,           \* packets the peer has sent that are not read
  channelsCount   \* channels the reader accepts

streamVars == <<parserVars, sent, channelsCount>>

\* Bytes of the largest packet that can be read.
MaxPacketSize == 16777215

\* What no reader takes.
Unreadable(p) ==
  \/ p.kind = "fastReply"
  \/ p.size > MaxPacketSize
  \/ p.channel >= channelsCount

\* What a packet does to its channel.
Acts(p) ==
  CASE p.kind = "message" -> InitMessage(p.channel, p.of, p.data > 0, p.stream)
    [] p.kind = "data" -> ProcessData(p.channel, p.of)
    [] p.kind = "chunk" -> ProcessStream(p.channel, p.of)
    [] p.kind = "end" -> EndStream(p.channel, p.of)

\* A packet that is refused stays where it is.
ReadPacket ==
  LET p == Head(sent) IN
  /\ sent # <<>>
  /\ ~ rejected
  /\ IF Unreadable(p) THEN Reject ELSE Acts(p)
  /\ sent' = IF rejected' THEN sent ELSE Tail(sent)
  /\ UNCHANGED channelsCount

Spec == ParserInit /\ [][ReadPacket]_streamVars
=============================================================================
