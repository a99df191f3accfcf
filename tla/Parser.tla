-------------------------------- MODULE Parser --------------------------------
(***************************************************************************)
(* The receiving side of a connection, byte by byte: NewConn's exchange of *)
(* headers and then Parser.Read, over the buffered reader and its limited  *)
(* one, the stream readers and the message reader.  What a packet does to  *)
(* its channel is ParserChannel's; here are the ways to get there.         *)
(*                                                                         *)
(* The wire is a sequence of units (a header, a switch packet, a packet),  *)
(* each of them a sequence of fields.  A read of a field blocks until all  *)
(* of it is there (bufferedReader.Read loops), so one step reads the       *)
(* fields of a unit; the bytes of data and of streams are handed on as     *)
(* they come, so they take as many steps as there are pieces.              *)
(***************************************************************************)
EXTENDS ParserChannel, PacketCodec, SequencesExt

CONSTANTS
  Setups,     \* options of both sides, and the packets the peer sends
  Cuts,       \* bytes beyond the ones waited for that a short load may bring
  MaxShort    \* bound: loads that bring less than they could

\* A packet, with the range of each of its parts.  The code limits actions to
\* 65535 bytes, and a Data packet is made only of data.
AnyPacket ==
  [kind : {"message", "data", "chunk", "end", "fastReply"}, channel : Channels, of : Messages,
   size : Nat, data : Nat, stream : BOOLEAN]

PacketOK(p) ==
  /\ p.kind = "message" => p.size <= MaxUint16
  /\ p.kind = "data" => p.size > 0
  /\ p.kind \in {"end", "fastReply"} => p.size <= 17

\* What MessageDraft puts on the channels: the header of a message, then its
\* data, as it was announced, and its stream up to one end; the next
\* message on the channel when all of this is sent.
Orderly(packets) ==
  \A j \in DOMAIN packets :
    LET q == packets[j]
        Before(kind) ==
          {i \in 1..(j - 1) : packets[i].kind = kind /\ packets[i].of = q.of}
    IN  /\ q.kind \in {"data", "chunk", "end"} => \E i \in Before("message") :
             /\ packets[i].channel = q.channel
             /\ IF q.kind = "data" THEN packets[i].data = q.size ELSE packets[i].stream
        /\ q.kind \in {"message", "data", "end"} => Before(q.kind) = {}
        /\ q.kind = "chunk" => Before("end") = {}
        /\ \A i \in 1..(j - 1) :
             q.kind = "message" /\ packets[i].kind = "message" /\ packets[i].channel = q.channel =>
               LET Follows(kind) ==
                     \E k \in i..j : packets[k].kind = kind /\ packets[k].of = packets[i].of
               IN  (packets[i].data > 0 => Follows("data")) /\ (packets[i].stream => Follows("end"))

\* The options that are allowed, and packets of a peer that has such options.
SetupOK(s) ==
  /\ {s.channels, s.write, s.peerChannels, s.peerWrite} \subseteq 1..MaxChannels
  /\ s.buffer \in Nat \ {0}
  /\ s.packets \in Seq(AnyPacket)
  /\ \A i \in DOMAIN s.packets :
       PacketOK(s.packets[i]) /\ s.packets[i].channel < WriteChannels(s.peerWrite, s.channels)
  /\ Orderly(s.packets)

ASSUME ParserAssumption ==
  /\ Channels \subseteq Nat /\ 0 \in Channels
  /\ NoMessage \notin Messages
  /\ Cuts \subseteq Nat /\ MaxShort \in Nat
  /\ \A s \in Setups : SetupOK(s)

VARIABLES
  setup,            \* the options and packets of this behaviour
  sent,             \* packets that are not read (what PacketStream sees)
  channelsCount,    \* channels this side accepts
  writeChannels,    \* channels of its writer, 0 before NewConn has made it
  wire,             \* units that are not read, or not begun
  coming,           \* bytes that are not loaded
  short,            \* loads that brought less than they could
  available,        \* bytes in the buffer
  currentChannel,
  sub,              \* the packet that is read in pieces: mode, bytes left
  missing,          \* bytes of data each channel awaits
  actions,          \* the buffer each channel reads actions into
  damaged,          \* messages whose action is not what was sent any more
  ended             \* a load has failed, or found the end of the connection

readerVars == <<coming, short, available>>
connVars == <<setup, channelsCount, writeChannels>>
actionVars == <<actions, damaged>>
vars == <<parserVars, sent, connVars, wire, readerVars, currentChannel, sub,
          missing, actionVars, ended>>

Stream == INSTANCE PacketStream

-----------------------------------------------------------------------------
(* The peer.                                                               *)

\* What its writer puts on the wire when it is at channel `current`: a packet, and
\* a switch packet before it when its channel is another one.
Units(packets, current) ==
  FlattenSeq([i \in DOMAIN packets |->
    LET p == packets[i]
        last == IF i = 1 THEN current ELSE packets[i - 1].channel
    IN  (IF p.channel = last THEN <<>> ELSE <<createSwitchChannelPacket(p.channel)>>)
          \o <<PacketFields(p)>>])

Init ==
  /\ ParserInit
  /\ setup \in Setups
  /\ sent = setup.packets
  /\ channelsCount = setup.channels
  /\ writeChannels = 0
  /\ wire = <<createProtocolHeader(setup.peerChannels)>> \o Units(sent, 0)
  /\ coming = Bytes(wire)
  /\ short = 0
  /\ available = 0
  /\ currentChannel = 0
  /\ sub = [mode |-> "header", size |-> 0]
  /\ missing = [c \in Channels |-> 0]
  /\ actions = [c \in Channels |-> [size |-> 16, held |-> {}]]
  /\ damaged = {}
  /\ ended = FALSE

-----------------------------------------------------------------------------
(* The buffered reader.  It loads when it is empty, at most a buffer.      *)

\* Mutant: what is loaded is not limited by the buffer.
FullLoadUnbounded(needed) == coming - needed

\* What is left in the buffer after `needed` bytes more than there were have
\* been read, when every load brings as much as it can.
FullLoad(needed) ==
  LET over == (- needed) % setup.buffer
      rest == coming - needed
  IN  IF over < rest THEN over ELSE rest

\* Takes w bytes, which leaves `left` bytes in the buffer.
Take(w, left) ==
  IF available >= w
  THEN /\ left = available - w
       /\ UNCHANGED <<coming, short>>
  ELSE LET full == FullLoad(w - available) IN
       /\ w - available <= coming
       /\ left = full \/ (left < full /\ short < MaxShort)
       /\ short' = IF left = full THEN short ELSE short + 1
       /\ coming' = coming - (w - available) - left

Leftovers(w) ==
  IF available >= w THEN {available - w} ELSE Cuts \cup {FullLoad(w - available)}

\* A read of w bytes from the buffer.
Read(w) == \E left \in Leftovers(w) : Take(w, left) /\ available' = left

\* The part of a packet that is read at once.
AtOnce(fields) ==
  IF fields[1].value.type \in {"data", "chunk"} THEN Width(SubSeq(fields, 1, 2)) ELSE Width(fields)

-----------------------------------------------------------------------------
(* NewConn and the packets that are read at once.                          *)

Running == ~ rejected /\ ~ ended

ReadProtocolHeader ==
  /\ Running
  /\ writeChannels = 0
  /\ Read(Width(Head(wire)))
  /\ writeChannels' = Negotiated(setup.write, ReadHeader(Head(wire)))
  /\ wire' = Tail(wire)
  /\ UNCHANGED <<parserVars, sent, setup, channelsCount, currentChannel, sub, missing,
                 actionVars, ended>>

\* The next unit is a packet of this type.
NextIs(type) ==
  /\ Running
  /\ writeChannels # 0
  /\ sub.size = 0
  /\ wire # <<>>
  /\ Head(wire)[1].value.type = type

\* The packet that was read is behind us, unless it was refused.
Done == sent' = IF rejected' THEN sent ELSE Tail(sent)

SwitchChannel ==
  LET target == SwitchTarget(Head(wire)) IN
  /\ NextIs("channelLow") \/ NextIs("channelHigh")
  /\ Read(Width(Head(wire)))
  /\ IF target < channelsCount
     THEN currentChannel' = target /\ UNCHANGED parserVars
     ELSE Reject /\ UNCHANGED currentChannel
  /\ wire' = Tail(wire)
  /\ UNCHANGED <<sent, connVars, sub, missing, actionVars, ended>>

\* Mutant: all channels share one message reader.
ReaderOfAll(c) == 0

\* Every channel has its own message reader.
ReaderOf(c) == c

\* The action of m, of this size, is read into the buffer of the channel's
\* reader, and m keeps pointing there.  When the buffer has to grow, append
\* may move it and leave the old one to the messages that point to it.
ReadAction(c, m, size) ==
  LET r == ReaderOf(c)
      old == actions[r]
  IN  \E held \in {old.held} \cup IF size > old.size THEN {{}} ELSE {} :
        /\ damaged' = damaged \cup held
        /\ actions' = [actions EXCEPT ![r].held = held \cup {m},
                                      ![r].size = IF size > @ THEN size ELSE @]

\* What the message reader asks for is what was written, and all of it.
Fits(fields) ==
  LET body == SubSeq(fields, 3, Len(fields)) IN
  /\ HeaderLayout(fields) = [i \in DOMAIN body |-> body[i].width]
  /\ Width(body) = fields[2].value

\* A header that does not fit would be misread; nothing after it makes sense.
ReadMessage ==
  LET fields == Head(wire)
      c == currentChannel
      m == fields[4].value
      size == HeaderDataSize(fields)
  IN  /\ NextIs("message")
      /\ Read(Width(fields))
      /\ IF Fits(fields)
         THEN InitMessage(c, m, size > 0, fields[1].value.stream)
         ELSE Reject
      /\ IF rejected'
         THEN UNCHANGED <<missing, actionVars>>
         ELSE /\ missing' = [missing EXCEPT ![c] = size]
              /\ ReadAction(c, m, fields[5].value)
      /\ wire' = Tail(wire)
      /\ sub' = [mode |-> "header", size |-> 0]
      /\ Done
      /\ UNCHANGED <<connVars, currentChannel, ended>>

ReadStreamEnd ==
  /\ NextIs("end")
  /\ Read(1)
  /\ EndStream(currentChannel, Head(sent).of)
  /\ wire' = Tail(wire)
  /\ Done
  /\ UNCHANGED <<connVars, currentChannel, sub, missing, actionVars, ended>>

\* "not implemented yet"
ReadFastReply ==
  /\ NextIs("fastReply")
  /\ Read(1)
  /\ Reject
  /\ wire' = Tail(wire)
  /\ UNCHANGED <<sent, connVars, currentChannel, sub, missing, actionVars, ended>>

-----------------------------------------------------------------------------
(* Data and Stream packets, in pieces.                                     *)

\* Mutant: a piece is all that is in the buffer.
PieceUnlimited(loaded, size) == loaded

\* limitedBufferedReader.Len
Piece(loaded, size) == IF size > loaded THEN loaded ELSE size

\* parserChannel.ProcessData or ProcessStream, with `loaded` bytes in the
\* buffer and `size` bytes of the packet to come.
Process(mode, loaded, size) ==
  LET c == currentChannel
      m == Head(sent).of
      n == Piece(loaded, size)
  IN  /\ available' = loaded - n
      /\ sub' = [mode |-> mode, size |-> size - n]
      /\ \/ /\ mode = "data"
            /\ CASE n > missing[c] -> Reject
                 [] n = missing[c] -> ProcessData(c, m)
                 [] OTHER -> UNCHANGED parserVars
            /\ missing' = [missing EXCEPT ![c] = IF rejected' THEN @ ELSE @ - n]
         \/ /\ mode = "chunk"
            /\ IF stream[c] # "open" \/ n = size
               THEN ProcessStream(c, m)
               ELSE UNCHANGED parserVars
            /\ UNCHANGED missing
      /\ sent' = IF rejected' \/ n < size THEN sent ELSE Tail(sent)

\* A size of four bytes does not fit into its reader's buffer of three, and
\* taking it out of there panics.
ReadPart ==
  LET fields == Head(wire)
      mode == fields[1].value.type
  IN  /\ NextIs("data") \/ NextIs("chunk")
      /\ IF fields[2].width = 4
         THEN Read(4) /\ Reject /\ UNCHANGED <<sent, sub, missing>>
         ELSE \E left \in Leftovers(AtOnce(fields)) :
                Take(AtOnce(fields), left) /\ Process(mode, left, fields[2].value)
      /\ wire' = Tail(wire)
      /\ UNCHANGED <<connVars, currentChannel, actionVars, ended>>

\* Read with an unfinished packet: Preload waits for a first byte at most.
ReadPiece ==
  /\ Running
  /\ sub.size > 0
  /\ \E left \in Leftovers(1) : Take(1, left) /\ Process(sub.mode, left + 1, sub.size)
  /\ UNCHANGED <<connVars, wire, currentChannel, actionVars, ended>>

-----------------------------------------------------------------------------

\* Any load may fail, and does when the peer has sent everything and closed.
LoadFails ==
  LET awaited == IF sub.size > 0 \/ wire = <<>> THEN 1
                 ELSE IF writeChannels = 0 THEN Width(Head(wire)) ELSE AtOnce(Head(wire))
  IN  /\ Running
      /\ available < awaited
      /\ ended' = TRUE
      /\ UNCHANGED <<parserVars, sent, connVars, wire, readerVars, currentChannel, sub,
                     missing, actionVars>>

\* The connection is at its end.
Stopped == ~ Running /\ UNCHANGED vars

Next ==
  \/ ReadProtocolHeader \/ SwitchChannel \/ ReadMessage \/ ReadStreamEnd \/ ReadFastReply
  \/ ReadPart \/ ReadPiece \/ LoadFails \/ Stopped

Spec == Init /\ [][Next]_vars

-----------------------------------------------------------------------------
(* Properties.                                                             *)

\* Type invariant; the bytes in the buffer and the ones to come are those
\* of the units that are not read and of the packet that is.
TypeOK ==
  /\ setup \in Setups
  /\ channelsCount = setup.channels
  /\ writeChannels \in 0..MaxChannels
  /\ currentChannel \in Channels
  /\ available \in 0..setup.buffer
  /\ short \in 0..MaxShort
  /\ sub.mode \in {"header", "data", "chunk"}
  /\ \A c \in Channels : data[c] = "none" <=> missing[c] = 0
  /\ damaged \subseteq Messages
  /\ Running => available + coming = sub.size + Bytes(wire)

\* Wherever loads end and whatever the sizes, the reader sees the packets
\* that were sent, one after the other and on their channels: sizes are
\* found, no read goes beyond its packet, and what is refused had to be.
ImplementsPacketStream == Stream!Spec

\* A peer that runs this library is only refused what no parser of it can
\* read: fast replies, and packets of 2^24 bytes or more.  It negotiates
\* the channels, so that none is beyond what this side accepts.
RefusesOnlyUnreadable ==
  rejected => Head(sent).kind = "fastReply" \/ Head(sent).size > MaxUint24

\* The writer NewConn makes uses no channel that the peer did not announce.
WriterWithinPeer == writeChannels <= setup.peerChannels

\* An action that the application was given stays as it was sent until
\* another message comes on the same channel: the readers of other channels
\* have buffers of their own.
ActionKeptUntilReuse ==
  \A m \in damaged : \E i, j \in DOMAIN setup.packets :
    LET p == setup.packets[i]
        q == setup.packets[j]
    IN  /\ p.kind = "message" /\ p.of = m
        /\ q.kind = "message" /\ q.channel = p.channel
        /\ i < j /\ got[q.of] # <<>>

\* "1-%d allowed" (protocol_utils.go:50): a peer can be told any count of
\* channels up to 4096, and keeps to it.  It does not hold for 256.
EveryCountUnderstood == rejected => Head(sent).channel < channelsCount
=============================================================================
