------------------------------ MODULE PacketCodec -----------------------------
(***************************************************************************)
(* How packets are laid out and how the other side reads them: packet.go,  *)
(* byte_utils.go, protocol_utils.go, the header of send in message_draft.go*)
(* and of the external frames of writer.go, against messageReader and      *)
(* getPacketSize.                                                          *)
(*                                                                         *)
(* A packet is a sequence of fields.  A field is its number of bytes and   *)
(* what they say: a number, a part of a message, or for the first byte of  *)
(* a packet the bits that are set in it.  A number that is written in too  *)
(* few bytes loses its high bits, as the conversions of Go do.             *)
(***************************************************************************)
EXTENDS Integers, Sequences

MaxUint4 == 15
MaxUint8 == 255
MaxUint16 == 65535
MaxUint24 == 16777215
MaxChannels == 4096

Field(width, value) == [width |-> width, value |-> value]

\* The sum of a sequence of numbers.
Total(numbers) ==
  LET upTo[i \in 0..Len(numbers)] == IF i = 0 THEN 0 ELSE upTo[i - 1] + numbers[i]
  IN  upTo[Len(numbers)]

\* The bytes of some fields, and of units that are made of fields.
Width(fields) == Total([i \in DOMAIN fields |-> fields[i].width])
Bytes(units) == Total([i \in DOMAIN units |-> Width(units[i])])

\* A number in `width` bytes, little endian.  In 4 or 6 it always fits here.
Uint(n, width) ==
  Field(width, CASE width = 1 -> n % (MaxUint8 + 1)
                 [] width = 2 -> n % (MaxUint16 + 1)
                 [] width = 3 -> n % (MaxUint24 + 1)
                 [] OTHER -> n)

-----------------------------------------------------------------------------
(* The header of a connection: how many channels its sender reads.         *)

createProtocolHeader(channels) ==
  CASE channels = 1 -> <<Field(1, "single")>>
    [] channels \in 2..256 -> <<Field(1, "uint8"), Uint(channels, 1)>>
    [] channels \in 257..(MaxChannels - 1) -> <<Field(1, "uint16"), Uint(channels, 2)>>
    [] OTHER -> <<Field(1, "max")>>

ReadHeader(fields) ==
  CASE Head(fields).value = "single" -> 1
    [] Head(fields).value = "max" -> MaxChannels
    [] OTHER -> fields[2].value

\* Mutant: the header of the other side is read and forgotten.
NegotiatedAlone(option, header) == option

\* The channels of the writer NewConn makes: 0 is taken for the default.
Negotiated(option, header) ==
  LET n == IF header < option THEN header ELSE option
  IN  IF n = 0 THEN MaxChannels ELSE n

\* The channels one side writes on after the other has announced `channels`.
WriteChannels(option, channels) == Negotiated(option, ReadHeader(createProtocolHeader(channels)))

-----------------------------------------------------------------------------
(* The packets that switch the channel.                                    *)

createSwitchChannelPacket(c) ==
  IF c <= MaxUint4
  THEN <<Field(1, [type |-> "channelLow", bits |-> c])>>
  ELSE <<Field(1, [type |-> "channelHigh", bits |-> c \div 256]), Uint(c, 1)>>

\* The channel that is switched to.
SwitchTarget(fields) ==
  LET signature == Head(fields).value IN
  IF signature.type = "channelLow" THEN signature.bits ELSE signature.bits * 256 + fields[2].value

-----------------------------------------------------------------------------
(* Sizes.                                                                  *)

\* Bytes for the size of a packet: newPacket and the frames of writer.go.
PacketSizeBytes(size) ==
  CASE size <= MaxUint8 -> 1
    [] size \in (MaxUint8 + 1)..MaxUint16 -> 2
    [] size \in (MaxUint16 + 1)..MaxUint24 -> 3
    [] OTHER -> 4

getNameSizeBytes(size) == IF size <= MaxUint8 THEN 1 ELSE 2

\* Mutant: 256 is taken for a number of one byte.
getDataSizeBytesOffByOne(size) ==
  CASE size = 0 -> 0
    [] size \in 1..(MaxUint8 + 1) -> 1
    [] size \in (MaxUint8 + 2)..MaxUint16 -> 2
    [] OTHER -> 6

getDataSizeBytes(size) ==
  CASE size = 0 -> 0
    [] size \in 1..MaxUint8 -> 1
    [] size \in (MaxUint8 + 1)..MaxUint16 -> 2
    [] OTHER -> 6

-----------------------------------------------------------------------------
(* Packets.                                                                *)

\* The bits of a first byte, with the class of the size after it.
Signature(type, size, stream) ==
  Field(1, [type |-> type, size |-> PacketSizeBytes(size), stream |-> stream])

Sized(type, size, stream) ==
  <<Signature(type, size, stream), Uint(size, PacketSizeBytes(size))>>

\* The bytes a Message packet announces: flags, id, action and size of data.
MessageSize(p) ==
  17 + getNameSizeBytes(p.size) + p.size + getDataSizeBytes(p.data)

\* A packet is its kind, channel, message, the bytes of its action, data or
\* chunk in `size`, and for a Message packet what comes after it.
PacketFields(p) ==
  CASE p.kind = "message" ->
         Sized("message", MessageSize(p), p.stream)
           \o <<Field(1, [name |-> getNameSizeBytes(p.size), data |-> getDataSizeBytes(p.data)]),
                Field(16, p.of),
                Uint(p.size, getNameSizeBytes(p.size)),
                Field(p.size, p.of)>>
           \o IF p.data = 0 THEN <<>> ELSE <<Uint(p.data, getDataSizeBytes(p.data))>>
    [] p.kind \in {"data", "chunk"} ->
         Sized(p.kind, p.size, FALSE) \o IF p.size = 0 THEN <<>> ELSE <<Field(p.size, p.of)>>
    [] p.kind = "end" -> <<Field(1, [type |-> "end"])>>
    [] p.kind = "fastReply" -> <<Field(1, [type |-> "fastReply"]), Uint(17, 1), Field(17, p.of)>>

\* The bytes that messageReader asks for, field by field, after the size.
HeaderLayout(fields) ==
  LET flags == fields[3].value IN
  <<1, 16, flags.name, fields[5].value>> \o IF flags.data = 0 THEN <<>> ELSE <<flags.data>>

\* The size of the data that messageReader finds.
HeaderDataSize(fields) == IF fields[3].value.data = 0 THEN 0 ELSE fields[7].value
=============================================================================
