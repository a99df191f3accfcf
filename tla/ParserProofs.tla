------------------------------ MODULE ParserProofs -----------------------------
(***************************************************************************)
(* Theorems about Parser, for any peer that runs this library: any options *)
(* and packets, whatever the sizes of buffers and however loads cut the    *)
(* bytes.                                                                  *)
(*                                                                         *)
(* The invariant says where in the packets of the peer the reader is: what *)
(* is left on the wire is what its writer puts there for the packets that  *)
(* are not read, from the channel that the reader is at; the bytes in the  *)
(* buffer and the ones to come are the bytes of that; and every channel    *)
(* is in the middle of the message whose parts are still to come.          *)
(***************************************************************************)
EXTENDS Parser, PacketCodecProofs

-----------------------------------------------------------------------------
(* The invariant.                                                          *)

\* Packets that are read.
Count == Len(setup.packets) - Len(sent)

Typed ==
  /\ setup \in Setups
  /\ channelsCount = setup.channels
  /\ writeChannels \in 0..MaxChannels
  /\ currentChannel \in Channels /\ currentChannel < channelsCount
  /\ available \in 0..setup.buffer /\ coming \in Nat /\ short \in 0..MaxShort
  /\ sub \in [mode : {"header", "data", "chunk"}, size : Nat]
  /\ missing \in [Channels -> Nat]
  /\ actions \in [Channels -> [size : Nat, held : SUBSET Messages]]
  /\ damaged \subseteq Messages

Kinds == {"message", "data", "chunk", "end"}

ChannelsTyped ==
  /\ message \in [Channels -> Messages \cup {NoMessage}]
  /\ data \in [Channels -> {"none", "pending"}]
  /\ stream \in [Channels -> {"none", "open", "done"}]
  /\ got \in [Messages -> Seq([of : Messages, kind : Kinds])]
  /\ rejected \in BOOLEAN
  /\ \A c \in Channels : data[c] = "none" <=> missing[c] = 0

SentOK ==
  /\ Count \in Nat
  /\ sent \in Seq(AnyPacket)
  /\ \A i \in 1..Len(sent) : sent[i] = setup.packets[Count + i]

\* Before the header; between two packets; in the middle of one.
AtHeader ==
  /\ writeChannels = 0 /\ currentChannel = 0 /\ sub.size = 0
  /\ wire = <<createProtocolHeader(setup.peerChannels)>> \o Units(sent, 0)

AtPacket ==
  /\ writeChannels # 0 /\ sub.size = 0
  /\ wire = Units(sent, currentChannel)

InPacket ==
  /\ writeChannels # 0 /\ sub.size > 0
  /\ sent # <<>>
  /\ sub.mode = sent[1].kind /\ currentChannel = sent[1].channel
  /\ sub.mode \in {"data", "chunk"} /\ sent[1].size <= MaxUint24
  /\ wire = Units(Tail(sent), currentChannel)

WireOK == AtHeader \/ AtPacket \/ InPacket

BytesOK == available + coming = sub.size + Bytes(wire)

Announces(p, kind) == IF kind = "data" THEN p.data > 0 ELSE p.stream

\* The messages among the first k packets whose data, or end of stream, is
\* not among them.
Due(packets, k, kind) ==
  {i \in 1..k :
     /\ packets[i].kind = "message" /\ Announces(packets[i], kind)
     /\ \A j \in 1..k : ~ (packets[j].kind = kind /\ packets[j].of = packets[i].of)}

\* The bytes of data that are still to come for message p.
Left(p, part, current) ==
  IF part.size > 0 /\ part.mode = "data" /\ p.channel = current THEN part.size ELSE p.data

\* A channel is in the middle of the message that has something due on it.
ChannelOK ==
  /\ \A i \in Due(setup.packets, Count, "data") :
       LET p == setup.packets[i] IN
       /\ data[p.channel] = "pending" /\ message[p.channel] = p.of
       /\ missing[p.channel] = Left(p, sub, currentChannel)
  /\ \A i \in Due(setup.packets, Count, "end") :
       LET p == setup.packets[i] IN
       stream[p.channel] = "open" /\ message[p.channel] = p.of
  /\ \A c \in Channels :
       /\ data[c] = "pending" =>
            \E i \in Due(setup.packets, Count, "data") : setup.packets[i].channel = c
       /\ stream[c] = "open" =>
            \E i \in Due(setup.packets, Count, "end") : setup.packets[i].channel = c
       /\ data[c] = "none" /\ stream[c] # "open" => message[c] = NoMessage

\* What a channel's reader holds is the action of a message that was read on it.
HeldOK ==
  \A c \in Channels : \A m \in actions[c].held : \E i \in 1..Count :
    LET p == setup.packets[i] IN p.kind = "message" /\ p.of = m /\ p.channel = c

DamagedOK ==
  \A m \in damaged : \E i, j \in 1..Count :
    LET p == setup.packets[i]
        q == setup.packets[j]
    IN  /\ p.kind = "message" /\ p.of = m
        /\ q.kind = "message" /\ q.channel = p.channel
        /\ i < j /\ got[q.of] # <<>>

RefusedOK ==
  rejected =>
    /\ sent # <<>>
    /\ \/ sent[1].kind = "fastReply"
       \/ sent[1].size > MaxUint24
       \/ sent[1].channel >= channelsCount

NegotiatedOK == writeChannels \in {0, WriteChannels(setup.write, setup.peerChannels)}

Inv ==
  /\ Typed /\ ChannelsTyped /\ SentOK
  /\ ~ rejected => WireOK /\ BytesOK /\ ChannelOK
  /\ HeldOK /\ DamagedOK /\ RefusedOK /\ NegotiatedOK

-----------------------------------------------------------------------------
(* Packets in order.                                                       *)

\* What Orderly says of one packet.
LEMMA InOrder ==
  ASSUME NEW packets, NEW n \in Nat, DOMAIN packets = 1..n, Orderly(packets), NEW j \in 1..n
  PROVE  /\ packets[j].kind \in {"data", "chunk", "end"} =>
              \E i \in 1..(j - 1) :
                /\ packets[i].kind = "message" /\ packets[i].of = packets[j].of
                /\ packets[i].channel = packets[j].channel
                /\ IF packets[j].kind = "data"
                   THEN packets[i].data = packets[j].size ELSE packets[i].stream
         /\ packets[j].kind \in {"message", "data", "end"} =>
              \A i \in 1..(j - 1) :
                ~ (packets[i].kind = packets[j].kind /\ packets[i].of = packets[j].of)
         /\ packets[j].kind = "chunk" =>
              \A i \in 1..(j - 1) : ~ (packets[i].kind = "end" /\ packets[i].of = packets[j].of)
         /\ packets[j].kind = "message" =>
              \A i \in 1..(j - 1) :
                packets[i].kind = "message" /\ packets[i].channel = packets[j].channel =>
                  /\ packets[i].data > 0 =>
                       \E k \in i..j : packets[k].kind = "data" /\ packets[k].of = packets[i].of
                  /\ packets[i].stream =>
                       \E k \in i..j : packets[k].kind = "end" /\ packets[k].of = packets[i].of
BY DEF Orderly

\* A message packet comes when nothing is due on its channel.
LEMMA MessageDue ==
  ASSUME NEW packets, NEW n \in Nat, DOMAIN packets = 1..n, Orderly(packets),
         NEW k \in 0..(n - 1), packets[k + 1].kind = "message", NEW kind \in {"data", "end"}
  PROVE  /\ \A i \in Due(packets, k, kind) : packets[i].channel # packets[k + 1].channel
         /\ Due(packets, k + 1, kind) =
              Due(packets, k, kind) \cup {i \in {k + 1} : Announces(packets[i], kind)}
<1> DEFINE q == packets[k + 1]
<1>0. k + 1 \in 1..n /\ (k + 1) - 1 = k /\ kind # "message"
  OBVIOUS
<1>1. ASSUME NEW i \in Due(packets, k, kind), packets[i].channel = q.channel PROVE FALSE
  <2>1. /\ i \in 1..k /\ packets[i].kind = "message" /\ Announces(packets[i], kind)
        /\ \A j \in 1..k : ~ (packets[j].kind = kind /\ packets[j].of = packets[i].of)
    BY DEF Due
  <2>2. \E j \in i..(k + 1) : packets[j].kind = kind /\ packets[j].of = packets[i].of
    BY <1>0, <1>1, <2>1, InOrder DEF Announces
  <2>3. PICK j \in i..(k + 1) : packets[j].kind = kind /\ packets[j].of = packets[i].of
    BY <2>2
  <2>4. j # k + 1
    BY <1>0, <2>3
  <2>5. j \in 1..k
    BY <2>1, <2>4
  <2> QED
    BY <2>1, <2>3, <2>5
<1>2. ASSUME NEW j \in 1..(k + 1), packets[j].kind = kind, packets[j].of = q.of PROVE FALSE
  <2>1. j \in 1..k /\ j \in 1..n
    BY <1>0, <1>2
  <2>2. PICK i \in 1..(j - 1) : packets[i].kind = "message" /\ packets[i].of = packets[j].of
    BY <1>2, <2>1, InOrder
  <2>3. i \in 1..((k + 1) - 1)
    BY <2>1
  <2> QED
    BY <1>0, <1>2, <2>2, <2>3, InOrder
<1>3. ASSUME NEW i \in 1..k
      PROVE  (\A j \in 1..(k + 1) : ~ (packets[j].kind = kind /\ packets[j].of = packets[i].of))
               <=> (\A j \in 1..k : ~ (packets[j].kind = kind /\ packets[j].of = packets[i].of))
  <2>1. \A j \in 1..(k + 1) : j \in 1..k \/ j = k + 1
    OBVIOUS
  <2>2. \A j \in 1..k : j \in 1..(k + 1)
    OBVIOUS
  <2> QED
    BY <1>0, <2>1, <2>2
<1>4. \A i : i \in 1..(k + 1) <=> (i \in 1..k \/ i = k + 1)
  OBVIOUS
<1>5. \A i : i \in Due(packets, k + 1, kind) <=>
        (i \in Due(packets, k, kind) \/ (i = k + 1 /\ Announces(packets[i], kind)))
  <2> SUFFICES ASSUME NEW i
               PROVE  i \in Due(packets, k + 1, kind) <=>
                        (i \in Due(packets, k, kind) \/ (i = k + 1 /\ Announces(packets[i], kind)))
    OBVIOUS
  <2>1. CASE i \in 1..k
    <3>1. i # k + 1
      BY <2>1
    <3> QED
      BY <1>3, <1>4, <2>1, <3>1 DEF Due
  <2>2. CASE i = k + 1
    <3>1. i \notin 1..k
      BY <2>2
    <3> QED
      BY <1>2, <1>4, <2>2, <3>1 DEF Due
  <2> QED
    BY <1>4, <2>1, <2>2 DEF Due
<1> QED
  BY <1>1, <1>5

\* A part of a message comes when it is due.
LEMMA PartDue ==
  ASSUME NEW packets, NEW n \in Nat, DOMAIN packets = 1..n, Orderly(packets),
         NEW k \in 0..(n - 1), packets[k + 1].kind \in {"data", "chunk", "end"},
         packets[k + 1].kind = "data" => packets[k + 1].size > 0
  PROVE  LET q == packets[k + 1] IN
         \E i \in Due(packets, k, IF q.kind = "data" THEN "data" ELSE "end") :
           /\ packets[i].of = q.of /\ packets[i].channel = q.channel
           /\ q.kind = "data" => packets[i].data = q.size
<1> DEFINE q == packets[k + 1]
           kind == IF q.kind = "data" THEN "data" ELSE "end"
<1>0. k + 1 \in 1..n /\ (k + 1) - 1 = k
  OBVIOUS
<1>1. PICK i \in 1..k :
        /\ packets[i].kind = "message" /\ packets[i].of = q.of
        /\ packets[i].channel = q.channel
        /\ IF q.kind = "data" THEN packets[i].data = q.size ELSE packets[i].stream
  BY <1>0, InOrder
<1>2. \A j \in 1..k : ~ (packets[j].kind = kind /\ packets[j].of = q.of)
  BY <1>0, InOrder
<1>3. Announces(packets[i], kind)
  BY <1>1 DEF Announces
<1>4. i \in Due(packets, k, kind)
  BY <1>1, <1>2, <1>3 DEF Due
<1> QED
  BY <1>1, <1>4

\* What is due after a part of a message.
LEMMA AfterPart ==
  ASSUME NEW packets, NEW k \in Nat, packets[k + 1].kind # "message", NEW kind
  PROVE  Due(packets, k + 1, kind) =
           {i \in Due(packets, k, kind) :
              ~ (packets[k + 1].kind = kind /\ packets[k + 1].of = packets[i].of)}
<1>1. \A i : i \in 1..(k + 1) <=> (i \in 1..k \/ i = k + 1)
  OBVIOUS
<1> QED
  BY <1>1 DEF Due

-----------------------------------------------------------------------------

(* What is on the wire.                                                    *)

\* Every unit a peer puts there.
Unit ==
  {createSwitchChannelPacket(c) : c \in Nat}
    \cup {PacketFields(p) : p \in {q \in AnyPacket : PacketOK(q)}}
    \cup {createProtocolHeader(n) : n \in 1..MaxChannels}

\* What is assumed of the constants.
LEMMA Constants ==
  /\ Channels \subseteq Nat /\ 0 \in Channels /\ NoMessage \notin Messages
  /\ Cuts \subseteq Nat /\ MaxShort \in Nat
  /\ \A s \in Setups : SetupOK(s)
BY ParserAssumption

\* There is at least one channel.
LEMMA SomeChannels == MaxChannels \in Nat /\ MaxChannels > 0
BY DEF MaxChannels

\* The parts of a packet have their ranges.
LEMMA PacketTyped ==
  ASSUME NEW p \in AnyPacket
  PROVE  /\ p.kind \in {"message", "data", "chunk", "end", "fastReply"}
         /\ p.channel \in Channels /\ p.channel \in Nat /\ p.of \in Messages
         /\ p.size \in Nat /\ p.data \in Nat /\ p.stream \in BOOLEAN
BY Constants DEF AnyPacket

\* The fields of a packet are a unit that says its kind.
LEMMA PacketUnit ==
  ASSUME NEW p \in AnyPacket, PacketOK(p)
  PROVE  IsUnit(PacketFields(p)) /\ PacketFields(p)[1].value.type = p.kind
<1>1. CASE p.kind = "message"
  <2>1. p.size \in Nat /\ p.size <= MaxUint16 /\ p.data \in Nat
    BY <1>1, PacketTyped DEF PacketOK
  <2> QED
    BY <1>1, <2>1, MessageFields
<1>2. CASE p.kind \in {"data", "chunk"}
  <2>1. p.size \in Nat
    BY PacketTyped
  <2> QED
    BY <1>2, <2>1, PartFields
<1>3. CASE p.kind = "end"
  BY <1>3, EndFields
<1>4. CASE p.kind = "fastReply"
  BY <1>4, FastReplyFields
<1> QED
  BY <1>1, <1>2, <1>3, <1>4, PacketTyped

\* All that a writer puts on the wire are units.
LEMMA UnitsAreUnits ==
  \A u \in Unit : IsUnit(u)
<1> SUFFICES ASSUME NEW u \in Unit PROVE IsUnit(u)
  OBVIOUS
<1>1. CASE \E c \in Nat : u = createSwitchChannelPacket(c)
  BY <1>1, SwitchUnderstood
<1>2. CASE \E p \in AnyPacket : PacketOK(p) /\ u = PacketFields(p)
  BY <1>2, PacketUnit
<1>3. CASE \E n \in 1..MaxChannels : u = createProtocolHeader(n)
  BY <1>3, HeaderUnderstood
<1> QED
  BY <1>1, <1>2, <1>3 DEF Unit

\* A unit in front of others is the first one, and the others are the rest.
LEMMA InFront ==
  ASSUME NEW S, NEW u \in S, NEW rest \in Seq(S)
  PROVE  /\ <<u>> \o rest \in Seq(S) /\ <<u>> \o rest # <<>>
         /\ Head(<<u>> \o rest) = u /\ Tail(<<u>> \o rest) = rest
OBVIOUS

\* No packets are no units.
LEMMA NoUnits ==
  \A c : Units(<<>>, c) = <<>>
BY DEF Units, FlattenSeq

\* The first packet is in front, or the switch to its channel.
LEMMA UnitsFirst ==
  ASSUME NEW packets \in Seq(AnyPacket), \A i \in 1..Len(packets) : PacketOK(packets[i]),
         packets # <<>>, NEW c
  PROVE  LET units == Units(packets, c)
             p == packets[1]
         IN  /\ units \in Seq(Unit) /\ units # <<>>
             /\ IF p.channel = c
                THEN Head(units) = PacketFields(p) /\ Tail(units) = Units(Tail(packets), c)
                ELSE /\ Head(units) = createSwitchChannelPacket(p.channel)
                     /\ Tail(units) = Units(packets, p.channel)
             /\ Units(Tail(packets), p.channel) \in Seq(Unit)
<1> DEFINE p == packets[1]
           Before(ps, d, i) == IF i = 1 THEN d ELSE ps[i - 1].channel
           Group(q, last) ==
             (IF q.channel = last THEN <<>> ELSE <<createSwitchChannelPacket(q.channel)>>)
               \o <<PacketFields(q)>>
           Groups(ps, d) == [i \in DOMAIN ps |-> Group(ps[i], Before(ps, d, i))]
<1>1. \A ps, d : Units(ps, d) = FlattenSeq(Groups(ps, d))
  BY DEF Units
<1>2. \A q \in AnyPacket : PacketOK(q) =>
        /\ PacketFields(q) \in Unit /\ createSwitchChannelPacket(q.channel) \in Unit
        /\ \A last : Group(q, last) \in Seq(Unit)
  <2> SUFFICES ASSUME NEW q \in AnyPacket, PacketOK(q)
               PROVE  /\ PacketFields(q) \in Unit /\ createSwitchChannelPacket(q.channel) \in Unit
                      /\ \A last : Group(q, last) \in Seq(Unit)
    OBVIOUS
  <2>1. PacketFields(q) \in Unit /\ createSwitchChannelPacket(q.channel) \in Unit
    BY PacketTyped DEF Unit
  <2>2. \A u, v \in Unit : <<>> \o <<v>> \in Seq(Unit) /\ <<u>> \o <<v>> \in Seq(Unit)
    OBVIOUS
  <2> QED
    BY <2>1, <2>2
<1>3. p \in AnyPacket /\ PacketOK(p) /\ Len(packets) \in Nat /\ Len(packets) >= 1
      /\ DOMAIN packets = 1..Len(packets)
  OBVIOUS
<1>4. \A d : Groups(packets, d) \in Seq(Seq(Unit)) /\ Groups(packets, d) # <<>>
             /\ Groups(packets, d)[1] = Group(p, d)
  <2> SUFFICES ASSUME NEW d
               PROVE  /\ Groups(packets, d) \in Seq(Seq(Unit)) /\ Groups(packets, d) # <<>>
                      /\ Groups(packets, d)[1] = Group(p, d)
    OBVIOUS
  <2>1. \A i \in 1..Len(packets) : Group(packets[i], Before(packets, d, i)) \in Seq(Unit)
    BY <1>2
  <2>2. Before(packets, d, 1) = d
    OBVIOUS
  <2> HIDE DEF Group, Before
  <2> QED
    BY <1>3, <2>1, <2>2
<1>5. \A d : Tail(Groups(packets, d)) = Groups(Tail(packets), p.channel)
  <2> SUFFICES ASSUME NEW d
               PROVE  Tail(Groups(packets, d)) = Groups(Tail(packets), p.channel)
    OBVIOUS
  <2>1. /\ DOMAIN Tail(packets) = 1..(Len(packets) - 1)
        /\ \A i \in 1..(Len(packets) - 1) : Tail(packets)[i] = packets[i + 1]
    BY <1>3
  <2>2. \A i \in 1..(Len(packets) - 1) :
          Before(packets, d, i + 1) = Before(Tail(packets), p.channel, i)
    <3> SUFFICES ASSUME NEW i \in 1..(Len(packets) - 1)
                 PROVE  Before(packets, d, i + 1) = Before(Tail(packets), p.channel, i)
      OBVIOUS
    <3>1. i + 1 # 1 /\ (i + 1) - 1 = i
      BY <1>3
    <3>2. CASE i = 1
      BY <3>1, <3>2
    <3>3. CASE i # 1
      <4>1. i - 1 \in 1..(Len(packets) - 1) /\ (i - 1) + 1 = i
        BY <1>3, <3>3
      <4> QED
        BY <2>1, <3>1, <3>3, <4>1
    <3> QED
      BY <3>2, <3>3
  <2> HIDE DEF Group, Before
  <2>3. Tail(Groups(packets, d)) =
          [i \in 1..(Len(packets) - 1) |-> Group(packets[i + 1], Before(packets, d, i + 1))]
    BY <1>3, <1>4
  <2>4. Groups(Tail(packets), p.channel) =
          [i \in 1..(Len(packets) - 1) |-> Group(Tail(packets)[i], Before(Tail(packets), p.channel, i))]
    BY <2>1
  <2> QED
    BY <2>1, <2>2, <2>3, <2>4
<1> DEFINE rest == Units(Tail(packets), p.channel)
<1>6. \A d : Units(packets, d) = Group(p, d) \o rest /\ rest \in Seq(Unit)
  <2> SUFFICES ASSUME NEW d PROVE Units(packets, d) = Group(p, d) \o rest /\ rest \in Seq(Unit)
    OBVIOUS
  <2>1. rest = FlattenSeq(Tail(Groups(packets, d)))
    BY <1>1, <1>5
  <2> HIDE DEF Groups, Group, rest
  <2> QED
    BY <1>1, <1>4, <2>1, FlattenFirst
<1>7. CASE p.channel = c
  <2>1. Group(p, c) = <<PacketFields(p)>>
    BY <1>7
  <2>2. Units(packets, c) = <<PacketFields(p)>> \o rest
    BY <1>6, <2>1
  <2> QED
    BY <1>2, <1>3, <1>6, <1>7, <2>2, InFront
<1>8. CASE p.channel # c
  <2> DEFINE sw == createSwitchChannelPacket(p.channel)
             f == PacketFields(p)
  <2>1. Group(p, c) = <<sw>> \o <<f>> /\ Group(p, p.channel) = <<f>>
    BY <1>8
  <2>2. sw \in Unit /\ f \in Unit
    BY <1>2, <1>3
  <2>3. Units(packets, c) = (<<sw>> \o <<f>>) \o rest /\ Units(packets, p.channel) = <<f>> \o rest
    BY <1>6, <2>1
  <2> HIDE DEF sw, f, rest
  <2>4. \A x, y, z \in Seq(Unit) : (x \o y) \o z = x \o (y \o z)
    BY ConcatAssociative
  <2>5. <<sw>> \in Seq(Unit) /\ <<f>> \in Seq(Unit)
    BY <2>2
  <2>6. Units(packets, c) = <<sw>> \o (<<f>> \o rest) /\ <<f>> \o rest \in Seq(Unit)
    BY <1>6, <2>2, <2>3, <2>4, <2>5, InFront
  <2> QED
    BY <1>6, <1>8, <2>2, <2>3, <2>6, InFront DEF sw, rest
<1> QED
  BY <1>7, <1>8

\* All that is on the wire is made of units.
LEMMA UnitsTyped ==
  ASSUME NEW packets \in Seq(AnyPacket), \A i \in 1..Len(packets) : PacketOK(packets[i]), NEW c
  PROVE  Units(packets, c) \in Seq(Unit)
<1>1. CASE packets = <<>>
  <2>1. <<>> \in Seq(Unit)
    OBVIOUS
  <2> QED
    BY <1>1, <2>1, NoUnits
<1>2. CASE packets # <<>>
  BY <1>2, UnitsFirst
<1> QED
  BY <1>1, <1>2

-----------------------------------------------------------------------------

(* Where the reader is.                                                    *)

\* The options and the packets of a behaviour.
LEMMA SetupFacts ==
  ASSUME Typed
  PROVE  /\ setup.buffer \in Nat \ {0} /\ setup.channels \in 1..MaxChannels
         /\ setup.write \in 1..MaxChannels /\ setup.peerChannels \in 1..MaxChannels
         /\ setup.peerWrite \in 1..MaxChannels
         /\ setup.packets \in Seq(AnyPacket) /\ Len(setup.packets) \in Nat
         /\ DOMAIN setup.packets = 1..Len(setup.packets)
         /\ \A i \in 1..Len(setup.packets) :
              /\ PacketOK(setup.packets[i])
              /\ setup.packets[i].channel < WriteChannels(setup.peerWrite, setup.channels)
         /\ Orderly(setup.packets)
<1>1. SetupOK(setup)
  BY Constants DEF Typed
<1>2. setup.packets \in Seq(AnyPacket)
  BY <1>1 DEF SetupOK
<1>3. Len(setup.packets) \in Nat /\ DOMAIN setup.packets = 1..Len(setup.packets)
  BY <1>2
<1> QED
  BY <1>1, <1>2, <1>3 DEF SetupOK

\* The packet that is read next is the next one that was sent.
LEMMA NextPacket ==
  ASSUME Typed, SentOK, sent # <<>>
  PROVE  /\ sent[1] = setup.packets[Count + 1] /\ Head(sent) = sent[1]
         /\ Count \in Nat /\ Count + 1 \in 1..Len(setup.packets)
         /\ Count \in 0..(Len(setup.packets) - 1)
         /\ sent[1] \in AnyPacket /\ PacketOK(sent[1])
         /\ sent[1].channel < WriteChannels(setup.peerWrite, setup.channels)
         /\ sent \in Seq(AnyPacket) /\ \A i \in 1..Len(sent) : PacketOK(sent[i])
         /\ Tail(sent) \in Seq(AnyPacket) /\ \A i \in 1..Len(Tail(sent)) : PacketOK(Tail(sent)[i])
<1>1. Len(setup.packets) \in Nat /\ Len(sent) \in Nat /\ Len(sent) >= 1 /\ Count \in Nat
      /\ Len(setup.packets) = Count + Len(sent) /\ sent \in Seq(AnyPacket) /\ Head(sent) = sent[1]
  BY SetupFacts DEF SentOK, Count
<1>2. \A i \in 1..Len(sent) : Count + i \in 1..Len(setup.packets)
  BY <1>1
<1>3. \A i \in 1..Len(sent) :
        /\ sent[i] = setup.packets[Count + i] /\ PacketOK(sent[i])
        /\ sent[i].channel < WriteChannels(setup.peerWrite, setup.channels)
  BY <1>2, SetupFacts DEF SentOK
<1>4. 1 \in 1..Len(sent) /\ sent[1] \in AnyPacket
  BY <1>1
<1>5. /\ Tail(sent) \in Seq(AnyPacket)
      /\ \A i \in 1..Len(Tail(sent)) : i + 1 \in 1..Len(sent) /\ Tail(sent)[i] = sent[i + 1]
  BY <1>1
<1>6. Count \in 0..(Len(setup.packets) - 1)
  BY <1>1
<1> QED
  BY <1>1, <1>2, <1>3, <1>4, <1>5, <1>6

\* When a packet is read, the others are what is left, and one more is read.
LEMMA SentAfter ==
  ASSUME Typed, SentOK, sent # <<>>, sent' = Tail(sent), setup' = setup
  PROVE  SentOK' /\ Count' = Count + 1
<1>1. /\ Len(sent) \in Nat /\ Len(sent) >= 1 /\ Tail(sent) \in Seq(AnyPacket)
      /\ Len(Tail(sent)) = Len(sent) - 1 /\ Count \in Nat /\ Len(setup.packets) \in Nat
      /\ \A i \in 1..Len(Tail(sent)) : i + 1 \in 1..Len(sent) /\ Tail(sent)[i] = sent[i + 1]
  BY SetupFacts DEF SentOK
<1>2. Count' = Count + 1
  BY <1>1 DEF Count
<1>3. \A i \in 1..Len(Tail(sent)) : Tail(sent)[i] = setup.packets[(Count + 1) + i]
  <2> SUFFICES ASSUME NEW i \in 1..Len(Tail(sent))
               PROVE  Tail(sent)[i] = setup.packets[(Count + 1) + i]
    OBVIOUS
  <2>1. Count + (i + 1) = (Count + 1) + i
    BY <1>1
  <2> QED
    BY <1>1, <2>1 DEF SentOK
<1> QED
  BY <1>1, <1>2, <1>3 DEF SentOK

\* What a reader between two packets finds.
LEMMA NextUnit ==
  ASSUME Typed, SentOK, AtPacket, wire # <<>>
  PROVE  /\ sent # <<>>
         /\ wire \in Seq(Unit) /\ Tail(wire) \in Seq(Unit)
         /\ Bytes(wire) = Width(Head(wire)) + Bytes(Tail(wire))
         /\ Width(Head(wire)) \in Nat /\ Bytes(Tail(wire)) \in Nat
         /\ Units(Tail(sent), sent[1].channel) \in Seq(Unit)
         /\ IF sent[1].channel = currentChannel
            THEN /\ Head(wire) = PacketFields(sent[1])
                 /\ Tail(wire) = Units(Tail(sent), currentChannel)
                 /\ Head(wire)[1].value.type = sent[1].kind
            ELSE /\ SwitchTarget(Head(wire)) = sent[1].channel
                 /\ Tail(wire) = Units(sent, sent[1].channel)
                 /\ Head(wire)[1].value.type \in {"channelLow", "channelHigh"}
<1>1. sent # <<>>
  BY NoUnits DEF AtPacket
<1>2. /\ sent \in Seq(AnyPacket) /\ \A i \in 1..Len(sent) : PacketOK(sent[i])
      /\ sent[1] \in AnyPacket /\ PacketOK(sent[1])
  BY <1>1, NextPacket
<1>3. wire = Units(sent, currentChannel)
  BY DEF AtPacket
<1>4. /\ wire \in Seq(Unit)
      /\ Units(Tail(sent), sent[1].channel) \in Seq(Unit)
      /\ IF sent[1].channel = currentChannel
         THEN Head(wire) = PacketFields(sent[1]) /\ Tail(wire) = Units(Tail(sent), currentChannel)
         ELSE /\ Head(wire) = createSwitchChannelPacket(sent[1].channel)
              /\ Tail(wire) = Units(sent, sent[1].channel)
  BY <1>1, <1>2, <1>3, UnitsFirst
<1>5. Tail(wire) \in Seq(Unit) /\ Head(wire) = wire[1]
  BY <1>4
<1>6. /\ Bytes(wire) = Width(Head(wire)) + Bytes(Tail(wire))
      /\ Width(Head(wire)) \in Nat /\ Bytes(Tail(wire)) \in Nat
  BY <1>4, <1>5, UnitsAreUnits, BytesFirst
<1>7. sent[1].channel \in Nat
  BY <1>2, PacketTyped
<1>8. CASE sent[1].channel = currentChannel
  BY <1>1, <1>2, <1>4, <1>5, <1>6, <1>8, PacketUnit
<1>9. CASE sent[1].channel # currentChannel
  BY <1>1, <1>4, <1>5, <1>6, <1>7, <1>9, SwitchUnderstood
<1> QED
  BY <1>8, <1>9

\* A read of w bytes takes w bytes, wherever loads end.
LEMMA TakeTakes ==
  ASSUME Typed, NEW w \in Nat, NEW left \in Leftovers(w), Take(w, left)
  PROVE  /\ left \in 0..setup.buffer /\ coming' \in Nat /\ short' \in 0..MaxShort
         /\ left + coming' = available + coming - w
<1>1. /\ available \in Nat /\ available <= setup.buffer /\ coming \in Nat
      /\ short \in Nat /\ short <= MaxShort /\ MaxShort \in Nat
      /\ setup.buffer \in Nat /\ setup.buffer > 0
  BY SetupFacts, Constants DEF Typed
<1>2. CASE available >= w
  <2>1. left = available - w /\ coming' = coming /\ short' = short
    BY <1>2 DEF Take
  <2> QED
    BY <1>1, <1>2, <2>1
<1>3. CASE ~ (available >= w)
  <2> DEFINE needed == w - available
             full == FullLoad(needed)
             over == (- needed) % setup.buffer
  <2>1. /\ needed \in Nat /\ needed <= coming
        /\ left = full \/ (left < full /\ short < MaxShort)
        /\ short' = (IF left = full THEN short ELSE short + 1)
        /\ coming' = coming - needed - left
    BY <1>1, <1>3 DEF Take
  <2>2. over \in 0..(setup.buffer - 1)
    <3>1. - needed \in Int
      BY <2>1
    <3> QED
      BY <1>1, <3>1
  <2>3. full = IF over < coming - needed THEN over ELSE coming - needed
    BY DEF FullLoad
  <2> HIDE DEF over
  <2>4. full \in Nat /\ full <= setup.buffer /\ full <= coming - needed
    BY <1>1, <2>1, <2>2, <2>3
  <2>5. left \in Nat
    BY <1>1, <1>3, <2>4, Constants DEF Leftovers
  <2> HIDE DEF full, needed
  <2>6. left <= full
    BY <2>1, <2>4, <2>5
  <2>7. left \in 0..setup.buffer /\ short' \in 0..MaxShort
    BY <1>1, <2>1, <2>4, <2>5, <2>6
  <2>8. coming' \in Nat /\ left + coming' = coming - needed
    BY <1>1, <2>1, <2>4, <2>5, <2>6
  <2> QED
    BY <1>1, <2>1, <2>7, <2>8 DEF needed
<1> QED
  BY <1>2, <1>3

\* A read whose bytes are all there, in the same way.
LEMMA ReadTakes ==
  ASSUME Typed, NEW w \in Nat, Read(w)
  PROVE  /\ available' \in 0..setup.buffer /\ coming' \in Nat /\ short' \in 0..MaxShort
         /\ available' + coming' = available + coming - w
BY TakeTakes DEF Read

-----------------------------------------------------------------------------

(* What a packet does to the channels.                                     *)

\* The packet that is read is the next one of the order.
LEMMA NextInOrder ==
  ASSUME Typed, SentOK, sent # <<>>
  PROVE  /\ setup.packets[Count + 1] = sent[1]
         /\ sent[1].kind = "message" =>
              \A kind \in {"data", "end"} :
                /\ \A i \in Due(setup.packets, Count, kind) :
                     setup.packets[i].channel # sent[1].channel
                /\ Due(setup.packets, Count + 1, kind) =
                     Due(setup.packets, Count, kind)
                       \cup {i \in {Count + 1} : Announces(setup.packets[i], kind)}
         /\ sent[1].kind \in {"data", "chunk", "end"} =>
              /\ \E i \in Due(setup.packets, Count, IF sent[1].kind = "data" THEN "data" ELSE "end") :
                   /\ setup.packets[i].of = sent[1].of
                   /\ setup.packets[i].channel = sent[1].channel
                   /\ sent[1].kind = "data" => setup.packets[i].data = sent[1].size
              /\ \A kind : Due(setup.packets, Count + 1, kind) =
                   {i \in Due(setup.packets, Count, kind) :
                      ~ (sent[1].kind = kind /\ sent[1].of = setup.packets[i].of)}
<1> DEFINE packets == setup.packets
           n == Len(packets)
           k == Count
<1>1. /\ n \in Nat /\ DOMAIN packets = 1..n /\ Orderly(packets) /\ k \in 0..(n - 1) /\ k \in Nat
      /\ packets[k + 1] = sent[1] /\ PacketOK(packets[k + 1])
  BY SetupFacts, NextPacket
<1> HIDE DEF packets, n, k
<1>2. sent[1].kind = "message" =>
        \A kind \in {"data", "end"} :
          /\ \A i \in Due(packets, k, kind) : packets[i].channel # packets[k + 1].channel
          /\ Due(packets, k + 1, kind) =
               Due(packets, k, kind) \cup {i \in {k + 1} : Announces(packets[i], kind)}
  <2> SUFFICES ASSUME sent[1].kind = "message", NEW kind \in {"data", "end"}
               PROVE  /\ \A i \in Due(packets, k, kind) : packets[i].channel # packets[k + 1].channel
                      /\ Due(packets, k + 1, kind) =
                           Due(packets, k, kind) \cup {i \in {k + 1} : Announces(packets[i], kind)}
    OBVIOUS
  <2>1. packets[k + 1].kind = "message"
    BY <1>1
  <2>2. n \in Nat /\ DOMAIN packets = 1..n /\ Orderly(packets) /\ k \in 0..(n - 1)
    BY <1>1
  <2>3. kind \in {"data", "end"}
    OBVIOUS
  <2> QED
    BY ONLY <2>1, <2>2, <2>3, MessageDue
<1>3. packets[k + 1].kind = "data" => packets[k + 1].size > 0
  BY <1>1 DEF PacketOK
<1>4. sent[1].kind \in {"data", "chunk", "end"} =>
        \E i \in Due(packets, k, IF sent[1].kind = "data" THEN "data" ELSE "end") :
          /\ packets[i].of = sent[1].of /\ packets[i].channel = sent[1].channel
          /\ sent[1].kind = "data" => packets[i].data = sent[1].size
  <2> SUFFICES ASSUME sent[1].kind \in {"data", "chunk", "end"}
               PROVE  \E i \in Due(packets, k, IF sent[1].kind = "data" THEN "data" ELSE "end") :
                        /\ packets[i].of = sent[1].of /\ packets[i].channel = sent[1].channel
                        /\ sent[1].kind = "data" => packets[i].data = sent[1].size
    OBVIOUS
  <2>1. /\ n \in Nat /\ DOMAIN packets = 1..n /\ Orderly(packets) /\ k \in 0..(n - 1)
        /\ packets[k + 1].kind \in {"data", "chunk", "end"}
    BY <1>1
  <2>2. LET q == packets[k + 1] IN
        \E i \in Due(packets, k, IF q.kind = "data" THEN "data" ELSE "end") :
          /\ packets[i].of = q.of /\ packets[i].channel = q.channel
          /\ q.kind = "data" => packets[i].data = q.size
    BY ONLY <1>3, <2>1, PartDue
  <2> QED
    BY <1>1, <2>2
<1>5. sent[1].kind \in {"data", "chunk", "end"} =>
        \A kind : Due(packets, k + 1, kind) =
                   {i \in Due(packets, k, kind) :
                      ~ (sent[1].kind = kind /\ sent[1].of = packets[i].of)}
  <2> SUFFICES ASSUME sent[1].kind \in {"data", "chunk", "end"}, NEW kind
               PROVE  Due(packets, k + 1, kind) =
                        {i \in Due(packets, k, kind) :
                           ~ (sent[1].kind = kind /\ sent[1].of = packets[i].of)}
    OBVIOUS
  <2>1. packets[k + 1].kind # "message"
    BY <1>1
  <2>2. Due(packets, k + 1, kind) =
          {i \in Due(packets, k, kind) :
             ~ (packets[k + 1].kind = kind /\ packets[k + 1].of = packets[i].of)}
    <3>1. k \in Nat
      BY <1>1
    <3> QED
      BY ONLY <2>1, <3>1, AfterPart
  <2> QED
    BY <1>1, <2>2
<1> QED
  BY <1>1, <1>2, <1>4, <1>5 DEF packets, k

\* Two messages with a part due are two messages.
LEMMA DueOnce ==
  ASSUME Typed, SentOK,
         NEW kind, NEW i \in Due(setup.packets, Count, kind),
         NEW j \in Due(setup.packets, Count, kind), setup.packets[i].of = setup.packets[j].of
  PROVE  i = j
<1>1. Len(setup.packets) \in Nat /\ DOMAIN setup.packets = 1..Len(setup.packets)
      /\ Orderly(setup.packets) /\ Count \in Nat /\ Count <= Len(setup.packets)
  <2>1. Len(sent) \in Nat
    BY DEF SentOK
  <2> QED
    BY <2>1, SetupFacts DEF SentOK, Count
<1>2. /\ i \in 1..Count /\ j \in 1..Count
      /\ setup.packets[i].kind = "message" /\ setup.packets[j].kind = "message"
  BY DEF Due
<1>3. i \in 1..Len(setup.packets) /\ j \in 1..Len(setup.packets)
  BY <1>1, <1>2
<1>4. ~ (i \in 1..(j - 1)) /\ ~ (j \in 1..(i - 1))
  BY <1>1, <1>2, <1>3, InOrder
<1> QED
  BY <1>2, <1>3, <1>4

\* What is due on a channel that gets a message, or a part of one.
LEMMA ChannelReady ==
  ASSUME Typed, ChannelsTyped, SentOK, ChannelOK, sent # <<>>
  PROVE  /\ sent[1].kind = "message" =>
              /\ message[sent[1].channel] = NoMessage /\ data[sent[1].channel] = "none"
              /\ stream[sent[1].channel] # "open"
         /\ sent[1].kind = "data" =>
              /\ data[sent[1].channel] = "pending" /\ message[sent[1].channel] = sent[1].of
              /\ missing[sent[1].channel] =
                   IF sub.size > 0 /\ sub.mode = "data" /\ sent[1].channel = currentChannel
                   THEN sub.size ELSE sent[1].size
         /\ sent[1].kind \in {"chunk", "end"} =>
              stream[sent[1].channel] = "open" /\ message[sent[1].channel] = sent[1].of
<1> DEFINE c == sent[1].channel
<1>1. c \in Channels
  BY NextPacket, PacketTyped
<1>2. CASE sent[1].kind = "message"
  <2>1. \A kind \in {"data", "end"} : \A i \in Due(setup.packets, Count, kind) :
          setup.packets[i].channel # c
    BY <1>2, NextInOrder
  <2>2. data[c] # "pending" /\ stream[c] # "open"
    BY <1>1, <2>1 DEF ChannelOK
  <2>3. data[c] = "none"
    BY <1>1, <2>2 DEF ChannelsTyped
  <2> QED
    BY <1>1, <1>2, <2>2, <2>3 DEF ChannelOK
<1>3. CASE sent[1].kind = "data"
  <2>1. PICK i \in Due(setup.packets, Count, "data") :
          /\ setup.packets[i].of = sent[1].of /\ setup.packets[i].channel = c
          /\ setup.packets[i].data = sent[1].size
    BY <1>3, NextInOrder
  <2> QED
    BY <1>3, <2>1 DEF ChannelOK, Left
<1>4. CASE sent[1].kind \in {"chunk", "end"}
  <2>1. PICK i \in Due(setup.packets, Count, "end") :
          setup.packets[i].of = sent[1].of /\ setup.packets[i].channel = c
    BY <1>4, NextInOrder
  <2> QED
    BY <1>4, <2>1 DEF ChannelOK
<1> QED
  BY <1>2, <1>3, <1>4

-----------------------------------------------------------------------------

\* What a message leaves behind on its channel, in the words of maybeEnd.
ChannelSet(c, m, d, s) ==
  /\ data' = [data EXCEPT ![c] = d]
  /\ stream' = [stream EXCEPT ![c] = IF d = "none" /\ s # "open" THEN "none" ELSE s]
  /\ message' = [message EXCEPT ![c] = IF d = "none" /\ s # "open" THEN NoMessage ELSE m]

\* A change of one channel leaves the others alone.
LEMMA ChannelAfter ==
  ASSUME ChannelsTyped, NEW c \in Channels, NEW m \in Messages \cup {NoMessage},
         NEW d \in {"none", "pending"}, NEW s \in {"none", "open", "done"}, ChannelSet(c, m, d, s)
  PROVE  /\ message' \in [Channels -> Messages \cup {NoMessage}]
         /\ data' \in [Channels -> {"none", "pending"}]
         /\ stream' \in [Channels -> {"none", "open", "done"}]
         /\ data'[c] = d /\ (d = "pending" \/ s = "open" => message'[c] = m)
         /\ (stream'[c] = "open" <=> s = "open")
         /\ (d = "none" /\ s # "open" => message'[c] = NoMessage)
         /\ \A x \in Channels : x # c =>
              message'[x] = message[x] /\ data'[x] = data[x] /\ stream'[x] = stream[x]
<1>1. /\ message \in [Channels -> Messages \cup {NoMessage}]
      /\ data \in [Channels -> {"none", "pending"}]
      /\ stream \in [Channels -> {"none", "open", "done"}]
  BY DEF ChannelsTyped
<1>2. (IF d = "none" /\ s # "open" THEN "none" ELSE s) \in {"none", "open", "done"}
      /\ (IF d = "none" /\ s # "open" THEN NoMessage ELSE m) \in Messages \cup {NoMessage}
  OBVIOUS
<1>3. /\ message' \in [Channels -> Messages \cup {NoMessage}]
      /\ data' \in [Channels -> {"none", "pending"}]
      /\ stream' \in [Channels -> {"none", "open", "done"}]
  BY <1>1, <1>2 DEF ChannelSet
<1>4. /\ message'[c] = (IF d = "none" /\ s # "open" THEN NoMessage ELSE m)
      /\ data'[c] = d
      /\ stream'[c] = (IF d = "none" /\ s # "open" THEN "none" ELSE s)
      /\ \A x \in Channels : x # c =>
              message'[x] = message[x] /\ data'[x] = data[x] /\ stream'[x] = stream[x]
  BY <1>1 DEF ChannelSet
<1> QED
  BY <1>3, <1>4

\* A part that is given to m is there, and what was there stays.
Given(m, part) == got' = [got EXCEPT ![m] = Append(@, part)]

\* A message that is given a part keeps the ones it had.
LEMMA GotAfter ==
  ASSUME ChannelsTyped, NEW m \in Messages, NEW n \in Messages, NEW kind \in Kinds,
         Given(m, Part(n, kind))
  PROVE  /\ got' \in [Messages -> Seq([of : Messages, kind : Kinds])]
         /\ got'[m] # <<>> /\ \A x \in Messages : got[x] # <<>> => got'[x] # <<>>
<1> DEFINE P == [of : Messages, kind : Kinds]
<1>1. got \in [Messages -> Seq(P)] /\ Part(n, kind) \in P
  BY DEF ChannelsTyped, Part
<1> HIDE DEF P
<1>2. \A q \in Seq(P), part \in P : Append(q, part) \in Seq(P) /\ Append(q, part) # <<>>
  BY AppendProperties
<1>3. Append(got[m], Part(n, kind)) \in Seq(P) /\ Append(got[m], Part(n, kind)) # <<>>
  BY <1>1, <1>2
<1> QED
  BY <1>1, <1>3 DEF Given, P

\* A message on an idle channel.
LEMMA MessageRead ==
  ASSUME Typed, ChannelsTyped, SentOK, ChannelOK, sent # <<>>, ~ rejected,
         sent[1].kind = "message",
         InitMessage(sent[1].channel, sent[1].of, sent[1].data > 0, sent[1].stream),
         missing' = [missing EXCEPT ![sent[1].channel] = sent[1].data],
         sub.size = 0, sub'.size = 0, sent' = Tail(sent), setup' = setup
  PROVE  /\ ChannelsTyped' /\ ChannelOK' /\ ~ rejected'
         /\ got'[sent[1].of] # <<>> /\ \A m \in Messages : got[m] # <<>> => got'[m] # <<>>
<1> DEFINE p == sent[1]
           c == p.channel
           d == IF p.data > 0 THEN "pending" ELSE "none"
           s == IF p.stream THEN "open" ELSE "none"
           packets == setup.packets
           k == Count
<1>1. c \in Channels /\ p.of \in Messages /\ p.data \in Nat /\ p.stream \in BOOLEAN
      /\ Count' = Count + 1 /\ packets[k + 1] = p /\ k \in Nat
  BY NextPacket, PacketTyped, SentAfter
<1>2. ChannelSet(c, p.of, d, s) /\ Given(p.of, Part(p.of, "message")) /\ rejected' = rejected
  BY ChannelReady DEF InitMessage, maybeEnd, ChannelSet, Given
<1>3. d \in {"none", "pending"} /\ s \in {"none", "open", "done"}
      /\ (d = "pending" <=> p.data > 0) /\ (s = "open" <=> p.stream)
  OBVIOUS
<1> HIDE DEF d, s
<1>4. /\ message' \in [Channels -> Messages \cup {NoMessage}]
      /\ data' \in [Channels -> {"none", "pending"}]
      /\ stream' \in [Channels -> {"none", "open", "done"}]
      /\ data'[c] = d /\ (d = "pending" \/ s = "open" => message'[c] = p.of)
      /\ (stream'[c] = "open" <=> s = "open")
      /\ (d = "none" /\ s # "open" => message'[c] = NoMessage)
      /\ \A x \in Channels : x # c =>
           message'[x] = message[x] /\ data'[x] = data[x] /\ stream'[x] = stream[x]
  BY <1>1, <1>2, <1>3, ChannelAfter
<1>5. /\ got' \in [Messages -> Seq([of : Messages, kind : Kinds])]
      /\ got'[p.of] # <<>> /\ \A m \in Messages : got[m] # <<>> => got'[m] # <<>>
  <2>1. "message" \in Kinds
    BY DEF Kinds
  <2> QED
    BY <1>1, <1>2, <2>1, GotAfter
<1>6. missing'[c] = p.data /\ \A x \in Channels : x # c => missing'[x] = missing[x]
  BY <1>1 DEF Typed
<1>7. \A x \in Channels : data'[x] = "none" <=> missing'[x] = 0
  <2> SUFFICES ASSUME NEW x \in Channels PROVE data'[x] = "none" <=> missing'[x] = 0
    OBVIOUS
  <2>1. CASE x = c
    <3>1. p.data > 0 <=> p.data # 0
      BY <1>1
    <3> QED
      BY <1>3, <1>4, <1>6, <2>1, <3>1
  <2>2. CASE x # c
    BY <1>4, <1>6, <2>2 DEF ChannelsTyped
  <2> QED
    BY <2>1, <2>2
<1>8. ChannelsTyped'
  BY <1>2, <1>4, <1>5, <1>7 DEF ChannelsTyped
<1>9. \A kind \in {"data", "end"} :
        /\ \A i \in Due(packets, k, kind) : packets[i].channel # c
        /\ Due(packets, k + 1, kind) =
             Due(packets, k, kind) \cup {i \in {k + 1} : Announces(packets[i], kind)}
  BY NextInOrder
<1>10. \A kind \in {"data", "end"} : \A i \in Due(packets, k, kind) : packets[i].channel \in Channels
  <2>1. packets \in Seq(AnyPacket) /\ Len(packets) \in Nat /\ k <= Len(packets)
    <3>1. Len(sent) \in Nat
      BY DEF SentOK
    <3> QED
      BY <3>1, SetupFacts DEF SentOK, Count
  <2>2. \A i \in 1..k : packets[i] \in AnyPacket
    BY <1>1, <2>1
  <2> QED
    BY <2>2, PacketTyped DEF Due
<1>11. \A x : Left(x, sub, currentChannel) = x.data /\ (Left(x, sub, currentChannel))' = x.data
  BY DEF Left
<1>12. ASSUME NEW i \in Due(packets, k + 1, "data")
       PROVE  /\ data'[packets[i].channel] = "pending" /\ message'[packets[i].channel] = packets[i].of
              /\ missing'[packets[i].channel] = packets[i].data
  <2>1. CASE i \in Due(packets, k, "data")
    <3>1. packets[i].channel # c /\ packets[i].channel \in Channels
      BY <1>9, <1>10, <2>1
    <3>2. /\ data[packets[i].channel] = "pending" /\ message[packets[i].channel] = packets[i].of
          /\ missing[packets[i].channel] = packets[i].data
      BY <1>11, <2>1 DEF ChannelOK
    <3> QED
      BY <1>4, <1>6, <3>1, <3>2
  <2>2. CASE i = k + 1 /\ Announces(packets[i], "data")
    BY <1>1, <1>3, <1>4, <1>6, <2>2 DEF Announces
  <2> QED
    BY <1>9, <2>1, <2>2
<1>13. ASSUME NEW i \in Due(packets, k + 1, "end")
       PROVE  stream'[packets[i].channel] = "open" /\ message'[packets[i].channel] = packets[i].of
  <2>1. CASE i \in Due(packets, k, "end")
    <3>1. packets[i].channel # c /\ packets[i].channel \in Channels
      BY <1>9, <1>10, <2>1
    <3>2. stream[packets[i].channel] = "open" /\ message[packets[i].channel] = packets[i].of
      BY <2>1 DEF ChannelOK
    <3> QED
      BY <1>4, <3>1, <3>2
  <2>2. CASE i = k + 1 /\ Announces(packets[i], "end")
    BY <1>1, <1>3, <1>4, <2>2 DEF Announces
  <2> QED
    BY <1>9, <2>1, <2>2
<1>14. ASSUME NEW x \in Channels
       PROVE  /\ data'[x] = "pending" => \E i \in Due(packets, k + 1, "data") : packets[i].channel = x
              /\ stream'[x] = "open" => \E i \in Due(packets, k + 1, "end") : packets[i].channel = x
              /\ data'[x] = "none" /\ stream'[x] # "open" => message'[x] = NoMessage
  <2>1. CASE x = c
    <3>1. p.data > 0 => k + 1 \in Due(packets, k + 1, "data")
      BY <1>1, <1>9 DEF Announces
    <3>2. p.stream => k + 1 \in Due(packets, k + 1, "end")
      BY <1>1, <1>9 DEF Announces
    <3> QED
      BY <1>1, <1>3, <1>4, <2>1, <3>1, <3>2
  <2>2. CASE x # c
    <3>1. /\ data[x] = "pending" => \E i \in Due(packets, k, "data") : packets[i].channel = x
          /\ stream[x] = "open" => \E i \in Due(packets, k, "end") : packets[i].channel = x
          /\ data[x] = "none" /\ stream[x] # "open" => message[x] = NoMessage
      BY DEF ChannelOK
    <3>2. Due(packets, k, "data") \subseteq Due(packets, k + 1, "data")
          /\ Due(packets, k, "end") \subseteq Due(packets, k + 1, "end")
      BY <1>9
    <3> QED
      BY <1>4, <2>2, <3>1, <3>2
  <2> QED
    BY <2>1, <2>2
<1>15. ChannelOK'
  BY <1>1, <1>11, <1>12, <1>13, <1>14 DEF ChannelOK
<1> QED
  BY <1>2, <1>5, <1>8, <1>15

\* The message that something is due of is one of the messages.
LEMMA DueTyped ==
  ASSUME Typed, SentOK, NEW kind, NEW i \in Due(setup.packets, Count, kind)
  PROVE  setup.packets[i].channel \in Channels /\ setup.packets[i].of \in Messages
<1>1. setup.packets \in Seq(AnyPacket) /\ Len(setup.packets) \in Nat /\ Count \in Nat
      /\ Count <= Len(setup.packets)
  <2>1. Len(sent) \in Nat
    BY DEF SentOK
  <2> QED
    BY <2>1, SetupFacts DEF SentOK, Count
<1>2. i \in 1..Len(setup.packets)
  BY <1>1 DEF Due
<1>3. setup.packets[i] \in AnyPacket
  BY <1>1, <1>2
<1> QED
  BY <1>3, PacketTyped

\* The reader is at the next packet; a part of one is read on its channel.
AtPart ==
  /\ sent # <<>> /\ ~ rejected
  /\ currentChannel = sent[1].channel
  /\ sub.size > 0 => sub.mode = sent[1].kind

\* The last piece of the data of a message.
LEMMA DataRead ==
  ASSUME Typed, ChannelsTyped, SentOK, ChannelOK, AtPart, sent[1].kind = "data",
         ProcessData(currentChannel, sent[1].of),
         missing' = [missing EXCEPT ![currentChannel] = 0],
         sub'.size = 0, sent' = Tail(sent), setup' = setup
  PROVE  /\ ChannelsTyped' /\ ChannelOK' /\ ~ rejected'
         /\ \A m \in Messages : got[m] # <<>> => got'[m] # <<>>
<1> DEFINE p == sent[1]
           c == p.channel
           packets == setup.packets
           k == Count
           s == stream[c]
<1>0. sent # <<>> /\ ~ rejected /\ currentChannel = c
  BY DEF AtPart
<1>1. c \in Channels /\ p.of \in Messages /\ Count' = Count + 1 /\ s \in {"none", "open", "done"}
  BY <1>0, NextPacket, PacketTyped, SentAfter DEF ChannelsTyped
<1>2. data[c] = "pending" /\ message[c] = p.of
  BY <1>0, ChannelReady
<1>3. ChannelSet(c, p.of, "none", s) /\ Given(p.of, Part(p.of, "data")) /\ rejected' = rejected
  BY <1>0, <1>2 DEF ProcessData, maybeEnd, Give, ChannelSet, Given
<1> HIDE DEF s
<1>4. /\ message' \in [Channels -> Messages \cup {NoMessage}]
      /\ data' \in [Channels -> {"none", "pending"}]
      /\ stream' \in [Channels -> {"none", "open", "done"}]
      /\ data'[c] = "none" /\ (s = "open" => message'[c] = p.of)
      /\ (stream'[c] = "open" <=> s = "open")
      /\ (s # "open" => message'[c] = NoMessage)
      /\ \A x \in Channels : x # c =>
           message'[x] = message[x] /\ data'[x] = data[x] /\ stream'[x] = stream[x]
  BY <1>1, <1>3, ChannelAfter
<1>5. /\ got' \in [Messages -> Seq([of : Messages, kind : Kinds])]
      /\ \A m \in Messages : got[m] # <<>> => got'[m] # <<>>
  <2>1. "data" \in Kinds
    BY DEF Kinds
  <2> QED
    BY <1>1, <1>3, <2>1, GotAfter
<1>6. missing'[c] = 0 /\ \A x \in Channels : x # c => missing'[x] = missing[x]
  BY <1>0, <1>1 DEF Typed
<1>7. \A x \in Channels : data'[x] = "none" <=> missing'[x] = 0
  <2> SUFFICES ASSUME NEW x \in Channels PROVE data'[x] = "none" <=> missing'[x] = 0
    OBVIOUS
  <2>1. CASE x = c
    BY <1>4, <1>6, <2>1
  <2>2. CASE x # c
    BY <1>4, <1>6, <2>2 DEF ChannelsTyped
  <2> QED
    BY <2>1, <2>2
<1>8. ChannelsTyped'
  BY <1>3, <1>4, <1>5, <1>7 DEF ChannelsTyped
<1>9. \A kind : Due(packets, k + 1, kind) =
         {i \in Due(packets, k, kind) : ~ (p.kind = kind /\ p.of = packets[i].of)}
  BY <1>0, NextInOrder
<1>10. \A x : x.channel # c => Left(x, sub, currentChannel) = x.data
  BY <1>0 DEF Left
<1>11. \A x : (Left(x, sub, currentChannel))' = x.data
  BY DEF Left
<1>12. ASSUME NEW i \in Due(packets, k + 1, "data")
       PROVE  /\ data'[packets[i].channel] = "pending" /\ message'[packets[i].channel] = packets[i].of
              /\ missing'[packets[i].channel] = packets[i].data
  <2>1. i \in Due(packets, k, "data") /\ p.of # packets[i].of
    BY <1>9
  <2>2. packets[i].channel \in Channels
    BY <2>1, DueTyped
  <2>3. /\ data[packets[i].channel] = "pending" /\ message[packets[i].channel] = packets[i].of
        /\ missing[packets[i].channel] = Left(packets[i], sub, currentChannel)
    BY <2>1 DEF ChannelOK
  <2>4. packets[i].channel # c
    BY <1>2, <2>1, <2>3
  <2> QED
    BY <1>4, <1>6, <1>10, <2>2, <2>3, <2>4
<1>13. ASSUME NEW i \in Due(packets, k + 1, "end")
       PROVE  stream'[packets[i].channel] = "open" /\ message'[packets[i].channel] = packets[i].of
  <2>1. i \in Due(packets, k, "end")
    BY <1>9
  <2>2. packets[i].channel \in Channels
    BY <2>1, DueTyped
  <2>3. stream[packets[i].channel] = "open" /\ message[packets[i].channel] = packets[i].of
    BY <2>1 DEF ChannelOK
  <2> QED
    BY <1>2, <1>4, <2>2, <2>3 DEF s
<1>14. ASSUME NEW x \in Channels
       PROVE  /\ data'[x] = "pending" => \E i \in Due(packets, k + 1, "data") : packets[i].channel = x
              /\ stream'[x] = "open" => \E i \in Due(packets, k + 1, "end") : packets[i].channel = x
              /\ data'[x] = "none" /\ stream'[x] # "open" => message'[x] = NoMessage
  <2>1. /\ data[x] = "pending" => \E i \in Due(packets, k, "data") : packets[i].channel = x
        /\ stream[x] = "open" => \E i \in Due(packets, k, "end") : packets[i].channel = x
        /\ data[x] = "none" /\ stream[x] # "open" => message[x] = NoMessage
    BY DEF ChannelOK
  <2>2. Due(packets, k + 1, "end") = Due(packets, k, "end")
    BY <1>9
  <2>3. CASE x = c
    BY <1>4, <2>1, <2>2, <2>3 DEF s
  <2>4. CASE x # c
    <3>1. ASSUME NEW i \in Due(packets, k, "data"), packets[i].channel = x
          PROVE  i \in Due(packets, k + 1, "data")
      <4>1. PICK j \in Due(packets, k, "data") : packets[j].of = p.of /\ packets[j].channel = c
        BY <1>0, NextInOrder
      <4>2. packets[i].of # p.of
        BY <2>4, <3>1, <4>1, DueOnce
      <4> QED
        BY <1>9, <4>2
    <3> QED
      BY <1>4, <2>1, <2>2, <2>4, <3>1
  <2> QED
    BY <2>3, <2>4
<1>15. ChannelOK'
  BY <1>1, <1>11, <1>12, <1>13, <1>14 DEF ChannelOK
<1> QED
  BY <1>0, <1>3, <1>5, <1>8, <1>15

\* The end of a stream.
LEMMA EndRead ==
  ASSUME Typed, ChannelsTyped, SentOK, ChannelOK, AtPart, sent[1].kind = "end",
         EndStream(currentChannel, sent[1].of), missing' = missing,
         sub.size = 0, sub'.size = 0, sent' = Tail(sent), setup' = setup
  PROVE  /\ ChannelsTyped' /\ ChannelOK' /\ ~ rejected'
         /\ \A m \in Messages : got[m] # <<>> => got'[m] # <<>>
<1> DEFINE p == sent[1]
           c == p.channel
           packets == setup.packets
           k == Count
           d == data[c]
<1>0. sent # <<>> /\ ~ rejected /\ currentChannel = c
  BY DEF AtPart
<1>1. c \in Channels /\ p.of \in Messages /\ Count' = Count + 1 /\ d \in {"none", "pending"}
  BY <1>0, NextPacket, PacketTyped, SentAfter DEF ChannelsTyped
<1>2. stream[c] = "open" /\ message[c] = p.of
  BY <1>0, ChannelReady
<1>3. ChannelSet(c, p.of, d, "done") /\ Given(p.of, Part(p.of, "end")) /\ rejected' = rejected
  BY <1>0, <1>2 DEF EndStream, maybeEnd, Give, ChannelSet, Given
<1> HIDE DEF d
<1>4. /\ message' \in [Channels -> Messages \cup {NoMessage}]
      /\ data' \in [Channels -> {"none", "pending"}]
      /\ stream' \in [Channels -> {"none", "open", "done"}]
      /\ data'[c] = d /\ (d = "pending" => message'[c] = p.of)
      /\ stream'[c] # "open"
      /\ (d = "none" => message'[c] = NoMessage)
      /\ \A x \in Channels : x # c =>
           message'[x] = message[x] /\ data'[x] = data[x] /\ stream'[x] = stream[x]
  BY <1>1, <1>3, ChannelAfter
<1>5. /\ got' \in [Messages -> Seq([of : Messages, kind : Kinds])]
      /\ \A m \in Messages : got[m] # <<>> => got'[m] # <<>>
  <2>1. "end" \in Kinds
    BY DEF Kinds
  <2> QED
    BY <1>1, <1>3, <2>1, GotAfter
<1>6. \A x \in Channels : data'[x] = data[x]
  BY <1>4 DEF d
<1>8. ChannelsTyped'
  BY <1>3, <1>4, <1>5, <1>6 DEF ChannelsTyped
<1>9. \A kind : Due(packets, k + 1, kind) =
         {i \in Due(packets, k, kind) : ~ (p.kind = kind /\ p.of = packets[i].of)}
  BY <1>0, NextInOrder
<1>11. \A x : Left(x, sub, currentChannel) = x.data /\ (Left(x, sub, currentChannel))' = x.data
  BY DEF Left
<1>12. ASSUME NEW i \in Due(packets, k + 1, "data")
       PROVE  /\ data'[packets[i].channel] = "pending" /\ message'[packets[i].channel] = packets[i].of
              /\ missing'[packets[i].channel] = packets[i].data
  <2>1. i \in Due(packets, k, "data")
    BY <1>9
  <2>2. packets[i].channel \in Channels
    BY <2>1, DueTyped
  <2>3. /\ data[packets[i].channel] = "pending" /\ message[packets[i].channel] = packets[i].of
        /\ missing[packets[i].channel] = packets[i].data
    BY <1>11, <2>1 DEF ChannelOK
  <2> QED
    BY <1>2, <1>4, <2>2, <2>3 DEF d
<1>13. ASSUME NEW i \in Due(packets, k + 1, "end")
       PROVE  stream'[packets[i].channel] = "open" /\ message'[packets[i].channel] = packets[i].of
  <2>1. i \in Due(packets, k, "end") /\ p.of # packets[i].of
    BY <1>9
  <2>2. packets[i].channel \in Channels
    BY <2>1, DueTyped
  <2>3. stream[packets[i].channel] = "open" /\ message[packets[i].channel] = packets[i].of
    BY <2>1 DEF ChannelOK
  <2>4. packets[i].channel # c
    BY <1>2, <2>1, <2>3
  <2> QED
    BY <1>4, <2>2, <2>3, <2>4
<1>14. ASSUME NEW x \in Channels
       PROVE  /\ data'[x] = "pending" => \E i \in Due(packets, k + 1, "data") : packets[i].channel = x
              /\ stream'[x] = "open" => \E i \in Due(packets, k + 1, "end") : packets[i].channel = x
              /\ data'[x] = "none" /\ stream'[x] # "open" => message'[x] = NoMessage
  <2>1. /\ data[x] = "pending" => \E i \in Due(packets, k, "data") : packets[i].channel = x
        /\ stream[x] = "open" => \E i \in Due(packets, k, "end") : packets[i].channel = x
        /\ data[x] = "none" /\ stream[x] # "open" => message[x] = NoMessage
    BY DEF ChannelOK
  <2>2. Due(packets, k + 1, "data") = Due(packets, k, "data")
    BY <1>9
  <2>3. CASE x = c
    BY <1>4, <1>6, <2>1, <2>2, <2>3
  <2>4. CASE x # c
    <3>1. ASSUME NEW i \in Due(packets, k, "end"), packets[i].channel = x
          PROVE  i \in Due(packets, k + 1, "end")
      <4>1. PICK j \in Due(packets, k, "end") : packets[j].of = p.of /\ packets[j].channel = c
        BY <1>0, NextInOrder
      <4>2. packets[i].of # p.of
        BY <2>4, <3>1, <4>1, DueOnce
      <4> QED
        BY <1>9, <4>2
    <3> QED
      BY <1>4, <2>1, <2>2, <2>4, <3>1
  <2> QED
    BY <2>3, <2>4
<1>15. ChannelOK'
  BY <1>1, <1>11, <1>12, <1>13, <1>14 DEF ChannelOK
<1> QED
  BY <1>0, <1>3, <1>5, <1>8, <1>15

\* A part of a stream, and a piece of a packet that leaves some of it.
LEMMA ChunkRead ==
  ASSUME Typed, ChannelsTyped, SentOK, ChannelOK, AtPart, sent[1].kind = "chunk",
         ProcessStream(currentChannel, sent[1].of), missing' = missing,
         sub'.size = 0, sent' = Tail(sent), setup' = setup
  PROVE  /\ ChannelsTyped' /\ ChannelOK' /\ ~ rejected'
         /\ \A m \in Messages : got[m] # <<>> => got'[m] # <<>>
<1> DEFINE p == sent[1]
           packets == setup.packets
           k == Count
<1>0. sent # <<>> /\ ~ rejected /\ currentChannel = p.channel
  BY DEF AtPart
<1>1. p.of \in Messages /\ Count' = Count + 1
  BY <1>0, NextPacket, PacketTyped, SentAfter
<1>2. stream[p.channel] = "open" /\ message[p.channel] = p.of
  BY <1>0, ChannelReady
<1>3. /\ Given(p.of, Part(p.of, "chunk")) /\ rejected' = rejected
      /\ message' = message /\ data' = data /\ stream' = stream
  BY <1>0, <1>2 DEF ProcessStream, Give, Given
<1>4. /\ got' \in [Messages -> Seq([of : Messages, kind : Kinds])]
      /\ \A m \in Messages : got[m] # <<>> => got'[m] # <<>>
  <2>1. "chunk" \in Kinds
    BY DEF Kinds
  <2> QED
    BY <1>1, <1>3, <2>1, GotAfter
<1>5. ChannelsTyped'
  BY <1>3, <1>4 DEF ChannelsTyped
<1>6. \A kind \in {"data", "end"} : Due(packets, k + 1, kind) = Due(packets, k, kind)
  <2>1. \A kind : Due(packets, k + 1, kind) =
         {i \in Due(packets, k, kind) : ~ (p.kind = kind /\ p.of = packets[i].of)}
    BY <1>0, NextInOrder
  <2>2. \A kind \in {"data", "end"} : p.kind # kind
    OBVIOUS
  <2> QED
    BY <2>1, <2>2
<1>7. \A x : (Left(x, sub, currentChannel))' = Left(x, sub, currentChannel)
  BY DEF Left, AtPart
<1>8. ChannelOK'
  BY <1>1, <1>3, <1>6, <1>7 DEF ChannelOK
<1> QED
  BY <1>0, <1>3, <1>4, <1>5, <1>8

\* A step that leaves the messages of the channels and what is due alone.
LEMMA ChannelKept ==
  ASSUME Typed, SentOK, ChannelOK, UNCHANGED <<setup, sent, message, data, stream>>,
         \A i \in Due(setup.packets, Count, "data") :
           LET p == setup.packets[i] IN
           missing[p.channel] = Left(p, sub, currentChannel) =>
             missing'[p.channel] = (Left(p, sub, currentChannel))'
  PROVE  ChannelOK'
<1>1. Count' = Count
  BY DEF Count
<1> QED
  BY <1>1 DEF ChannelOK

\* A piece of data that leaves some of it.
LEMMA PieceRead ==
  ASSUME Typed, ChannelsTyped, SentOK, ChannelOK, AtPart, sent[1].kind = "data",
         NEW n \in Nat, NEW size \in Nat, n < size,
         size = missing[currentChannel],
         UNCHANGED <<setup, sent, parserVars, currentChannel>>,
         missing' = [missing EXCEPT ![currentChannel] = @ - n],
         sub'.size = size - n, sub'.mode = "data"
  PROVE  ChannelsTyped' /\ ChannelOK' /\ ~ rejected'
<1> DEFINE c == currentChannel
<1>0. c \in Channels /\ missing[c] \in Nat /\ missing[c] > 0 /\ ~ rejected /\ rejected' = rejected
  BY DEF Typed, AtPart, parserVars
<1>1. missing'[c] = size - n /\ \A x \in Channels : x # c => missing'[x] = missing[x]
  BY <1>0 DEF Typed
<1>2. size - n \in Nat /\ size - n > 0
  OBVIOUS
<1>3. \A x \in Channels : missing'[x] = 0 <=> missing[x] = 0
  BY <1>0, <1>1, <1>2
<1>4. ChannelsTyped'
  BY <1>3 DEF ChannelsTyped, parserVars
<1>5. ASSUME NEW i \in Due(setup.packets, Count, "data"),
             missing[setup.packets[i].channel]
               = Left(setup.packets[i], sub, currentChannel)
      PROVE  missing'[setup.packets[i].channel]
               = (Left(setup.packets[i], sub, currentChannel))'
  <2> DEFINE p == setup.packets[i]
  <2>1. p.channel \in Channels /\ setup' = setup /\ currentChannel' = c
    BY DueTyped
  <2>2. CASE p.channel = c
    BY <1>1, <1>2, <2>1, <2>2 DEF Left
  <2>3. CASE p.channel # c
    BY <1>1, <1>5, <2>1, <2>3 DEF Left
  <2> QED
    BY <2>2, <2>3
<1>6. ChannelOK'
  <2>1. UNCHANGED <<setup, sent, message, data, stream>>
    BY DEF parserVars
  <2> QED
    BY <1>5, <2>1, ChannelKept
<1> QED
  BY <1>0, <1>4, <1>6

-----------------------------------------------------------------------------

(* The steps of the reader.                                                *)

\* What is said of the packets that are read stays true when more are read.
LEMMA HistoryKept ==
  ASSUME Typed, SentOK, HeldOK, DamagedOK, UNCHANGED <<setup, actions, damaged>>,
         Count' \in {Count, Count + 1},
         \A m \in Messages : got[m] # <<>> => got'[m] # <<>>
  PROVE  HeldOK' /\ DamagedOK'
<1>1. /\ setup.packets \in Seq(AnyPacket) /\ Len(setup.packets) \in Nat /\ Count \in Nat
      /\ Count <= Len(setup.packets)
  <2>1. Len(sent) \in Nat
    BY DEF SentOK
  <2> QED
    BY <2>1, SetupFacts DEF SentOK, Count
<1>2. \A i \in 1..Count : i \in 1..Count' /\ setup.packets[i].of \in Messages
  <2>1. \A i \in 1..Count : i \in 1..Count' /\ setup.packets[i] \in AnyPacket
    BY <1>1
  <2> QED
    BY <2>1, PacketTyped
<1>3. HeldOK'
  BY <1>2 DEF HeldOK
<1>4. DamagedOK'
  BY <1>2 DEF DamagedOK
<1> QED
  BY <1>3, <1>4

\* What an error leaves behind.
LEMMA Rejected ==
  ASSUME Inv, Reject, UNCHANGED <<setup, sent, channelsCount, missing, actions, damaged>>,
         sent # <<>>,
         \/ sent[1].kind = "fastReply"
         \/ sent[1].size > MaxUint24
         \/ sent[1].channel >= channelsCount
  PROVE  ChannelsTyped' /\ SentOK' /\ rejected' /\ HeldOK' /\ DamagedOK' /\ RefusedOK'
<1>1. Typed /\ ChannelsTyped /\ SentOK /\ HeldOK /\ DamagedOK
  BY DEF Inv
<1>2. rejected' /\ rejected' \in BOOLEAN /\ UNCHANGED <<message, data, stream, got>>
  BY DEF Reject
<1>3. ChannelsTyped'
  BY <1>1, <1>2 DEF ChannelsTyped
<1>4. SentOK' /\ Count' = Count
  BY <1>1 DEF SentOK, Count
<1>5. HeldOK' /\ DamagedOK'
  BY <1>1, <1>2, <1>4, HistoryKept
<1>6. RefusedOK'
  BY DEF RefusedOK
<1> QED
  BY <1>2, <1>3, <1>4, <1>5, <1>6

\* A step that only moves the reader, or its buffer.
LEMMA OnlyMoved ==
  ASSUME Inv, ~ rejected, UNCHANGED <<parserVars, setup, sent, missing, actions, damaged>>,
         sub.size = 0, sub'.size = 0
  PROVE  ChannelsTyped' /\ SentOK' /\ ChannelOK' /\ ~ rejected' /\ HeldOK' /\ DamagedOK' /\ RefusedOK'
<1>1. Typed /\ ChannelsTyped /\ SentOK /\ HeldOK /\ DamagedOK /\ ChannelOK
  BY DEF Inv
<1>2. ChannelsTyped' /\ ~ rejected' /\ RefusedOK' /\ got' = got
  BY <1>1 DEF ChannelsTyped, parserVars, RefusedOK
<1>3. SentOK' /\ Count' = Count
  BY <1>1 DEF SentOK, Count
<1>4. HeldOK' /\ DamagedOK'
  BY <1>1, <1>2, <1>3, HistoryKept
<1>5. ChannelOK'
  <2>1. \A x : Left(x, sub, currentChannel) = x.data /\ (Left(x, sub, currentChannel))' = x.data
    BY DEF Left
  <2>2. UNCHANGED <<setup, sent, message, data, stream>>
    BY DEF parserVars
  <2> QED
    BY <1>1, <2>1, <2>2, ChannelKept
<1> QED
  BY <1>2, <1>3, <1>4, <1>5

\* The invariant holds of a connection whose headers are still to be exchanged.
LEMMA InitInv == Init => Inv
<1> SUFFICES ASSUME Init PROVE Inv
  OBVIOUS
<1> DEFINE header == createProtocolHeader(setup.peerChannels)
           rest == Units(sent, 0)
<1>0. SetupOK(setup) /\ sent = setup.packets
  BY Constants DEF Init
<1>1. /\ setup.packets \in Seq(AnyPacket) /\ \A i \in 1..Len(setup.packets) : PacketOK(setup.packets[i])
      /\ setup.buffer \in Nat /\ setup.channels \in 1..MaxChannels
      /\ setup.peerChannels \in 1..MaxChannels
  <2>1. setup.packets \in Seq(AnyPacket) /\ DOMAIN setup.packets = 1..Len(setup.packets)
    BY <1>0 DEF SetupOK
  <2> QED
    BY <1>0, <2>1 DEF SetupOK
<1>2. Count = 0 /\ SentOK
  <2>1. Len(setup.packets) \in Nat
    BY <1>1
  <2>2. Count = 0
    BY <1>0, <2>1 DEF Count
  <2> QED
    BY <1>0, <1>1, <2>2 DEF SentOK
<1>3. header \in Unit /\ rest \in Seq(Unit)
  BY <1>0, <1>1, UnitsTyped DEF Unit
<1>4. wire \in Seq(Unit) /\ wire = <<header>> \o rest
  BY <1>3 DEF Init
<1>5. Bytes(wire) \in Nat
  BY <1>4, UnitsAreUnits, BytesNat
<1>6. Typed
  <2>1. /\ setup \in Setups /\ channelsCount = setup.channels /\ writeChannels = 0 /\ available = 0
        /\ short = 0 /\ currentChannel = 0 /\ damaged = {}
        /\ missing = [c \in Channels |-> 0] /\ coming = Bytes(wire)
        /\ sub = [mode |-> "header", size |-> 0]
        /\ actions = [c \in Channels |-> [size |-> 16, held |-> {}]]
    BY DEF Init
  <2>2. writeChannels \in 0..MaxChannels /\ currentChannel < channelsCount
    BY <1>1, <2>1, SomeChannels
  <2>3. available \in 0..setup.buffer /\ short \in 0..MaxShort /\ coming \in Nat
    BY <1>1, <1>5, <2>1, Constants
  <2>4. actions \in [Channels -> [size : Nat, held : SUBSET Messages]]
        /\ missing \in [Channels -> Nat] /\ sub \in [mode : {"header", "data", "chunk"}, size : Nat]
    BY <2>1
  <2> QED
    BY <2>1, <2>2, <2>3, <2>4, Constants DEF Typed
<1>7. ParserInit /\ missing = [c \in Channels |-> 0]
  BY DEF Init
<1>8. ChannelsTyped
  <2>1. \A S : <<>> \in Seq(S)
    OBVIOUS
  <2>2. got \in [Messages -> Seq([of : Messages, kind : Kinds])]
    BY <1>7, <2>1 DEF ParserInit
  <2> QED
    BY <1>7, <2>2 DEF ChannelsTyped, ParserInit
<1>9. ChannelOK
  <2>1. \A kind : Due(setup.packets, Count, kind) = {}
    BY <1>2 DEF Due
  <2> QED
    BY <1>7, <2>1 DEF ChannelOK, ParserInit
<1>10. WireOK /\ BytesOK
  <2>1. sub.size = 0 /\ writeChannels = 0 /\ currentChannel = 0 /\ available = 0 /\ coming = Bytes(wire)
    BY DEF Init
  <2> QED
    BY <1>4, <1>5, <2>1 DEF WireOK, AtHeader, BytesOK
<1>11. HeldOK /\ DamagedOK /\ RefusedOK /\ NegotiatedOK
  <2>1. HeldOK
    BY DEF Init, HeldOK
  <2>2. DamagedOK
    BY DEF Init, DamagedOK
  <2>3. RefusedOK
    BY <1>7 DEF ParserInit, RefusedOK
  <2>4. NegotiatedOK
    BY DEF Init, NegotiatedOK
  <2> QED
    BY <2>1, <2>2, <2>3, <2>4
<1> QED
  BY <1>2, <1>6, <1>8, <1>9, <1>10, <1>11 DEF Inv

\* What both sides announce, as one of them understands it.
LEMMA Announced ==
  ASSUME NEW option \in 1..MaxChannels, NEW n \in 1..MaxChannels
  PROVE  /\ WriteChannels(option, n) \in 1..MaxChannels
         /\ n # 256 => WriteChannels(option, n) <= n
<1>1. ReadHeader(createProtocolHeader(n)) = IF n = 256 THEN 0 ELSE n
  BY HeaderUnderstood
<1>2. MaxChannels \in Nat /\ MaxChannels > 0
  BY SomeChannels
<1>3. CASE n = 256
  <2>1. WriteChannels(option, n) = MaxChannels
    BY <1>1, <1>2, <1>3 DEF WriteChannels, Negotiated
  <2> QED
    BY <1>2, <1>3, <2>1
<1>4. CASE n # 256
  BY <1>1, <1>2, <1>4 DEF WriteChannels, Negotiated
<1> QED
  BY <1>3, <1>4

\* The header of the peer.
LEMMA HeaderStep ==
  ASSUME Inv, ReadProtocolHeader
  PROVE  Inv' /\ UNCHANGED Stream!streamVars
<1> DEFINE header == createProtocolHeader(setup.peerChannels)
           rest == Units(sent, 0)
<1>1. /\ ~ rejected /\ writeChannels = 0 /\ Read(Width(Head(wire)))
      /\ writeChannels' = Negotiated(setup.write, ReadHeader(Head(wire)))
      /\ wire' = Tail(wire)
      /\ UNCHANGED <<parserVars, sent, setup, channelsCount, currentChannel, sub, missing,
                     actions, damaged>>
  BY DEF ReadProtocolHeader, Running, actionVars
<1>2. Typed /\ SentOK /\ AtHeader /\ BytesOK
  BY <1>1 DEF Inv, WireOK, AtPacket, InPacket
<1>3. sub.size = 0 /\ currentChannel = 0 /\ wire = <<header>> \o rest
  BY <1>2 DEF AtHeader
<1>4. header \in Unit /\ rest \in Seq(Unit)
  <2>1. sent \in Seq(AnyPacket) /\ \A i \in 1..Len(sent) : PacketOK(sent[i])
    <3>1. CASE sent = <<>>
      BY <1>2, <3>1 DEF SentOK
    <3>2. CASE sent # <<>>
      BY <1>2, <3>2, NextPacket
    <3> QED
      BY <3>1, <3>2
  <2> QED
    BY <1>2, <2>1, SetupFacts, UnitsTyped DEF Unit
<1>5. wire \in Seq(Unit) /\ wire # <<>> /\ Head(wire) = header /\ wire[1] = header /\ Tail(wire) = rest
  <2>1. wire \in Seq(Unit) /\ wire # <<>> /\ Head(wire) = header /\ Tail(wire) = rest
    BY <1>3, <1>4, InFront
  <2> QED
    BY <2>1
<1>6. Width(header) \in Nat /\ Bytes(wire) = Width(header) + Bytes(rest) /\ Bytes(rest) \in Nat
  BY <1>5, UnitsAreUnits, BytesFirst
<1>7. /\ available' \in 0..setup.buffer /\ coming' \in Nat /\ short' \in 0..MaxShort
      /\ available' + coming' = available + coming - Width(header)
  BY <1>1, <1>2, <1>5, <1>6, ReadTakes
<1>8. writeChannels' = WriteChannels(setup.write, setup.peerChannels)
      /\ writeChannels' \in 1..MaxChannels
  <2>1. writeChannels' = WriteChannels(setup.write, setup.peerChannels)
    BY <1>1, <1>5 DEF WriteChannels
  <2>2. setup.write \in 1..MaxChannels /\ setup.peerChannels \in 1..MaxChannels
    BY <1>2, SetupFacts
  <2> QED
    BY <2>1, <2>2, Announced
<1>9. Typed'
  <2>1. writeChannels' \in 0..MaxChannels
    BY <1>8, SomeChannels
  <2> QED
    BY <1>1, <1>2, <1>7, <2>1 DEF Typed
<1>10. WireOK'
  <2>1. writeChannels' # 0
    BY <1>8, SomeChannels
  <2> QED
    BY <1>1, <1>3, <1>5, <2>1 DEF WireOK, AtPacket
<1>11. BytesOK'
  <2>1. available + coming = Bytes(wire) /\ available \in Nat /\ coming \in Nat
    BY <1>2, <1>3, <1>6 DEF BytesOK, Typed
  <2>2. available' + coming' = Bytes(rest)
    <3> DEFINE w == Width(header)
               b == Bytes(rest)
    <3>1. w \in Nat /\ b \in Nat /\ available + coming = w + b
          /\ available' + coming' = available + coming - w
      BY <1>6, <1>7, <2>1
    <3> HIDE DEF w, b
    <3>2. available' + coming' = b
      BY ONLY <2>1, <3>1
    <3> QED
      BY <3>2 DEF b
  <2>3. sub' = sub /\ wire' = rest
    BY <1>1, <1>5
  <2> QED
    BY <1>3, <1>6, <2>2, <2>3 DEF BytesOK
<1>12. ChannelsTyped' /\ SentOK' /\ ChannelOK' /\ ~ rejected' /\ HeldOK' /\ DamagedOK' /\ RefusedOK'
  BY <1>1, <1>3, OnlyMoved
<1>13. NegotiatedOK'
  BY <1>1, <1>8 DEF NegotiatedOK
<1>14. UNCHANGED Stream!streamVars
  BY <1>1 DEF Stream!streamVars, Stream!parserVars, parserVars
<1> QED
  BY <1>9, <1>10, <1>11, <1>12, <1>13, <1>14 DEF Inv

\* PacketStream's steps on a channel are those of the reader.
LEMMA SameSteps ==
  /\ Stream!Reject <=> Reject
  /\ \A c, m, d, s : Stream!InitMessage(c, m, d, s) <=> InitMessage(c, m, d, s)
  /\ \A c, m : /\ Stream!ProcessData(c, m) <=> ProcessData(c, m)
               /\ Stream!ProcessStream(c, m) <=> ProcessStream(c, m)
               /\ Stream!EndStream(c, m) <=> EndStream(c, m)
BY DEF Stream!Reject, Reject, Stream!InitMessage, InitMessage, Stream!ProcessData, ProcessData,
       Stream!ProcessStream, ProcessStream, Stream!EndStream, EndStream,
       Stream!maybeEnd, maybeEnd, Stream!Give, Give, Stream!Part, Part

\* PacketStream and Parser agree on the largest packet that can be read.
LEMMA SameSize == Stream!MaxPacketSize = MaxUint24
BY DEF Stream!MaxPacketSize, MaxUint24

\* Every packet that has all of its parts within their ranges can be read,
\* when its channel can.
LEMMA Readable ==
  ASSUME NEW p \in AnyPacket, PacketOK(p), p.kind \in Kinds,
         channelsCount \in Nat, p.channel < channelsCount,
         p.kind \in {"data", "chunk"} => p.size <= MaxUint24
  PROVE  ~ Stream!Unreadable(p)
<1>1. p.size \in Nat /\ p.channel \in Nat
  BY PacketTyped
<1>2. p.size <= MaxUint24
  BY <1>1, Limits DEF PacketOK, Kinds
<1>3. p.kind # "fastReply"
  BY DEF Kinds
<1>4. MaxUint24 \in Nat
  BY Limits
<1>5. ~ (p.size > Stream!MaxPacketSize)
  BY <1>1, <1>2, <1>4, SameSize
<1>6. ~ (p.channel >= channelsCount)
  BY <1>1
<1> QED
  BY ONLY <1>3, <1>5, <1>6 DEF Stream!Unreadable

\* A reader that finds a unit is between two packets.
LEMMA Between ==
  ASSUME Inv, NEW type, NextIs(type)
  PROVE  /\ Typed /\ ChannelsTyped /\ SentOK /\ ChannelOK /\ HeldOK /\ DamagedOK /\ NegotiatedOK
         /\ AtPacket /\ ~ rejected /\ wire # <<>> /\ sub.size = 0 /\ writeChannels # 0
         /\ available + coming = Bytes(wire) /\ available \in Nat /\ coming \in Nat
         /\ Head(wire)[1].value.type = type
<1>1. ~ rejected /\ wire # <<>> /\ sub.size = 0 /\ writeChannels # 0
      /\ Head(wire)[1].value.type = type
  BY DEF NextIs, Running
<1>2. /\ Typed /\ ChannelsTyped /\ SentOK /\ ChannelOK /\ HeldOK /\ DamagedOK /\ NegotiatedOK
      /\ AtPacket /\ BytesOK
  BY <1>1 DEF Inv, WireOK, AtHeader, InPacket
<1>3. wire \in Seq(Unit)
  BY <1>1, <1>2, NextUnit
<1>4. available + coming = Bytes(wire) /\ available \in Nat /\ coming \in Nat
  <2>1. Bytes(wire) \in Nat
    BY <1>3, UnitsAreUnits, BytesNat
  <2> QED
    BY <1>1, <1>2, <2>1, SetupFacts DEF BytesOK, Typed
<1> QED
  BY <1>1, <1>2, <1>4

\* When the unit is a packet, it is the one that was sent, on this channel.
LEMMA AtSent ==
  ASSUME Inv, NEW type \in Kinds \cup {"fastReply"}, NextIs(type)
  PROVE  /\ sent # <<>> /\ sent[1].kind = type /\ sent[1].channel = currentChannel
         /\ Head(wire) = PacketFields(sent[1])
         /\ wire \in Seq(Unit)
         /\ Tail(wire) = Units(Tail(sent), currentChannel)
         /\ Bytes(wire) = Width(Head(wire)) + Bytes(Tail(wire))
         /\ Width(Head(wire)) \in Nat /\ Bytes(Tail(wire)) \in Nat
         /\ sent[1] \in AnyPacket /\ PacketOK(sent[1]) /\ Head(sent) = sent[1] /\ AtPart
<1>1. Typed /\ SentOK /\ AtPacket /\ wire # <<>> /\ Head(wire)[1].value.type = type
      /\ ~ rejected /\ sub.size = 0
  BY Between
<1>2. type \notin {"channelLow", "channelHigh"}
  BY DEF Kinds
<1>3. sent[1].channel = currentChannel
  BY <1>1, <1>2, NextUnit
<1>4. /\ sent # <<>> /\ sent[1].kind = type /\ Head(wire) = PacketFields(sent[1])
      /\ wire \in Seq(Unit) /\ Tail(wire) = Units(Tail(sent), currentChannel)
      /\ Bytes(wire) = Width(Head(wire)) + Bytes(Tail(wire))
      /\ Width(Head(wire)) \in Nat /\ Bytes(Tail(wire)) \in Nat
  BY <1>1, <1>3, NextUnit
<1>5. sent[1] \in AnyPacket /\ PacketOK(sent[1]) /\ Head(sent) = sent[1]
  BY <1>1, <1>4, NextPacket
<1>6. AtPart
  BY <1>1, <1>3, <1>4 DEF AtPart
<1> QED
  BY <1>3, <1>4, <1>5, <1>6

\* Bytes that are read are not on the wire any more.
LEMMA BytesRead ==
  ASSUME Inv, wire \in Seq(Unit), sub.size = 0, ~ rejected,
         Bytes(wire) = Width(Head(wire)) + Bytes(Tail(wire)),
         Width(Head(wire)) \in Nat, Bytes(Tail(wire)) \in Nat,
         Read(Width(Head(wire))), wire' = Tail(wire), sub'.size = 0
  PROVE  BytesOK'
<1> DEFINE w == Width(Head(wire))
           b == Bytes(Tail(wire))
<1>1. Typed /\ BytesOK /\ w \in Nat /\ b \in Nat
  BY DEF Inv
<1>2. available + coming = w + b
  <2>1. available + coming = 0 + (w + b)
    BY <1>1 DEF BytesOK
  <2> HIDE DEF w, b
  <2> QED
    BY <1>1, <2>1
<1>3. available' + coming' = available + coming - w
  BY <1>1, ReadTakes
<1>4. available \in Nat /\ coming \in Nat
  BY <1>1, SetupFacts DEF Typed
<1>5. available' + coming' = 0 + b
  <2> HIDE DEF w, b
  <2> QED
    BY <1>1, <1>2, <1>3, <1>4
<1> QED
  BY <1>5 DEF BytesOK

\* A switch packet leads to the channel of the next packet, or is refused with it.
LEMMA SwitchStep ==
  ASSUME Inv, SwitchChannel
  PROVE  Inv' /\ [Stream!ReadPacket]_(Stream!streamVars)
<1> DEFINE target == SwitchTarget(Head(wire))
<1>1. /\ NextIs("channelLow") \/ NextIs("channelHigh")
      /\ Read(Width(Head(wire)))
      /\ IF target < channelsCount
         THEN currentChannel' = target /\ UNCHANGED parserVars
         ELSE Reject /\ UNCHANGED currentChannel
      /\ wire' = Tail(wire)
      /\ UNCHANGED <<sent, setup, channelsCount, writeChannels, sub, missing, actions, damaged>>
  BY DEF SwitchChannel, connVars, actionVars
<1>2. /\ Typed /\ ChannelsTyped /\ SentOK /\ ChannelOK /\ HeldOK /\ DamagedOK /\ NegotiatedOK
      /\ AtPacket /\ ~ rejected /\ wire # <<>> /\ sub.size = 0 /\ writeChannels # 0
      /\ Head(wire)[1].value.type \in {"channelLow", "channelHigh"}
  BY <1>1, Between
<1>3. sent # <<>> /\ sent[1] \in AnyPacket /\ sent[1].channel \in Channels /\ sent[1].channel \in Nat
      /\ sent[1].kind \notin {"channelLow", "channelHigh"} /\ Head(sent) = sent[1]
  BY <1>2, NextUnit, NextPacket, PacketTyped
<1>4. /\ target = sent[1].channel /\ Tail(wire) = Units(sent, sent[1].channel)
      /\ wire \in Seq(Unit) /\ Bytes(wire) = Width(Head(wire)) + Bytes(Tail(wire))
      /\ Width(Head(wire)) \in Nat /\ Bytes(Tail(wire)) \in Nat
  BY <1>2, <1>3, NextUnit
<1>5. available' \in 0..setup.buffer /\ coming' \in Nat /\ short' \in 0..MaxShort
  BY <1>1, <1>2, <1>4, ReadTakes
<1>6. NegotiatedOK'
  BY <1>1, <1>2 DEF NegotiatedOK
<1>7. BytesOK'
  BY <1>1, <1>2, <1>4, BytesRead
<1>8. CASE target < channelsCount
  <2>1. currentChannel' = sent[1].channel /\ UNCHANGED parserVars
    BY <1>1, <1>4, <1>8
  <2>2. Typed'
    BY <1>1, <1>2, <1>3, <1>4, <1>5, <1>8, <2>1 DEF Typed
  <2>3. WireOK'
    BY <1>1, <1>2, <1>4, <2>1 DEF WireOK, AtPacket
  <2>4. ChannelsTyped' /\ SentOK' /\ ChannelOK' /\ ~ rejected' /\ HeldOK' /\ DamagedOK' /\ RefusedOK'
    BY <1>1, <1>2, <2>1, OnlyMoved
  <2>5. UNCHANGED Stream!streamVars
    BY <1>1, <2>1 DEF Stream!streamVars, Stream!parserVars, parserVars
  <2> QED
    BY <1>6, <1>7, <2>2, <2>3, <2>4, <2>5 DEF Inv
<1>9. CASE ~ (target < channelsCount)
  <2>1. Reject /\ currentChannel' = currentChannel
    BY <1>1, <1>9
  <2>2. Typed'
    BY <1>1, <1>2, <1>5, <2>1 DEF Typed
  <2>3. sent[1].channel >= channelsCount
    <3>1. channelsCount \in Nat
      BY <1>2, SetupFacts, SomeChannels DEF Typed
    <3>2. sent[1].channel \in Nat /\ ~ (sent[1].channel < channelsCount)
      BY <1>3, <1>4, <1>9
    <3> QED
      BY ONLY <3>1, <3>2
  <2>4. ChannelsTyped' /\ SentOK' /\ rejected' /\ HeldOK' /\ DamagedOK' /\ RefusedOK'
    BY <1>1, <1>3, <2>1, <2>3, Rejected
  <2>5. Stream!ReadPacket
    BY <1>1, <1>2, <1>3, <2>1, <2>3, <2>4, SameSteps DEF Stream!ReadPacket, Stream!Unreadable
  <2> QED
    BY <1>6, <2>2, <2>4, <2>5 DEF Inv
<1> QED
  BY <1>8, <1>9

\* A fast reply is refused, as PacketStream says.
LEMMA FastReplyStep ==
  ASSUME Inv, ReadFastReply
  PROVE  Inv' /\ [Stream!ReadPacket]_(Stream!streamVars)
<1>1. /\ NextIs("fastReply") /\ Read(1) /\ Reject
      /\ UNCHANGED <<sent, setup, channelsCount, writeChannels, currentChannel, sub, missing,
                     actions, damaged>>
  BY DEF ReadFastReply, connVars, actionVars
<1>2. Typed /\ SentOK /\ NegotiatedOK /\ ~ rejected
  BY <1>1, Between
<1>3. sent # <<>> /\ sent[1].kind = "fastReply" /\ Head(sent) = sent[1]
  BY <1>1, AtSent
<1>4. available' \in 0..setup.buffer /\ coming' \in Nat /\ short' \in 0..MaxShort
  BY <1>1, <1>2, ReadTakes
<1>5. Typed'
  BY <1>1, <1>2, <1>4 DEF Typed
<1>6. ChannelsTyped' /\ SentOK' /\ rejected' /\ HeldOK' /\ DamagedOK' /\ RefusedOK'
  BY <1>1, <1>3, Rejected
<1>7. NegotiatedOK'
  BY <1>1, <1>2 DEF NegotiatedOK
<1>8. Stream!ReadPacket
  BY <1>1, <1>2, <1>3, <1>6, SameSteps DEF Stream!ReadPacket, Stream!Unreadable
<1> QED
  BY <1>5, <1>6, <1>7, <1>8 DEF Inv

\* The end of a stream is read in one step.
LEMMA EndStep ==
  ASSUME Inv, ReadStreamEnd
  PROVE  Inv' /\ [Stream!ReadPacket]_(Stream!streamVars)
<1>1. /\ NextIs("end") /\ Read(1) /\ EndStream(currentChannel, Head(sent).of)
      /\ wire' = Tail(wire) /\ Done
      /\ UNCHANGED <<setup, channelsCount, writeChannels, currentChannel, sub, missing,
                     actions, damaged>>
  BY DEF ReadStreamEnd, connVars, actionVars
<1>2. /\ Typed /\ ChannelsTyped /\ SentOK /\ ChannelOK /\ HeldOK /\ DamagedOK /\ NegotiatedOK
      /\ ~ rejected /\ sub.size = 0 /\ writeChannels # 0
  BY <1>1, Between
<1>3. /\ sent # <<>> /\ sent[1].kind = "end" /\ sent[1].channel = currentChannel
      /\ Head(wire) = PacketFields(sent[1]) /\ wire \in Seq(Unit)
      /\ Tail(wire) = Units(Tail(sent), currentChannel)
      /\ Bytes(wire) = Width(Head(wire)) + Bytes(Tail(wire))
      /\ Width(Head(wire)) \in Nat /\ Bytes(Tail(wire)) \in Nat
      /\ sent[1] \in AnyPacket /\ PacketOK(sent[1]) /\ Head(sent) = sent[1] /\ AtPart
  <2>1. "end" \in Kinds
    BY DEF Kinds
  <2> QED
    BY <1>1, <2>1, AtSent
<1>4. Width(Head(wire)) = 1
  BY <1>3, EndFields
<1>5. available' \in 0..setup.buffer /\ coming' \in Nat /\ short' \in 0..MaxShort
  BY <1>1, <1>2, ReadTakes
<1>6. rejected' = rejected
  <2>1. stream[currentChannel] = "open"
    BY <1>2, <1>3, ChannelReady
  <2> QED
    BY <1>1, <2>1 DEF EndStream
<1>7. sent' = Tail(sent)
  BY <1>1, <1>2, <1>6 DEF Done
<1>8. EndStream(currentChannel, sent[1].of)
  BY <1>1, <1>3
<1>9. /\ ChannelsTyped' /\ ChannelOK' /\ ~ rejected'
      /\ \A m \in Messages : got[m] # <<>> => got'[m] # <<>>
  BY <1>1, <1>2, <1>3, <1>7, <1>8, EndRead
<1>10. SentOK' /\ Count' = Count + 1
  BY <1>1, <1>2, <1>3, <1>7, SentAfter
<1>11. HeldOK' /\ DamagedOK'
  BY <1>1, <1>2, <1>9, <1>10, HistoryKept
<1>12. BytesOK'
  BY <1>1, <1>2, <1>3, <1>4, BytesRead
<1>13. WireOK'
  BY <1>1, <1>2, <1>3, <1>7 DEF WireOK, AtPacket
<1>14. Typed'
  BY <1>1, <1>2, <1>5 DEF Typed
<1>15. NegotiatedOK' /\ RefusedOK'
  BY <1>1, <1>2, <1>9 DEF NegotiatedOK, RefusedOK
<1>16. Stream!ReadPacket
  <2>1. ~ Stream!Unreadable(sent[1])
    <3>1. channelsCount \in Nat /\ currentChannel < channelsCount
      BY <1>2, SetupFacts DEF Typed
    <3> QED
      BY <1>3, <3>1, Readable DEF Kinds
  <2>2. Stream!Acts(sent[1])
    BY <1>3, <1>8, SameSteps DEF Stream!Acts
  <2> QED
    BY <1>1, <1>2, <1>3, <1>7, <1>9, <2>1, <2>2 DEF Stream!ReadPacket
<1> QED
  BY <1>9, <1>10, <1>11, <1>12, <1>13, <1>14, <1>15, <1>16 DEF Inv

\* So is the header of a message, which makes its channel await what it announces.
LEMMA MessageStep ==
  ASSUME Inv, ReadMessage
  PROVE  Inv' /\ [Stream!ReadPacket]_(Stream!streamVars)
<1> DEFINE fields == Head(wire)
           p == sent[1]
           c == currentChannel
<1>1. /\ NextIs("message") /\ Read(Width(fields))
      /\ IF Fits(fields)
         THEN InitMessage(c, fields[4].value, HeaderDataSize(fields) > 0, fields[1].value.stream)
         ELSE Reject
      /\ IF rejected'
         THEN UNCHANGED <<missing, actions, damaged>>
         ELSE /\ missing' = [missing EXCEPT ![c] = HeaderDataSize(fields)]
              /\ ReadAction(c, fields[4].value, fields[5].value)
      /\ wire' = Tail(wire) /\ sub' = [mode |-> "header", size |-> 0] /\ Done
      /\ UNCHANGED <<setup, channelsCount, writeChannels, currentChannel>>
  BY DEF ReadMessage, connVars, actionVars
<1>2. /\ Typed /\ ChannelsTyped /\ SentOK /\ ChannelOK /\ HeldOK /\ DamagedOK /\ NegotiatedOK
      /\ ~ rejected /\ sub.size = 0 /\ writeChannels # 0
  BY <1>1, Between
<1>3. /\ sent # <<>> /\ p.kind = "message" /\ p.channel = c
      /\ fields = PacketFields(p) /\ wire \in Seq(Unit)
      /\ Tail(wire) = Units(Tail(sent), c)
      /\ Bytes(wire) = Width(fields) + Bytes(Tail(wire))
      /\ Width(fields) \in Nat /\ Bytes(Tail(wire)) \in Nat
      /\ p \in AnyPacket /\ PacketOK(p) /\ Head(sent) = p /\ AtPart
  <2>1. "message" \in Kinds
    BY DEF Kinds
  <2> QED
    BY <1>1, <2>1, AtSent
<1>4. /\ fields[1].value.stream = p.stream /\ fields[4].value = p.of /\ fields[5].value = p.size
      /\ HeaderDataSize(fields) = p.data /\ Fits(fields)
  <2>1. p.size \in Nat /\ p.size <= MaxUint16 /\ p.data \in Nat
    BY <1>3, PacketTyped DEF PacketOK
  <2>2. LET f == PacketFields(p)
            body == SubSeq(f, 3, Len(f))
        IN
        /\ f[1].value.stream = p.stream /\ f[4].value = p.of /\ f[5].value = p.size
        /\ HeaderDataSize(f) = p.data
        /\ HeaderLayout(f) = [i \in DOMAIN body |-> body[i].width]
        /\ Width(body) = f[2].value
    BY <1>3, <2>1, MessageFields
  <2>3. /\ PacketFields(p)[1].value.stream = p.stream /\ PacketFields(p)[4].value = p.of
        /\ PacketFields(p)[5].value = p.size /\ HeaderDataSize(PacketFields(p)) = p.data
        /\ Fits(PacketFields(p))
    BY ONLY <2>2 DEF Fits
  <2> QED
    BY <1>3, <2>3
<1>5. InitMessage(c, p.of, p.data > 0, p.stream)
  BY <1>1, <1>4
<1>6. ~ rejected'
  <2>1. message[c] = NoMessage
    BY <1>2, <1>3, ChannelReady
  <2> QED
    BY <1>2, <1>5, <2>1 DEF InitMessage
<1>7. missing' = [missing EXCEPT ![c] = p.data] /\ ReadAction(c, p.of, p.size) /\ sent' = Tail(sent)
  BY <1>1, <1>4, <1>6 DEF Done
<1>8. /\ ChannelsTyped' /\ ChannelOK' /\ got'[p.of] # <<>>
      /\ \A m \in Messages : got[m] # <<>> => got'[m] # <<>>
  <2>1. sub'.size = 0
    BY <1>1
  <2> QED
    BY <1>1, <1>2, <1>3, <1>5, <1>7, <2>1, MessageRead
<1>9. SentOK' /\ Count' = Count + 1 /\ Count \in Nat /\ setup.packets[Count + 1] = p
  BY <1>1, <1>2, <1>3, <1>7, SentAfter, NextPacket
<1>10. /\ c \in Channels /\ p.of \in Messages /\ p.size \in Nat /\ p.data \in Nat
       /\ actions[c] \in [size : Nat, held : SUBSET Messages]
  BY <1>2, <1>3, PacketTyped DEF Typed
<1>11. PICK held \in {actions[c].held, {}} :
         /\ damaged' = damaged \cup held
         /\ actions' = [actions EXCEPT ![c].held = held \cup {p.of},
                                       ![c].size = IF p.size > @ THEN p.size ELSE @]
  BY <1>7 DEF ReadAction, ReaderOf
<1>12. held \subseteq actions[c].held /\ held \subseteq Messages
  BY <1>10, <1>11
<1>13. /\ actions'[c].held = held \cup {p.of} /\ actions'[c].size \in Nat
       /\ \A x \in Channels : x # c => actions'[x] = actions[x]
       /\ actions' \in [Channels -> [size : Nat, held : SUBSET Messages]]
       /\ damaged' \subseteq Messages
  BY <1>2, <1>10, <1>11, <1>12 DEF Typed
<1>14. \A i \in 1..Count : i \in 1..Count' /\ i < Count' /\ setup.packets[i].of \in Messages
  <2>1. \A i \in 1..Count : setup.packets[i] \in AnyPacket
    <3>1. setup.packets \in Seq(AnyPacket) /\ Count <= Len(setup.packets)
          /\ Len(setup.packets) \in Nat
      BY <1>2, <1>3, SetupFacts, NextPacket
    <3> QED
      BY <1>9, <3>1
  <2> QED
    BY <1>9, <2>1, PacketTyped
<1>15. HeldOK'
  <2> SUFFICES ASSUME NEW x \in Channels, NEW m \in actions'[x].held
               PROVE  \E i \in 1..Count' :
                        /\ setup.packets[i].kind = "message" /\ setup.packets[i].of = m
                        /\ setup.packets[i].channel = x
    BY <1>1 DEF HeldOK
  <2>1. CASE x = c /\ m = p.of
    <3>1. Count + 1 \in 1..Count'
      BY <1>9
    <3> QED
      BY <1>3, <1>9, <2>1, <3>1
  <2>2. CASE ~ (x = c /\ m = p.of)
    <3>1. m \in actions[x].held
      BY <1>12, <1>13, <2>2
    <3>2. PICK i \in 1..Count :
            /\ setup.packets[i].kind = "message" /\ setup.packets[i].of = m
            /\ setup.packets[i].channel = x
      BY <1>2, <3>1 DEF HeldOK
    <3> QED
      BY <1>14, <3>2
  <2> QED
    BY <2>1, <2>2
<1>16. DamagedOK'
  <2> SUFFICES ASSUME NEW m \in damaged'
               PROVE  \E i, j \in 1..Count' :
                        /\ setup.packets[i].kind = "message" /\ setup.packets[i].of = m
                        /\ setup.packets[j].kind = "message"
                        /\ setup.packets[j].channel = setup.packets[i].channel
                        /\ i < j /\ got'[setup.packets[j].of] # <<>>
    BY <1>1 DEF DamagedOK
  <2>1. CASE m \in damaged
    BY <1>2, <1>8, <1>14, <2>1 DEF DamagedOK
  <2>2. CASE m \in held
    <3>1. PICK i \in 1..Count :
            /\ setup.packets[i].kind = "message" /\ setup.packets[i].of = m
            /\ setup.packets[i].channel = c
      BY <1>2, <1>10, <1>12, <2>2 DEF HeldOK
    <3>2. Count + 1 \in 1..Count' /\ Count' = Count + 1
      BY <1>9
    <3> QED
      BY <1>3, <1>8, <1>9, <1>14, <3>1, <3>2
  <2> QED
    BY <1>11, <2>1, <2>2
<1>17. available' \in 0..setup.buffer /\ coming' \in Nat /\ short' \in 0..MaxShort
  BY <1>1, <1>2, <1>3, ReadTakes
<1>18. Typed'
  <2>1. missing' \in [Channels -> Nat] /\ sub' \in [mode : {"header", "data", "chunk"}, size : Nat]
    BY <1>1, <1>2, <1>7, <1>10 DEF Typed
  <2> QED
    BY <1>1, <1>2, <1>13, <1>17, <2>1 DEF Typed
<1>19. BytesOK'
  <2>1. sub'.size = 0
    BY <1>1
  <2> QED
    BY <1>1, <1>2, <1>3, <2>1, BytesRead
<1>20. WireOK'
  BY <1>1, <1>2, <1>3, <1>7 DEF WireOK, AtPacket
<1>21. NegotiatedOK' /\ RefusedOK'
  BY <1>1, <1>2, <1>6 DEF NegotiatedOK, RefusedOK
<1>22. Stream!ReadPacket
  <2>1. ~ Stream!Unreadable(p)
    <3>1. channelsCount \in Nat /\ currentChannel < channelsCount
      BY <1>2, SetupFacts DEF Typed
    <3> QED
      BY <1>3, <3>1, Readable DEF Kinds
  <2>2. Stream!Acts(p)
    BY <1>3, <1>5, SameSteps DEF Stream!Acts
  <2> QED
    BY <1>1, <1>2, <1>3, <1>6, <1>7, <2>1, <2>2 DEF Stream!ReadPacket
<1> QED
  BY <1>6, <1>8, <1>9, <1>15, <1>16, <1>18, <1>19, <1>20, <1>21, <1>22 DEF Inv

\* A piece of a packet that is read in pieces: some of it, or the rest of it.
LEMMA Processed ==
  ASSUME Typed, ChannelsTyped, SentOK, ChannelOK, AtPart,
         sent[1].kind \in {"data", "chunk"},
         NEW loaded \in Nat, NEW size \in Nat, Process(sent[1].kind, loaded, size),
         sent[1].kind = "data" => size = missing[currentChannel] /\ size > 0,
         UNCHANGED <<setup, currentChannel>>
  PROVE  /\ ChannelsTyped' /\ ChannelOK' /\ ~ rejected'
         /\ \A m \in Messages : got[m] # <<>> => got'[m] # <<>>
         /\ sub'.mode = sent[1].kind /\ sub'.size \in Nat
         /\ sub' \in [mode : {"header", "data", "chunk"}, size : Nat]
         /\ missing' \in [Channels -> Nat]
         /\ available' \in Nat /\ available' <= loaded /\ available' + size = loaded + sub'.size
         /\ loaded > 0 /\ size > 0 => available' < loaded
         /\ \/ /\ sub'.size = 0 /\ sent' = Tail(sent)
               /\ sent[1].kind = "data" => ProcessData(currentChannel, sent[1].of)
               /\ sent[1].kind = "chunk" => ProcessStream(currentChannel, sent[1].of)
            \/ sub'.size > 0 /\ sent' = sent /\ UNCHANGED parserVars
<1> DEFINE p == sent[1]
           c == currentChannel
           n == Piece(loaded, size)
<1>1. sent # <<>> /\ ~ rejected /\ c = p.channel /\ c \in Channels /\ Head(sent) = p
  BY NextPacket DEF AtPart, Typed
<1>2. n \in Nat /\ n <= size /\ n <= loaded /\ (loaded > 0 /\ size > 0 => n > 0)
  BY DEF Piece
<1>3. /\ available' = loaded - n
      /\ sub' = [mode |-> p.kind, size |-> size - n]
      /\ \/ /\ p.kind = "data"
            /\ CASE n > missing[c] -> Reject
                 [] n = missing[c] -> ProcessData(c, p.of)
                 [] OTHER -> UNCHANGED parserVars
            /\ missing' = [missing EXCEPT ![c] = IF rejected' THEN @ ELSE @ - n]
         \/ /\ p.kind = "chunk"
            /\ IF stream[c] # "open" \/ n = size
               THEN ProcessStream(c, p.of)
               ELSE UNCHANGED parserVars
            /\ UNCHANGED missing
      /\ sent' = IF rejected' \/ n < size THEN sent ELSE Tail(sent)
  BY <1>1 DEF Process
<1> HIDE DEF n
<1>4. size - n \in Nat /\ (n < size => size - n > 0) /\ (n = size => size - n = 0)
      /\ sub'.mode = p.kind /\ sub'.size = size - n
      /\ available' \in Nat /\ available' <= loaded /\ available' + size = loaded + (size - n)
      /\ (loaded > 0 /\ size > 0 => available' < loaded)
  <2>1. sub'.mode = p.kind /\ sub'.size = size - n
    BY <1>3
  <2>2. available' = loaded - n
    BY <1>3
  <2> QED
    BY <1>2, <2>1, <2>2
<1>5. sub' \in [mode : {"header", "data", "chunk"}, size : Nat]
  BY <1>3, <1>4
<1>m. missing \in [Channels -> Nat]
  BY DEF Typed
<1>6. CASE p.kind = "data" /\ n = size
  <2>1. ProcessData(c, p.of) /\ missing' = [missing EXCEPT ![c] = IF rejected' THEN @ ELSE @ - n]
    <3>1. ~ (n > missing[c]) /\ n = missing[c]
      BY <1>2, <1>6
    <3>2. (CASE n > missing[c] -> Reject
             [] n = missing[c] -> ProcessData(c, p.of)
             [] OTHER -> UNCHANGED parserVars)
      BY <1>3, <1>6
    <3> QED
      BY <1>3, <1>6, <3>1, <3>2
  <2>2. ~ rejected'
    <3>1. data[c] = "pending"
      BY <1>1, <1>6, ChannelReady
    <3> QED
      BY <1>1, <2>1, <3>1 DEF ProcessData
  <2>3. missing' = [missing EXCEPT ![c] = 0] /\ missing' \in [Channels -> Nat]
    <3>1. missing[c] - n = 0
      BY <1>2, <1>6
    <3>2. missing' = [missing EXCEPT ![c] = 0]
      BY <2>1, <2>2, <3>1
    <3> QED
      BY <1>m, <3>2
  <2>4. sent' = Tail(sent) /\ sub'.size = 0
    BY <1>2, <1>3, <1>4, <1>6, <2>2
  <2>5. ChannelsTyped' /\ ChannelOK' /\ \A m \in Messages : got[m] # <<>> => got'[m] # <<>>
    BY <1>6, <2>1, <2>3, <2>4, DataRead
  <2> QED
    BY <1>4, <1>5, <1>6, <2>1, <2>2, <2>3, <2>4, <2>5
<1>7. CASE p.kind = "data" /\ n < size
  <2>1. UNCHANGED parserVars /\ missing' = [missing EXCEPT ![c] = IF rejected' THEN @ ELSE @ - n]
    <3>1. ~ (n > missing[c]) /\ ~ (n = missing[c])
      BY <1>2, <1>7
    <3>2. (CASE n > missing[c] -> Reject
             [] n = missing[c] -> ProcessData(c, p.of)
             [] OTHER -> UNCHANGED parserVars)
      BY <1>3, <1>7
    <3> QED
      BY <1>3, <1>7, <3>1, <3>2
  <2>2. ~ rejected' /\ got' = got
    BY <1>1, <2>1 DEF parserVars
  <2>3. missing' = [missing EXCEPT ![c] = @ - n] /\ missing' \in [Channels -> Nat]
    <3>1. missing[c] - n \in Nat
      BY <1>4, <1>7
    <3>2. missing' = [missing EXCEPT ![c] = @ - n]
      BY <2>1, <2>2
    <3> QED
      BY <1>m, <3>1, <3>2
  <2>4. sent' = sent /\ sub'.size > 0 /\ sub'.size = size - n /\ sub'.mode = "data"
    BY <1>3, <1>4, <1>7
  <2>5. ChannelsTyped' /\ ChannelOK'
    <3>1. UNCHANGED <<setup, sent, parserVars, currentChannel>>
      BY <2>1, <2>4
    <3> QED
      BY <1>2, <1>7, <2>3, <2>4, <3>1, PieceRead
  <2> QED
    BY <1>4, <1>5, <2>1, <2>2, <2>3, <2>4, <2>5
<1>8. CASE p.kind = "chunk"
  <2>1. stream[c] = "open"
    BY <1>1, <1>8, ChannelReady
  <2>2. missing' = missing /\ IF n = size THEN ProcessStream(c, p.of) ELSE UNCHANGED parserVars
    BY <1>3, <1>8, <2>1
  <2>3. ~ rejected'
    BY <1>1, <2>1, <2>2 DEF ProcessStream, parserVars
  <2>4. CASE n = size
    <3>1. ProcessStream(c, p.of) /\ sent' = Tail(sent) /\ sub'.size = 0
      BY <1>2, <1>3, <1>4, <2>2, <2>3, <2>4
    <3>2. ChannelsTyped' /\ ChannelOK' /\ \A m \in Messages : got[m] # <<>> => got'[m] # <<>>
      BY <1>8, <2>2, <3>1, ChunkRead
    <3> QED
      BY <1>4, <1>5, <1>8, <1>m, <2>2, <2>3, <3>1, <3>2
  <2>5. CASE n # size
    <3>1. UNCHANGED parserVars /\ sent' = sent /\ sub'.size > 0 /\ n < size
      BY <1>2, <1>3, <1>4, <2>2, <2>5
    <3>2. ChannelsTyped' /\ got' = got
      BY <2>2, <3>1 DEF ChannelsTyped, parserVars
    <3>3. ChannelOK'
      <4>1. \A x : (Left(x, sub, currentChannel))' = Left(x, sub, currentChannel)
        BY <1>4, <1>8 DEF Left, AtPart
      <4>2. UNCHANGED <<setup, sent, message, data, stream>>
        BY <3>1 DEF parserVars
      <4> QED
        BY <2>2, <4>1, <4>2, ChannelKept
    <3> QED
      BY <1>4, <1>5, <1>m, <2>2, <2>3, <3>1, <3>2, <3>3
  <2> QED
    BY <2>4, <2>5
<1> QED
  BY <1>2, <1>6, <1>7, <1>8

\* What a step that has processed a piece leaves behind.
LEMMA AfterPiece ==
  ASSUME Inv, AtPart, Typed', ChannelsTyped', ChannelOK', ~ rejected', BytesOK',
         UNCHANGED <<setup, channelsCount, writeChannels, currentChannel, actions, damaged>>,
         writeChannels # 0, sent[1].kind \in {"data", "chunk"}, sent[1].size <= MaxUint24,
         wire' = Units(Tail(sent), currentChannel),
         sub'.mode = sent[1].kind, sub'.size \in Nat,
         \A m \in Messages : got[m] # <<>> => got'[m] # <<>>,
         \/ /\ sub'.size = 0 /\ sent' = Tail(sent)
            /\ sent[1].kind = "data" => ProcessData(currentChannel, sent[1].of)
            /\ sent[1].kind = "chunk" => ProcessStream(currentChannel, sent[1].of)
         \/ sub'.size > 0 /\ sent' = sent /\ UNCHANGED parserVars
  PROVE  Inv' /\ [Stream!ReadPacket]_(Stream!streamVars)
<1> DEFINE p == sent[1]
<1>1. /\ Typed /\ ChannelsTyped /\ SentOK /\ HeldOK /\ DamagedOK /\ NegotiatedOK /\ ~ rejected
      /\ sent # <<>> /\ currentChannel = p.channel
  BY DEF Inv, AtPart
<1>2. p \in AnyPacket /\ PacketOK(p) /\ Head(sent) = p
  BY <1>1, NextPacket
<1>3. NegotiatedOK' /\ RefusedOK'
  BY <1>1 DEF NegotiatedOK, RefusedOK
<1>4. CASE sub'.size > 0 /\ sent' = sent /\ UNCHANGED parserVars
  <2>1. SentOK' /\ Count' = Count
    BY <1>1, <1>4 DEF SentOK, Count
  <2>2. HeldOK' /\ DamagedOK'
    BY <1>1, <2>1, HistoryKept
  <2>3. WireOK'
    BY <1>1, <1>4 DEF WireOK, InPacket
  <2>4. UNCHANGED Stream!streamVars
    BY <1>4 DEF Stream!streamVars, Stream!parserVars, parserVars
  <2> QED
    BY <1>3, <2>1, <2>2, <2>3, <2>4 DEF Inv
<1>5. CASE /\ sub'.size = 0 /\ sent' = Tail(sent)
           /\ p.kind = "data" => ProcessData(currentChannel, p.of)
           /\ p.kind = "chunk" => ProcessStream(currentChannel, p.of)
  <2>1. SentOK' /\ Count' = Count + 1
    BY <1>1, <1>5, SentAfter
  <2>2. HeldOK' /\ DamagedOK'
    BY <1>1, <2>1, HistoryKept
  <2>3. WireOK'
    BY <1>5 DEF WireOK, AtPacket
  <2>4. ~ Stream!Unreadable(p)
    <3>1. channelsCount \in Nat /\ currentChannel < channelsCount
      BY <1>1, SetupFacts DEF Typed
    <3>2. p.kind \in Kinds
      BY DEF Kinds
    <3> QED
      BY <1>1, <1>2, <3>1, <3>2, Readable
  <2>5. Stream!Acts(p)
    BY <1>1, <1>5, SameSteps DEF Stream!Acts
  <2>6. Stream!ReadPacket
    BY <1>1, <1>2, <1>5, <2>4, <2>5 DEF Stream!ReadPacket
  <2> QED
    BY <1>3, <2>1, <2>2, <2>3, <2>6 DEF Inv
<1> QED
  BY <1>4, <1>5

\* The header of data or of a chunk is read with what the buffer has of its bytes.
LEMMA PartStep ==
  ASSUME Inv, ReadPart
  PROVE  Inv' /\ [Stream!ReadPacket]_(Stream!streamVars)
<1> DEFINE fields == Head(wire)
           p == sent[1]
           mode == fields[1].value.type
<1>1. /\ NextIs("data") \/ NextIs("chunk")
      /\ IF fields[2].width = 4
         THEN Read(4) /\ Reject /\ UNCHANGED <<sent, sub, missing>>
         ELSE \E left \in Leftovers(AtOnce(fields)) :
                Take(AtOnce(fields), left) /\ Process(mode, left, fields[2].value)
      /\ wire' = Tail(wire)
      /\ UNCHANGED <<setup, channelsCount, writeChannels, currentChannel, actions, damaged>>
  BY DEF ReadPart, connVars, actionVars
<1>2. /\ Typed /\ ChannelsTyped /\ SentOK /\ ChannelOK /\ HeldOK /\ DamagedOK /\ NegotiatedOK
      /\ ~ rejected /\ sub.size = 0 /\ writeChannels # 0
      /\ available + coming = Bytes(wire) /\ available \in Nat /\ coming \in Nat
      /\ mode \in {"data", "chunk"}
  BY <1>1, Between
<1>3. /\ sent # <<>> /\ p.kind = mode /\ p.channel = currentChannel
      /\ fields = PacketFields(p) /\ wire \in Seq(Unit)
      /\ Tail(wire) = Units(Tail(sent), currentChannel)
      /\ Bytes(wire) = Width(fields) + Bytes(Tail(wire))
      /\ Width(fields) \in Nat /\ Bytes(Tail(wire)) \in Nat
      /\ p \in AnyPacket /\ PacketOK(p) /\ Head(sent) = p /\ AtPart
  <2>1. "data" \in Kinds /\ "chunk" \in Kinds
    BY DEF Kinds
  <2>2. CASE NextIs("data")
    <3>1. mode = "data"
      BY <2>2, Between
    <3> QED
      BY <2>1, <2>2, <3>1, AtSent
  <2>3. CASE NextIs("chunk")
    <3>1. mode = "chunk"
      BY <2>3, Between
    <3> QED
      BY <2>1, <2>3, <3>1, AtSent
  <2> QED
    BY <1>1, <2>2, <2>3
<1>4. /\ p.size \in Nat /\ fields[1].value.type = p.kind /\ fields[2].value = p.size
      /\ (fields[2].width = 4 <=> p.size > MaxUint24)
      /\ AtOnce(fields) \in Nat /\ Width(fields) = AtOnce(fields) + p.size
  <2>1. p.size \in Nat /\ p.kind \in {"data", "chunk"}
    BY <1>2, <1>3, PacketTyped
  <2>2. LET f == PacketFields(p) IN
        /\ f[1].value.type = p.kind /\ f[2].value = p.size
        /\ (f[2].width = 4 <=> p.size > MaxUint24)
        /\ Width(SubSeq(f, 1, 2)) \in Nat
        /\ Width(f) = Width(SubSeq(f, 1, 2)) + p.size
    BY <2>1, PartFields
  <2>3. AtOnce(PacketFields(p)) = Width(SubSeq(PacketFields(p), 1, 2))
    BY <2>1, <2>2 DEF AtOnce
  <2> QED
    BY <1>3, <2>1, <2>2, <2>3
<1>5. MaxUint24 \in Nat
  BY Limits
<1>6. CASE fields[2].width = 4
  <2>1. Read(4) /\ Reject /\ UNCHANGED <<sent, sub, missing>> /\ p.size > MaxUint24
    BY <1>1, <1>4, <1>6
  <2>2. available' \in 0..setup.buffer /\ coming' \in Nat /\ short' \in 0..MaxShort
    BY <1>2, <2>1, ReadTakes
  <2>3. Typed'
    BY <1>1, <1>2, <2>1, <2>2 DEF Typed
  <2>4. ChannelsTyped' /\ SentOK' /\ rejected' /\ HeldOK' /\ DamagedOK' /\ RefusedOK'
    BY <1>1, <1>3, <2>1, Rejected
  <2>5. NegotiatedOK'
    BY <1>1, <1>2 DEF NegotiatedOK
  <2>6. Stream!Unreadable(p)
    BY <2>1, SameSize DEF Stream!Unreadable
  <2>7. Stream!ReadPacket
    BY <1>1, <1>2, <1>3, <2>1, <2>4, <2>6, SameSteps DEF Stream!ReadPacket
  <2> QED
    BY <2>3, <2>4, <2>5, <2>7 DEF Inv
<1>7. CASE fields[2].width # 4
  <2>1. PICK left \in Leftovers(AtOnce(fields)) :
          Take(AtOnce(fields), left) /\ Process(p.kind, left, p.size)
    BY <1>1, <1>4, <1>7
  <2>2. /\ left \in 0..setup.buffer /\ coming' \in Nat /\ short' \in 0..MaxShort
        /\ left + coming' = available + coming - AtOnce(fields)
    BY <1>2, <1>4, <2>1, TakeTakes
  <2>3. left \in Nat /\ left <= setup.buffer /\ setup.buffer \in Nat
    BY <1>2, <2>2, SetupFacts
  <2>4. p.kind = "data" => p.size = missing[currentChannel] /\ p.size > 0
    BY <1>2, <1>3, ChannelReady DEF PacketOK
  <2>5. /\ ChannelsTyped' /\ ChannelOK' /\ ~ rejected'
        /\ \A m \in Messages : got[m] # <<>> => got'[m] # <<>>
        /\ sub'.mode = p.kind /\ sub'.size \in Nat
        /\ sub' \in [mode : {"header", "data", "chunk"}, size : Nat]
        /\ missing' \in [Channels -> Nat]
        /\ available' \in Nat /\ available' <= left /\ available' + p.size = left + sub'.size
        /\ \/ /\ sub'.size = 0 /\ sent' = Tail(sent)
              /\ p.kind = "data" => ProcessData(currentChannel, p.of)
              /\ p.kind = "chunk" => ProcessStream(currentChannel, p.of)
           \/ sub'.size > 0 /\ sent' = sent /\ UNCHANGED parserVars
    BY <1>1, <1>2, <1>3, <1>4, <2>1, <2>3, <2>4, Processed
  <2>6. Typed'
    <3>1. available' \in 0..setup.buffer
      BY <2>3, <2>5
    <3> QED
      BY <1>1, <1>2, <2>2, <2>5, <3>1 DEF Typed
  <2>7. BytesOK'
    <3> DEFINE a == AtOnce(fields)
               b == Bytes(Tail(wire))
               size == p.size
    <3>1. /\ a \in Nat /\ b \in Nat /\ size \in Nat /\ available + coming = (a + size) + b
          /\ left + coming' = available + coming - a /\ coming' \in Nat
          /\ available' + size = left + sub'.size /\ sub'.size \in Nat /\ available' \in Nat
      BY <1>2, <1>3, <1>4, <2>2, <2>5
    <3>0. available \in Nat /\ coming \in Nat /\ left \in Nat
      BY <1>2, <2>3
    <3> DEFINE a0 == available
               c0 == coming
               a1 == available'
               c1 == coming'
               s1 == sub'.size
    <3>4. /\ a \in Int /\ b \in Int /\ size \in Int /\ left \in Int
          /\ a0 \in Int /\ c0 \in Int /\ a1 \in Int /\ c1 \in Int /\ s1 \in Int
          /\ a0 + c0 = (a + size) + b /\ left + c1 = a0 + c0 - a /\ a1 + size = left + s1
      BY <3>0, <3>1
    <3> HIDE DEF a, b, size, a0, c0, a1, c1, s1
    <3>5. a1 + c1 = s1 + b
      BY ONLY <3>4
    <3>2. available' + coming' = sub'.size + b
      BY <3>5 DEF a1, c1, s1
    <3> QED
      BY <1>1, <3>2 DEF BytesOK, b
  <2>8. p.size <= MaxUint24
    BY <1>4, <1>5, <1>7
  <2> QED
    BY <1>1, <1>2, <1>3, <2>5, <2>6, <2>7, <2>8, AfterPiece
<1> QED
  BY <1>6, <1>7

\* Another piece of data or of a chunk is read; the last one makes the packet read.
LEMMA PieceStep ==
  ASSUME Inv, ReadPiece
  PROVE  Inv' /\ [Stream!ReadPacket]_(Stream!streamVars)
<1> DEFINE p == sent[1]
<1>1. /\ ~ rejected /\ sub.size > 0
      /\ \E left \in Leftovers(1) : Take(1, left) /\ Process(sub.mode, left + 1, sub.size)
      /\ UNCHANGED <<setup, channelsCount, writeChannels, wire, currentChannel, actions, damaged>>
  BY DEF ReadPiece, Running, connVars, actionVars
<1>2. /\ Typed /\ ChannelsTyped /\ SentOK /\ ChannelOK /\ InPacket /\ BytesOK
  BY <1>1 DEF Inv, WireOK, AtHeader, AtPacket
<1>3. /\ sent # <<>> /\ sub.mode = p.kind /\ currentChannel = p.channel
      /\ p.kind \in {"data", "chunk"} /\ p.size <= MaxUint24
      /\ wire = Units(Tail(sent), currentChannel) /\ writeChannels # 0
      /\ sub.size \in Nat
  BY <1>2 DEF InPacket, Typed
<1>4. AtPart
  BY <1>1, <1>3 DEF AtPart
<1>5. PICK left \in Leftovers(1) : Take(1, left) /\ Process(p.kind, left + 1, sub.size)
  BY <1>1, <1>3
<1>6. /\ left \in 0..setup.buffer /\ coming' \in Nat /\ short' \in 0..MaxShort
      /\ left + coming' = available + coming - 1
  BY <1>2, <1>5, TakeTakes
<1>7. left \in Nat /\ left <= setup.buffer /\ setup.buffer \in Nat /\ left + 1 \in Nat /\ left + 1 > 0
      /\ available \in Nat /\ coming \in Nat
  <2>1. available \in 0..setup.buffer /\ coming \in Nat /\ setup.buffer \in Nat
    BY <1>2, SetupFacts DEF Typed
  <2>2. left \in 0..setup.buffer
    BY <1>6
  <2> QED
    BY ONLY <2>1, <2>2
<1>8. p.kind = "data" => sub.size = missing[currentChannel] /\ sub.size > 0
  BY <1>1, <1>2, <1>3, ChannelReady
<1>9. /\ ChannelsTyped' /\ ChannelOK' /\ ~ rejected'
      /\ \A m \in Messages : got[m] # <<>> => got'[m] # <<>>
      /\ sub'.mode = p.kind /\ sub'.size \in Nat
      /\ sub' \in [mode : {"header", "data", "chunk"}, size : Nat]
      /\ missing' \in [Channels -> Nat]
      /\ available' \in Nat /\ available' + sub.size = (left + 1) + sub'.size
      /\ left + 1 > 0 /\ sub.size > 0 => available' < left + 1
      /\ \/ /\ sub'.size = 0 /\ sent' = Tail(sent)
            /\ p.kind = "data" => ProcessData(currentChannel, p.of)
            /\ p.kind = "chunk" => ProcessStream(currentChannel, p.of)
         \/ sub'.size > 0 /\ sent' = sent /\ UNCHANGED parserVars
  BY <1>1, <1>2, <1>3, <1>4, <1>5, <1>7, <1>8, Processed
<1>10. Typed'
  <2>1. available' \in 0..setup.buffer
    BY <1>1, <1>7, <1>9
  <2> QED
    BY <1>1, <1>2, <1>6, <1>9, <2>1 DEF Typed
<1>11. BytesOK'
  <2> DEFINE b == Bytes(wire)
             size == sub.size
  <2>1. sent \in Seq(AnyPacket) /\ Tail(sent) \in Seq(AnyPacket)
        /\ \A i \in 1..Len(Tail(sent)) : PacketOK(Tail(sent)[i])
    BY <1>2, <1>3, NextPacket
  <2>2. wire \in Seq(Unit)
    BY <1>3, <2>1, UnitsTyped
  <2>3. b \in Nat /\ size \in Nat /\ available + coming = size + b
    BY <1>2, <1>3, <2>2, UnitsAreUnits, BytesNat DEF BytesOK
  <2>4. available' + size = (left + 1) + sub'.size /\ sub'.size \in Nat /\ available' \in Nat
        /\ left + coming' = available + coming - 1 /\ coming' \in Nat
    BY <1>6, <1>9
  <2> DEFINE a0 == available
             c0 == coming
             a1 == available'
             c1 == coming'
             s1 == sub'.size
  <2>6. /\ b \in Int /\ size \in Int /\ left \in Int
        /\ a0 \in Int /\ c0 \in Int /\ a1 \in Int /\ c1 \in Int /\ s1 \in Int
        /\ a0 + c0 = size + b /\ left + c1 = a0 + c0 - 1 /\ a1 + size = (left + 1) + s1
    <3>1. b \in Int /\ size \in Int /\ a0 + c0 = size + b
      BY <2>3
    <3>2. left \in Int /\ a0 \in Int /\ c0 \in Int
      BY <1>7
    <3>3. a1 \in Int /\ c1 \in Int /\ s1 \in Int
      BY <2>4
    <3>4. left + c1 = a0 + c0 - 1
      BY <2>4
    <3>5. a1 + size = (left + 1) + s1
      BY <2>4
    <3> QED
      BY <3>1, <3>2, <3>3, <3>4, <3>5
  <2> HIDE DEF b, size, a0, c0, a1, c1, s1
  <2>7. a1 + c1 = s1 + b
    BY ONLY <2>6
  <2>5. available' + coming' = sub'.size + b
    BY <2>7 DEF a1, c1, s1
  <2> QED
    BY <1>1, <2>5 DEF BytesOK, b
<1> QED
  BY <1>1, <1>3, <1>4, <1>9, <1>10, <1>11, AfterPiece

\* An end of the connection changes nothing else.
LEMMA Unmoved ==
  ASSUME Inv, UNCHANGED <<parserVars, sent, connVars, wire, readerVars, currentChannel, sub,
                          missing, actionVars>>
  PROVE  Inv' /\ UNCHANGED Stream!streamVars
<1> USE DEF parserVars, connVars, readerVars, actionVars
<1>1. Count' = Count
  BY DEF Count
<1>2. Typed' /\ ChannelsTyped' /\ SentOK'
  BY <1>1 DEF Inv, Typed, ChannelsTyped, SentOK
<1>3. WireOK <=> WireOK'
  BY DEF WireOK, AtHeader, AtPacket, InPacket
<1>4. (BytesOK <=> BytesOK') /\ (ChannelOK <=> ChannelOK')
  BY <1>1 DEF BytesOK, ChannelOK, Left
<1>5. HeldOK' /\ DamagedOK' /\ RefusedOK' /\ NegotiatedOK'
  BY <1>1 DEF Inv, HeldOK, DamagedOK, RefusedOK, NegotiatedOK
<1>6. UNCHANGED Stream!streamVars
  BY DEF Stream!streamVars, Stream!parserVars
<1> QED
  BY <1>2, <1>3, <1>4, <1>5, <1>6 DEF Inv

\* Every step keeps the invariant and is a step of PacketStream or of nothing in it.
LEMMA NextInv ==
  ASSUME Inv, [Next]_vars
  PROVE  Inv' /\ [Stream!ReadPacket]_(Stream!streamVars)
<1>1. CASE ReadProtocolHeader
  BY <1>1, HeaderStep
<1>2. CASE SwitchChannel
  BY <1>2, SwitchStep
<1>3. CASE ReadMessage
  BY <1>3, MessageStep
<1>4. CASE ReadStreamEnd
  BY <1>4, EndStep
<1>5. CASE ReadFastReply
  BY <1>5, FastReplyStep
<1>6. CASE ReadPart
  BY <1>6, PartStep
<1>7. CASE ReadPiece
  BY <1>7, PieceStep
<1>8. CASE LoadFails
  BY <1>8, Unmoved DEF LoadFails
<1>9. CASE Stopped \/ UNCHANGED vars
  BY <1>9, Unmoved DEF Stopped, vars
<1> QED
  BY <1>1, <1>2, <1>3, <1>4, <1>5, <1>6, <1>7, <1>8, <1>9 DEF Next

-----------------------------------------------------------------------------
(* Theorems.                                                               *)

\* The invariant holds of every behaviour.
THEOREM ParserInvariant == Spec => []Inv
<1>1. Inv /\ [Next]_vars => Inv'
  BY NextInv
<1> QED
  BY InitInv, <1>1, PTL DEF Spec

\* Type correctness; the bytes in the buffer and the ones to come are always
\* those of the units and of the packet that are not read yet.
THEOREM ParserTypeCorrect == Spec => []TypeOK
<1>1. Inv => TypeOK
  <2> SUFFICES ASSUME Inv PROVE TypeOK
    OBVIOUS
  <2>1. /\ setup \in Setups
        /\ channelsCount = setup.channels
        /\ writeChannels \in 0..MaxChannels
        /\ currentChannel \in Channels
        /\ available \in 0..setup.buffer
        /\ short \in 0..MaxShort
        /\ sub.mode \in {"header", "data", "chunk"}
        /\ damaged \subseteq Messages
    BY DEF Inv, Typed
  <2>2. \A c \in Channels : data[c] = "none" <=> missing[c] = 0
    BY DEF Inv, ChannelsTyped
  <2>3. Running => available + coming = sub.size + Bytes(wire)
    BY DEF Inv, BytesOK, Running
  <2> QED
    BY <2>1, <2>2, <2>3 DEF TypeOK
<1> QED
  BY ParserInvariant, <1>1, PTL

\* An action that the application was given stays as it was sent until another
\* message comes on the same channel.
THEOREM ActionKept == Spec => []ActionKeptUntilReuse
<1>1. Inv => ActionKeptUntilReuse
  <2> SUFFICES ASSUME Inv, NEW m \in damaged
               PROVE  \E i, j \in DOMAIN setup.packets :
                        LET p == setup.packets[i]
                            q == setup.packets[j]
                        IN  /\ p.kind = "message" /\ p.of = m
                            /\ q.kind = "message" /\ q.channel = p.channel
                            /\ i < j /\ got[q.of] # <<>>
    BY DEF ActionKeptUntilReuse
  <2>1. 1..Count \subseteq DOMAIN setup.packets
    <3>1. Len(sent) \in Nat /\ Count \in Nat
      BY DEF Inv, SentOK
    <3> QED
      BY <3>1, SetupFacts DEF Inv, Count
  <2> QED
    BY <2>1 DEF Inv, DamagedOK
<1> QED
  BY ParserInvariant, <1>1, PTL

\* The writer NewConn makes uses no channel that the peer did not announce,
\* unless the peer announces 256, which arrives as 0.
THEOREM WriterStaysWithinPeer ==
  ASSUME \A s \in Setups : s.peerChannels # 256
  PROVE  Spec => []WriterWithinPeer
<1>1. Inv => WriterWithinPeer
  <2> SUFFICES ASSUME Inv PROVE WriterWithinPeer
    OBVIOUS
  <2>1. /\ setup.write \in 1..MaxChannels /\ setup.peerChannels \in 1..MaxChannels
        /\ setup.peerChannels # 256
    BY SetupFacts DEF Inv, Typed
  <2>2. WriteChannels(setup.write, setup.peerChannels) <= setup.peerChannels
    BY <2>1, Announced
  <2>3. setup.peerChannels \in Nat
    BY <2>1
  <2> QED
    BY <2>2, <2>3 DEF Inv, NegotiatedOK, WriterWithinPeer
<1> QED
  BY ParserInvariant, <1>1, PTL

\* A peer that runs this library is only refused what no parser of it can read,
\* unless this side announces 256 channels, which arrives as 0.
THEOREM OnlyUnreadableRefused ==
  ASSUME \A s \in Setups : s.channels # 256
  PROVE  Spec => []RefusesOnlyUnreadable
<1>1. Inv => RefusesOnlyUnreadable
  <2> SUFFICES ASSUME Inv, rejected
               PROVE  Head(sent).kind = "fastReply" \/ Head(sent).size > MaxUint24
    BY DEF RefusesOnlyUnreadable
  <2>1. Typed /\ SentOK /\ sent # <<>>
    BY DEF Inv, RefusedOK
  <2>2. Head(sent) = sent[1] /\ sent[1] \in AnyPacket
        /\ sent[1].channel < WriteChannels(setup.peerWrite, setup.channels)
    BY <2>1, NextPacket
  <2>3. sent[1].channel < channelsCount
    <3>1. /\ setup.peerWrite \in 1..MaxChannels /\ setup.channels \in 1..MaxChannels
          /\ setup.channels # 256 /\ channelsCount = setup.channels
      BY <2>1, SetupFacts DEF Typed
    <3>2. /\ WriteChannels(setup.peerWrite, setup.channels) \in 1..MaxChannels
          /\ WriteChannels(setup.peerWrite, setup.channels) <= setup.channels
      <4>1. setup.peerWrite \in 1..MaxChannels /\ setup.channels \in 1..MaxChannels /\ setup.channels # 256
        BY <3>1
      <4>2. \A option, n \in 1..MaxChannels :
              n # 256 => /\ WriteChannels(option, n) \in 1..MaxChannels
                         /\ WriteChannels(option, n) <= n
        BY ONLY Announced
      <4> QED
        BY ONLY <4>1, <4>2
    <3>3. sent[1].channel \in Nat
      BY <2>2, PacketTyped
    <3> QED
      BY <2>2, <3>1, <3>2, <3>3, SomeChannels
  <2>4. sent[1].channel \in Nat /\ channelsCount \in Nat
    <3>1. sent[1].channel \in Nat
      BY <2>2, PacketTyped
    <3>2. channelsCount \in Nat
      BY <2>1, SetupFacts, SomeChannels DEF Typed
    <3> QED
      BY <3>1, <3>2
  <2>5. ~ (sent[1].channel >= channelsCount)
    BY <2>3, <2>4
  <2> QED
    BY <2>2, <2>5 DEF Inv, RefusedOK
<1> QED
  BY ParserInvariant, <1>1, PTL

\* Wherever loads end and whatever the sizes, the reader sees the packets that were
\* sent, one after the other and on their channels.
THEOREM ParserImplementsPacketStream == Spec => ImplementsPacketStream
<1>1. Init => Stream!ParserInit
  BY DEF Init, ParserInit, Stream!ParserInit
<1>2. Inv /\ [Next]_vars => [Stream!ReadPacket]_(Stream!streamVars)
  BY NextInv
<1> QED
  BY ParserInvariant, <1>1, <1>2, PTL DEF Spec, ImplementsPacketStream, Stream!Spec
=============================================================================
