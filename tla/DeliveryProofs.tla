----------------------------- MODULE DeliveryProofs -----------------------------
(***************************************************************************)
(* What holds of the way from the wire to the application for every number *)
(* of channels, messages, packets on the way and handlers.                 *)
(*                                                                         *)
(* DeliveryInv is inductive.  Its heart is Left: which parts of a message  *)
(* are still to be read.  WireInv orders the packets on the way, UsingInv  *)
(* relates them to what the peer goes on with and ChannelInv to what each  *)
(* channel of the reader awaits; KnownInv says that the application knows  *)
(* no message whose header was not read.                                   *)
(***************************************************************************)
EXTENDS Delivery, FiniteSetTheorems, TLAPS

Kinds == {"message", "data", "end"}
Packet == [kind : Kinds, channel : Channels, of : Messages, size : {1}, data : Nat, stream : BOOLEAN]

\* What remains of the types.
MoreTypes ==
  /\ sent \in Seq(Packet)
  /\ queue \in Seq(Messages)
  /\ data \in [Channels -> {"none", "pending"}]
  /\ stream \in [Channels -> {"none", "open", "done"}]
  /\ channelsCount \in Nat /\ buffered \in Nat

OnTheWay == 1..Len(sent)

\* This part of m is still to be read.
Left(m, kind) ==
  kind \in toSend[m] \/ \E i \in OnTheWay : sent[i].of = m /\ sent[i].kind = kind

WireInv ==
  /\ \A i \in OnTheWay :
       /\ sent[i].kind \notin toSend[sent[i].of] /\ "message" \notin toSend[sent[i].of]
       /\ sent[i].channel < channelsCount
       /\ sent[i].kind = "message" => /\ sent[i].data > 0 <=> Left(sent[i].of, "data")
                                      /\ sent[i].stream <=> Left(sent[i].of, "end")
       /\ sent[i].kind # "message" =>
            \/ message[sent[i].channel] = sent[i].of
            \/ \E j \in OnTheWay : j < i /\ sent[j].of = sent[i].of /\ sent[j].kind = "message"
  /\ \A i, j \in OnTheWay : i < j /\ sent[i].of = sent[j].of =>
       /\ sent[i].kind # sent[j].kind /\ sent[j].kind # "message"
       /\ sent[i].channel = sent[j].channel
  /\ \A i, j \in OnTheWay : i < j /\ sent[i].channel = sent[j].channel /\ sent[i].of # sent[j].of =>
       /\ toSend[sent[i].of] = {}
       /\ \A k \in OnTheWay : k > j => sent[k].of # sent[i].of

UsingInv ==
  /\ \A c \in Channels : using[c] # NoMessage =>
       /\ toSend[using[c]] # {} /\ "message" \notin toSend[using[c]]
       /\ \A d \in Channels : using[d] = using[c] => d = c
  /\ \A i \in OnTheWay : toSend[sent[i].of] # {} => using[sent[i].channel] = sent[i].of
  /\ \A c \in Channels :
       message[c] # NoMessage /\ toSend[message[c]] # {} => using[c] = message[c]

ChannelInv ==
  \A c \in Channels :
    /\ message[c] = NoMessage => data[c] = "none" /\ stream[c] = "none"
    /\ message[c] # NoMessage =>
         /\ data[c] = "pending" <=> Left(message[c], "data")
         /\ stream[c] = "open" <=> Left(message[c], "end")
         /\ data[c] = "pending" \/ stream[c] = "open"
         /\ ~ Left(message[c], "message")
         /\ \A d \in Channels : message[d] = message[c] => d = c
         /\ \A i \in OnTheWay : sent[i].of = message[c] => sent[i].channel = c
         /\ \A i \in OnTheWay : sent[i].channel = c /\ sent[i].of # message[c] =>
              /\ toSend[message[c]] = {}
              /\ \A k \in OnTheWay : k > i => sent[k].of # message[c]

\* What was begun to be read and is not complete is on a channel.
OpenInv ==
  \A m \in Messages :
    ~ Left(m, "message") /\ (Left(m, "data") \/ Left(m, "end")) => Open(m)

\* Messages the application has heard of.
Known == {item} \cup {queue[i] : i \in 1..Len(queue)} \cup {holds[h] : h \in pool} \cup handled

KnownInv ==
  /\ \A m \in Messages \cap Known : ~ Left(m, "message")
  /\ \A m \in handled : \A kind \in Kinds : ~ Left(m, kind)

DeliveryInv == TypeOK /\ MoreTypes /\ WireInv /\ UsingInv /\ ChannelInv /\ OpenInv /\ KnownInv

-----------------------------------------------------------------------------
(* What the steps change.                                                  *)

\* A part of m goes onto the wire on channel c.
SendMoves(c, m, kind) ==
  LET new == Len(sent) + 1 IN
  /\ Len(sent') = new
  /\ \A i \in OnTheWay : sent'[i] = sent[i]
  /\ sent'[new].kind = kind /\ sent'[new].channel = c /\ sent'[new].of = m
  /\ sent'[new].data > 0 <=> "data" \in toSend[m]
  /\ sent'[new].stream <=> "end" \in toSend[m]
  /\ toSend'[m] = toSend[m] \ {kind} /\ kind \in toSend[m]
  /\ \A x \in Messages \ {m} : toSend'[x] = toSend[x]
  /\ using'[c] = IF toSend[m] = {kind} THEN NoMessage ELSE m
  /\ \A d \in Channels \ {c} : using'[d] = using[d]
  /\ c < channelsCount
  /\ using[c] = IF "message" \in toSend[m] THEN NoMessage ELSE m
  /\ kind = "message" \/ "message" \notin toSend[m]
  /\ \A d \in Channels : using[d] = m => d = c
  /\ \A i \in OnTheWay :
       sent[i].of = m => sent[i].channel = c /\ sent[i].kind # kind /\ kind # "message"
  /\ \A x \in Messages, k \in Kinds : Left(x, k)' <=> Left(x, k)
  /\ UNCHANGED <<message, data, stream, channelsCount>>

\* The first packet on the way is read, by the channel it was sent on.
ReadMoves(c, m, kind) ==
  /\ 1 \in OnTheWay
  /\ sent[1].channel = c /\ sent[1].of = m /\ sent[1].kind = kind
  /\ OnTheWay' = 1..(Len(sent) - 1)
  /\ \A i \in OnTheWay' : i + 1 \in OnTheWay /\ sent'[i] = sent[i + 1]
  /\ \A x \in Messages, k \in Kinds : Left(x, k)' <=> Left(x, k) /\ ~ (x = m /\ k = kind)
  /\ message[c] = IF kind = "message" THEN NoMessage ELSE m
  /\ \A d \in Channels \ {c} :
       message'[d] = message[d] /\ data'[d] = data[d] /\ stream'[d] = stream[d]
  /\ data'[c] = "pending" <=> Left(m, "data")'
  /\ stream'[c] = "open" <=> Left(m, "end")'
  /\ IF Left(m, "data")' \/ Left(m, "end")'
     THEN message'[c] = m
     ELSE message'[c] = NoMessage /\ data'[c] = "none" /\ stream'[c] = "none"
  /\ item' \in {item, NoMessage} \/ (item' = m /\ kind = "message")
  /\ UNCHANGED <<toSend, using, channelsCount>>

LEMMA Parts ==
  ASSUME TypeOK, MoreTypes
  PROVE  /\ toSend \in [Messages -> SUBSET Kinds]
         /\ \A i \in OnTheWay : sent[i] \in Packet /\ sent[i].of \in Messages
                                /\ sent[i].of # NoMessage
                                /\ sent[i].kind \in Kinds /\ sent[i].channel \in Channels
         /\ Len(sent) \in Nat
<1>1. \A i \in OnTheWay : sent[i] \in Packet
  BY DEF MoreTypes, OnTheWay
<1>2. \A w \in Wholes \cup SUBSET {"data", "end"} : w \subseteq Kinds
  BY DEF Wholes, Kinds
<1>3. toSend \in [Messages -> SUBSET Kinds]
  BY <1>2 DEF TypeOK
<1>4. Len(sent) \in Nat
  BY DEF MoreTypes
<1> QED
  BY <1>1, <1>3, <1>4, DeliveryAssumption DEF Packet

LEMMA SizeOfOne ==
  ASSUME NEW S
  PROVE  Cardinality(S \cap {"data"}) \in Nat /\ (Cardinality(S \cap {"data"}) > 0 <=> "data" \in S)
<1>1. CASE "data" \in S
  <2>1. S \cap {"data"} = {"data"}
    BY <1>1
  <2>2. Cardinality({"data"}) = 1
    BY FS_Singleton
  <2> QED
    BY <1>1, <2>1, <2>2
<1>2. CASE "data" \notin S
  <2>1. S \cap {"data"} = {}
    BY <1>2
  <2>2. Cardinality({}) = 0
    BY FS_EmptySet
  <2> QED
    BY <1>2, <2>1, <2>2
<1> QED
  BY <1>1, <1>2

LEMMA Sending ==
  ASSUME TypeOK, MoreTypes, WireInv, UsingInv, NEW c \in Channels, NEW m \in Messages,
         NEW kind \in toSend[m], PeerSends(c, m, kind)
  PROVE  SendMoves(c, m, kind)
<1> DEFINE new == Len(sent) + 1
           q == [kind |-> kind, channel |-> c, of |-> m, size |-> 1,
                 data |-> Cardinality(toSend[m] \cap {"data"}), stream |-> "end" \in toSend[m]]
<1>1. sent' = Append(sent, q) /\ sent \in Seq(Packet)
  BY DEF PeerSends, MoreTypes
<1>2. /\ Len(sent') = new
      /\ \A i \in OnTheWay : sent'[i] = sent[i]
      /\ sent'[new] = q
      /\ OnTheWay' = OnTheWay \cup {new}
  <2> HIDE DEF q
  <2>1. Len(sent') = new /\ Len(sent) \in Nat
    BY <1>1
  <2>2. sent'[new] = q /\ \A i \in OnTheWay : sent'[i] = sent[i]
    BY <1>1 DEF OnTheWay
  <2>3. 1..(Len(sent) + 1) = 1..Len(sent) \cup {Len(sent) + 1}
    BY <2>1
  <2> QED
    BY <2>1, <2>2, <2>3 DEF OnTheWay
<1>3. /\ toSend \in [Messages -> SUBSET Kinds] /\ kind \in Kinds
      /\ \A i \in OnTheWay : sent[i].of # NoMessage /\ sent[i].channel \in Channels
  BY Parts
<1>4. /\ toSend'[m] = toSend[m] \ {kind}
      /\ \A x \in Messages \ {m} : toSend'[x] = toSend[x]
  BY <1>3 DEF PeerSends
<1>5. /\ using'[c] = IF toSend[m] = {kind} THEN NoMessage ELSE m
      /\ \A d \in Channels \ {c} : using'[d] = using[d]
  <2>1. toSend'[m] = {} <=> toSend[m] = {kind}
    BY <1>4
  <2> QED
    BY <2>1 DEF PeerSends, TypeOK
<1>6. /\ c < channelsCount
      /\ using[c] = IF "message" \in toSend[m] THEN NoMessage ELSE m
      /\ kind = "message" \/ "message" \notin toSend[m]
  BY DEF PeerSends
<1>7. \A d \in Channels : using[d] = m => d = c
  <2> SUFFICES ASSUME NEW d \in Channels, using[d] = m PROVE d = c
    OBVIOUS
  <2>1. "message" \notin toSend[m]
    BY DeliveryAssumption DEF UsingInv
  <2> QED
    BY <2>1, <1>6, DeliveryAssumption DEF UsingInv
<1>8. \A i \in OnTheWay :
        sent[i].of = m => sent[i].channel = c /\ sent[i].kind # kind /\ kind # "message"
  <2> SUFFICES ASSUME NEW i \in OnTheWay, sent[i].of = m
               PROVE  sent[i].channel = c /\ sent[i].kind # kind /\ kind # "message"
    OBVIOUS
  <2>1. sent[i].kind \notin toSend[m] /\ "message" \notin toSend[m]
    BY DEF WireInv
  <2>2. using[sent[i].channel] = m
    BY DEF UsingInv
  <2> QED
    BY <2>1, <2>2, <1>3, <1>7
<1>9. \A x \in Messages, k \in Kinds : Left(x, k)' <=> Left(x, k)
  <2> SUFFICES ASSUME NEW x \in Messages, NEW k \in Kinds PROVE Left(x, k)' <=> Left(x, k)
    OBVIOUS
  <2>1. (\E i \in OnTheWay' : sent'[i].of = x /\ sent'[i].kind = k)
          <=> \/ \E i \in OnTheWay : sent[i].of = x /\ sent[i].kind = k
              \/ x = m /\ k = kind
    <3>1. q.of = m /\ q.kind = kind
      OBVIOUS
    <3> HIDE DEF q, new
    <3> QED
      BY <3>1, <1>2
  <2>2. k \in toSend'[x] \/ (x = m /\ k = kind) <=> k \in toSend[x]
    BY <1>3, <1>4
  <2> QED
    BY <2>1, <2>2 DEF Left
<1>10. sent'[new].data > 0 <=> "data" \in toSend[m]
  <2>1. sent'[new].data = Cardinality(toSend[m] \cap {"data"})
    BY <1>2
  <2> QED
    BY <2>1, SizeOfOne
<1>11. /\ sent'[new].kind = kind /\ sent'[new].channel = c /\ sent'[new].of = m
       /\ sent'[new].stream <=> "end" \in toSend[m]
  <2>1. q.kind = kind /\ q.channel = c /\ q.of = m /\ (q.stream <=> "end" \in toSend[m])
    OBVIOUS
  <2> HIDE DEF q, new
  <2> QED
    BY <1>2, <2>1
<1>12. UNCHANGED <<message, data, stream, channelsCount>>
  BY DEF PeerSends, parserVars
<1> HIDE DEF q
<1> QED
  BY <1>2, <1>4, <1>5, <1>6, <1>7, <1>8, <1>9, <1>10, <1>11, <1>12 DEF SendMoves

-----------------------------------------------------------------------------
(* Reading: no packet of the peer is refused.                              *)

LEMMA Readable ==
  ASSUME TypeOK, MoreTypes, WireInv, ChannelInv, 1 \in OnTheWay
  PROVE  LET p == sent[1]
             c == p.channel
         IN  /\ ~ Unreadable(p)
             /\ p.kind \in {"message", "data", "end"} /\ c \in Channels
             /\ message[c] = IF p.kind = "message" THEN NoMessage ELSE p.of
             /\ p.of \in Messages /\ p.of # NoMessage
             /\ p.kind = "data" => data[c] = "pending"
             /\ p.kind = "end" => stream[c] = "open"
<1> DEFINE p == sent[1]
           c == p.channel
<1>1. /\ p \in Packet /\ p.of \in Messages /\ p.of # NoMessage /\ c \in Channels
      /\ p.kind \in Kinds
  BY Parts
<1>2. c < channelsCount
  BY DEF WireInv
<1>3. p.size = 1 /\ c \in Nat /\ channelsCount \in Nat
  BY <1>1, DeliveryAssumption DEF Packet, MoreTypes
<1>4. ~ Unreadable(p)
  <2>1. ~ (1 > MaxPacketSize)
    BY DEF MaxPacketSize
  <2>2. ~ (c >= channelsCount)
    BY <1>2, <1>3
  <2>3. p.kind # "fastReply"
    BY <1>1 DEF Kinds
  <2> HIDE DEF p
  <2> QED
    BY <1>3, <2>1, <2>2, <2>3 DEF Unreadable
<1>5. Left(p.of, p.kind)
  BY DEF Left
<1>6. CASE p.kind # "message"
  <2>1. message[c] = p.of
    <3>1. \A j \in OnTheWay : ~ (j < 1)
      BY DEF OnTheWay
    <3> QED
      BY <1>6, <3>1 DEF WireInv
  <2>2. p.kind = "data" => data[c] = "pending"
    BY <2>1, <1>1, <1>5 DEF ChannelInv
  <2>3. p.kind = "end" => stream[c] = "open"
    BY <2>1, <1>1, <1>5 DEF ChannelInv
  <2> QED
    BY <1>1, <1>4, <1>6, <2>1, <2>2, <2>3 DEF Kinds
<1>7. CASE p.kind = "message"
  <2>1. ASSUME message[c] # NoMessage
        PROVE  FALSE
    <3>1. p.of # message[c]
      BY <1>1, <1>5, <1>7, <2>1 DEF ChannelInv
    <3>2. toSend[message[c]] = {} /\ \A k \in OnTheWay : k > 1 => sent[k].of # message[c]
      BY <1>1, <2>1, <3>1 DEF ChannelInv
    <3>3. \A k \in OnTheWay : k = 1 \/ k > 1
      BY DEF OnTheWay
    <3>4. ~ Left(message[c], "data") /\ ~ Left(message[c], "end")
      BY <3>1, <3>2, <3>3 DEF Left
    <3> QED
      BY <1>1, <2>1, <3>4 DEF ChannelInv
  <2> QED
    BY <1>1, <1>4, <1>7, <2>1
<1> QED
  BY <1>6, <1>7

LEMMA Reading ==
  ASSUME TypeOK, MoreTypes, WireInv, ChannelInv, HandleReads
  PROVE  /\ \E c \in Channels, m \in Messages, kind \in Kinds : ReadMoves(c, m, kind)
         /\ ~ rejected'
         /\ message' \in [Channels -> Messages \cup {NoMessage}]
         /\ data' \in [Channels -> {"none", "pending"}]
         /\ stream' \in [Channels -> {"none", "open", "done"}]
         /\ sent' \in Seq(Packet) /\ Len(sent') <= MaxSent
<1>p. PICK p : p = sent[1]
  OBVIOUS
<1> DEFINE c == p.channel
           m == p.of
<1>1. sent # <<>> /\ p = Head(sent) /\ sent \in Seq(Packet)
  BY <1>p DEF HandleReads, ReadPacket, MoreTypes
<1>2. 1 \in OnTheWay /\ Len(sent) \in Nat
  BY <1>1 DEF OnTheWay
<1>3. /\ ~ Unreadable(p)
      /\ p.kind \in {"message", "data", "end"} /\ c \in Channels
      /\ message[c] = IF p.kind = "message" THEN NoMessage ELSE m
      /\ m \in Messages /\ m # NoMessage
      /\ p.kind = "data" => data[c] = "pending"
      /\ p.kind = "end" => stream[c] = "open"
  BY <1>p, <1>2, Readable
<1>4. Acts(p)
  BY <1>1, <1>3 DEF HandleReads, ReadPacket
<1> DEFINE Outcome(d, s) ==
             /\ maybeEnd(c, m, d, s)
             /\ d \in {"none", "pending"} /\ s \in {"none", "open", "done"}
             /\ d = "pending" <=> (IF p.kind = "message" THEN p.data > 0
                                   ELSE p.kind # "data" /\ data[c] = "pending")
             /\ s = "open" <=> (IF p.kind = "message" THEN p.stream
                                ELSE p.kind # "end" /\ stream[c] = "open")
<1>5. \E d, s : Outcome(d, s)
  <2>1. CASE p.kind = "message"
    <3>1. InitMessage(c, m, p.data > 0, p.stream)
      BY <1>4, <2>1 DEF Acts
    <3>2. maybeEnd(c, m, IF p.data > 0 THEN "pending" ELSE "none", IF p.stream THEN "open" ELSE "none")
      BY <1>3, <2>1, <3>1 DEF InitMessage
    <3> QED
      BY <2>1, <3>2
  <2>2. CASE p.kind = "data"
    <3>1. ProcessData(c, m)
      BY <1>4, <2>2 DEF Acts
    <3>2. maybeEnd(c, m, "none", stream[c])
      BY <1>3, <2>2, <3>1 DEF ProcessData
    <3> QED
      BY <1>3, <2>2, <3>2 DEF MoreTypes
  <2>3. CASE p.kind = "end"
    <3>1. EndStream(c, m)
      BY <1>4, <2>3 DEF Acts
    <3>2. maybeEnd(c, m, data[c], "done")
      BY <1>3, <2>3, <3>1 DEF EndStream
    <3> QED
      BY <1>3, <2>3, <3>2 DEF MoreTypes
  <2> QED
    BY <1>3, <2>1, <2>2, <2>3
<1>6. ~ rejected'
  <2>1. UNCHANGED rejected
    <3> QED
      BY <1>3, <1>4 DEF Acts, InitMessage, ProcessData, EndStream
  <2> QED
    BY <2>1 DEF TypeOK
<1>7. sent' = Tail(sent) /\ UNCHANGED <<toSend, using, channelsCount>>
  BY <1>6 DEF HandleReads, ReadPacket, peerVars
<1>8. /\ OnTheWay' = 1..(Len(sent) - 1)
      /\ \A i \in OnTheWay' : i + 1 \in OnTheWay /\ sent'[i] = sent[i + 1]
  <2>1. Len(sent') = Len(sent) - 1 /\ \A i \in 1..(Len(sent) - 1) : sent'[i] = sent[i + 1]
    BY <1>1, <1>7
  <2> QED
    BY <1>2, <2>1 DEF OnTheWay
<1>9. sent' \in Seq(Packet) /\ Len(sent') <= MaxSent
  <2>1. Len(sent') = Len(sent) - 1 /\ sent' \in Seq(Packet)
    BY <1>1, <1>7
  <2>2. Len(sent) <= MaxSent
    BY DEF TypeOK
  <2> QED
    BY <1>2, <2>1, <2>2, DeliveryAssumption
<1>10. \A x \in Messages, k \in Kinds : Left(x, k)' <=> Left(x, k) /\ ~ (x = m /\ k = p.kind)
  <2> SUFFICES ASSUME NEW x \in Messages, NEW k \in Kinds
               PROVE  Left(x, k)' <=> Left(x, k) /\ ~ (x = m /\ k = p.kind)
    OBVIOUS
  <2>1. ASSUME Left(x, k)'
        PROVE  Left(x, k) /\ ~ (x = m /\ k = p.kind)
    <3>1. CASE k \in toSend'[x]
      <4>1. k \in toSend[x]
        BY <1>7, <3>1
      <4>2. sent[1].kind \notin toSend[sent[1].of]
        BY <1>2 DEF WireInv
      <4> QED
        BY <1>p, <4>1, <4>2 DEF Left
    <3>2. CASE \E i \in OnTheWay' : sent'[i].of = x /\ sent'[i].kind = k
      <4>1. PICK i \in OnTheWay' : sent'[i].of = x /\ sent'[i].kind = k
        BY <3>2
      <4>2. i + 1 \in OnTheWay /\ 1 < i + 1 /\ sent[i + 1].of = x /\ sent[i + 1].kind = k
        BY <1>2, <1>8, <4>1
      <4>3. sent[1].of = sent[i + 1].of => sent[1].kind # sent[i + 1].kind
        BY <1>2, <4>2 DEF WireInv
      <4> QED
        BY <1>p, <4>2, <4>3 DEF Left
    <3> QED
      BY <2>1, <3>1, <3>2 DEF Left
  <2>2. ASSUME Left(x, k), ~ (x = m /\ k = p.kind)
        PROVE  Left(x, k)'
    <3>1. CASE k \in toSend[x]
      BY <1>7, <3>1 DEF Left
    <3>2. CASE \E i \in OnTheWay : sent[i].of = x /\ sent[i].kind = k
      <4>1. PICK i \in OnTheWay : sent[i].of = x /\ sent[i].kind = k
        BY <3>2
      <4>2. i # 1
        BY <1>p, <2>2, <4>1
      <4>3. i - 1 \in OnTheWay' /\ (i - 1) + 1 = i
        BY <1>2, <1>8, <4>1, <4>2 DEF OnTheWay
      <4>4. sent'[i - 1] = sent[i]
        BY <1>8, <4>3
      <4> QED
        BY <4>1, <4>3, <4>4 DEF Left
    <3> QED
      BY <2>2, <3>1, <3>2 DEF Left
  <2> QED
    BY <2>1, <2>2
<1>11. PICK d, s : Outcome(d, s)
  BY <1>5
<1>12. /\ d = "pending" <=> Left(m, "data")'
       /\ s = "open" <=> Left(m, "end")'
  <2>0. /\ Left(m, "data")' <=> Left(m, "data") /\ p.kind # "data"
        /\ Left(m, "end")' <=> Left(m, "end") /\ p.kind # "end"
    <3> HIDE DEF Outcome
    <3> QED
      BY <1>3, <1>10 DEF Kinds
  <2>1. CASE p.kind = "message"
    <3>1. p.data > 0 <=> Left(m, "data")
      BY <1>p, <1>2, <2>1 DEF WireInv
    <3>2. p.stream <=> Left(m, "end")
      BY <1>p, <1>2, <2>1 DEF WireInv
    <3> QED
      BY <1>11, <2>0, <2>1, <3>1, <3>2
  <2>2. CASE p.kind # "message"
    <3>1. message[c] = m /\ m # NoMessage
      BY <1>3, <2>2
    <3>2. (data[c] = "pending" <=> Left(m, "data")) /\ (stream[c] = "open" <=> Left(m, "end"))
      BY <1>3, <3>1 DEF ChannelInv
    <3> QED
      BY <1>11, <2>0, <2>2, <3>2
  <2> QED
    BY <2>1, <2>2
<1>13. /\ message' = [message EXCEPT ![c] = IF d = "none" /\ s # "open" THEN NoMessage ELSE m]
       /\ data' = [data EXCEPT ![c] = d]
       /\ stream' = [stream EXCEPT ![c] = IF d = "none" /\ s # "open" THEN "none" ELSE s]
  BY <1>11 DEF maybeEnd
<1>14. /\ message \in [Channels -> Messages \cup {NoMessage}]
       /\ data \in [Channels -> {"none", "pending"}]
       /\ stream \in [Channels -> {"none", "open", "done"}]
  BY DEF TypeOK, MoreTypes
<1>15. item' \in {item, NoMessage} \/ (item' = m /\ p.kind = "message")
  BY <1>1 DEF HandleReads
<1>16. /\ message' \in [Channels -> Messages \cup {NoMessage}]
       /\ data' \in [Channels -> {"none", "pending"}]
       /\ stream' \in [Channels -> {"none", "open", "done"}]
  <2> QED
    BY <1>3, <1>11, <1>13, <1>14
<1>17. /\ \A e \in Channels \ {c} :
            message'[e] = message[e] /\ data'[e] = data[e] /\ stream'[e] = stream[e]
       /\ data'[c] = d
       /\ message'[c] = IF d = "none" /\ s # "open" THEN NoMessage ELSE m
       /\ stream'[c] = IF d = "none" /\ s # "open" THEN "none" ELSE s
  <2> QED
    BY <1>3, <1>13, <1>14
<1>18. /\ data'[c] = "pending" <=> Left(m, "data")'
       /\ stream'[c] = "open" <=> Left(m, "end")'
       /\ IF Left(m, "data")' \/ Left(m, "end")'
          THEN message'[c] = m
          ELSE message'[c] = NoMessage /\ data'[c] = "none" /\ stream'[c] = "none"
  <2> QED
    BY <1>11, <1>12, <1>17
<1>19. ReadMoves(c, m, p.kind)
  BY <1>p, <1>2, <1>3, <1>7, <1>8, <1>10, <1>15, <1>17, <1>18 DEF ReadMoves
<1> QED
  BY <1>3, <1>6, <1>9, <1>16, <1>19 DEF Kinds

-----------------------------------------------------------------------------
(* The parts of the invariant when the peer sends.                         *)

LEMMA SendKeepsWire ==
  ASSUME TypeOK, MoreTypes, WireInv, UsingInv, OpenInv, NEW c \in Channels, NEW m \in Messages,
         NEW kind \in Kinds, SendMoves(c, m, kind)
  PROVE  WireInv'
<1> DEFINE new == Len(sent) + 1
<1>1. /\ toSend \in [Messages -> SUBSET Kinds]
      /\ \A i \in OnTheWay : /\ sent[i].of \in Messages /\ sent[i].of # NoMessage
                             /\ sent[i].kind \in Kinds /\ sent[i].channel \in Channels
      /\ OnTheWay' = OnTheWay \cup {new} /\ new \in Nat
      /\ \A i \in OnTheWay : i < new /\ ~ (new < i)
  <2>1. Len(sent) \in Nat /\ Len(sent') = Len(sent) + 1
    BY Parts DEF SendMoves
  <2> QED
    BY Parts, <2>1 DEF OnTheWay
<1>2. \A i \in OnTheWay : sent'[i] = sent[i]
  BY DEF SendMoves
<1>3. sent'[new].of = m /\ sent'[new].channel = c /\ sent'[new].kind = kind
  BY DEF SendMoves
<1>4. \A x \in Messages : toSend'[x] \subseteq toSend[x]
  BY DEF SendMoves
<1>5. ASSUME NEW i \in OnTheWay'
      PROVE  /\ sent'[i].kind \notin toSend'[sent'[i].of] /\ "message" \notin toSend'[sent'[i].of]
             /\ sent'[i].channel < channelsCount'
             /\ sent'[i].kind = "message" => /\ sent'[i].data > 0 <=> Left(sent[i].of, "data")'
                                             /\ sent'[i].stream <=> Left(sent[i].of, "end")'
             /\ sent'[i].kind # "message" =>
                  \/ message'[sent'[i].channel] = sent'[i].of
                  \/ \E j \in OnTheWay' : j < i /\ sent'[j].of = sent'[i].of
                                          /\ sent'[j].kind = "message"
  <2>1. CASE i \in OnTheWay
    <3>1. PICK q : q = sent[i]
      OBVIOUS
    <3>2. q = sent'[i] /\ q.of \in Messages /\ q.kind \in Kinds
      BY <1>1, <1>2, <2>1, <3>1
    <3>3. q.kind \notin toSend'[q.of] /\ "message" \notin toSend'[q.of] /\ q.channel < channelsCount'
      BY <1>4, <2>1, <3>1, <3>2 DEF WireInv, SendMoves
    <3>4. q.kind = "message" => /\ q.data > 0 <=> Left(q.of, "data")
                                /\ q.stream <=> Left(q.of, "end")
      BY <2>1, <3>1 DEF WireInv
    <3>5. Left(q.of, "data")' <=> Left(q.of, "data")
      BY <3>2 DEF SendMoves, Kinds
    <3>6. Left(q.of, "end")' <=> Left(q.of, "end")
      BY <3>2 DEF SendMoves, Kinds
    <3>7. q.kind # "message" =>
            \/ message'[q.channel] = q.of
            \/ \E j \in OnTheWay' : j < i /\ sent'[j].of = q.of /\ sent'[j].kind = "message"
      <4>1. q.kind # "message" =>
              \/ message[q.channel] = q.of
              \/ \E j \in OnTheWay : j < i /\ sent[j].of = q.of /\ sent[j].kind = "message"
        BY <2>1, <3>1 DEF WireInv
      <4> QED
        BY <4>1, <1>1, <1>2 DEF SendMoves
    <3> QED
      BY <3>2, <3>3, <3>4, <3>5, <3>6, <3>7
  <2>2. CASE i = new
    <3>1. kind \notin toSend'[m] /\ "message" \notin toSend'[m] /\ c < channelsCount'
      BY <1>1 DEF SendMoves
    <3>2. kind = "message" => /\ sent'[new].data > 0 <=> Left(m, "data")
                              /\ sent'[new].stream <=> Left(m, "end")
      <4>1. kind = "message" => \A j \in OnTheWay : sent[j].of # m
        BY DEF SendMoves
      <4> QED
        BY <4>1 DEF SendMoves, Left
    <3>3. /\ Left(m, "data")' <=> Left(m, "data")
          /\ Left(m, "end")' <=> Left(m, "end")
      BY DEF SendMoves, Kinds
    <3>4. kind # "message" =>
            \/ message[c] = m
            \/ \E j \in OnTheWay : sent[j].of = m /\ sent[j].kind = "message"
      <4> SUFFICES ASSUME kind # "message",
                          ~ \E j \in OnTheWay : sent[j].of = m /\ sent[j].kind = "message"
                   PROVE  message[c] = m
        OBVIOUS
      <4>1. ~ Left(m, "message") /\ kind \in toSend[m] /\ kind \in {"data", "end"}
        BY DEF SendMoves, Left, Kinds
      <4>2. Left(m, "data") \/ Left(m, "end")
        BY <4>1 DEF Left
      <4>3. PICK d \in Channels : message[d] = m
        BY <4>1, <4>2 DEF OpenInv, Open
      <4>4. using[d] = m
        BY <4>1, <4>3, DeliveryAssumption DEF UsingInv
      <4> QED
        BY <4>3, <4>4 DEF SendMoves
    <3>5. UNCHANGED message
      BY DEF SendMoves
    <3>6. sent'[new].kind # "message" =>
            \/ message'[sent'[new].channel] = sent'[new].of
            \/ \E j \in OnTheWay' : j < new /\ sent'[j].of = sent'[new].of
                                    /\ sent'[j].kind = "message"
      <4> HIDE DEF new
      <4> QED
        BY <1>1, <1>2, <1>3, <3>4, <3>5
    <3>7. sent'[i] = sent'[new]
      BY <2>2
    <3> HIDE DEF new
    <3> QED
      BY <2>2, <1>3, <3>1, <3>2, <3>3, <3>6, <3>7
  <2> QED
    BY <1>1, <2>1, <2>2
<1>6. \A i, j \in OnTheWay' : i < j /\ sent'[i].of = sent'[j].of =>
        /\ sent'[i].kind # sent'[j].kind /\ sent'[j].kind # "message"
        /\ sent'[i].channel = sent'[j].channel
  <2> SUFFICES ASSUME NEW i \in OnTheWay', NEW j \in OnTheWay', i < j, sent'[i].of = sent'[j].of
               PROVE  /\ sent'[i].kind # sent'[j].kind /\ sent'[j].kind # "message"
                      /\ sent'[i].channel = sent'[j].channel
    OBVIOUS
  <2>1. i \in OnTheWay /\ sent'[i] = sent[i]
    BY <1>1, <1>2
  <2>2. CASE j \in OnTheWay
    BY <1>2, <2>1, <2>2 DEF WireInv
  <2>3. CASE j = new
    <3>1. sent'[j].of = m /\ sent'[j].channel = c /\ sent'[j].kind = kind
      BY <1>3, <2>3
    <3>2. sent[i].of = m => sent[i].channel = c /\ sent[i].kind # kind /\ kind # "message"
      BY <2>1 DEF SendMoves
    <3> QED
      BY <2>1, <3>1, <3>2
  <2> QED
    BY <1>1, <2>2, <2>3
<1>7. \A i, j \in OnTheWay' :
        i < j /\ sent'[i].channel = sent'[j].channel /\ sent'[i].of # sent'[j].of =>
          /\ toSend'[sent'[i].of] = {}
          /\ \A k \in OnTheWay' : k > j => sent'[k].of # sent'[i].of
  <2> SUFFICES ASSUME NEW i \in OnTheWay', NEW j \in OnTheWay', i < j,
                      sent'[i].channel = sent'[j].channel, sent'[i].of # sent'[j].of
               PROVE  /\ toSend'[sent'[i].of] = {}
                      /\ \A k \in OnTheWay' : k > j => sent'[k].of # sent'[i].of
    OBVIOUS
  <2>1. i \in OnTheWay /\ sent'[i] = sent[i] /\ sent[i].of \in Messages /\ sent[i].of # NoMessage
    BY <1>1, <1>2
  <2>2. CASE j \in OnTheWay
    <3>1. toSend[sent[i].of] = {} /\ \A k \in OnTheWay : k > j => sent[k].of # sent[i].of
      BY <1>2, <2>1, <2>2 DEF WireInv
    <3>2. m # sent[i].of
      BY <3>1 DEF SendMoves
    <3>3. toSend'[sent[i].of] = {}
      BY <2>1, <3>1, <3>2 DEF SendMoves
    <3> HIDE DEF new
    <3> QED
      BY <1>1, <1>2, <1>3, <2>1, <3>1, <3>2, <3>3
  <2>3. CASE j = new
    <3>1. sent[i].channel = c /\ sent[i].of # m
      BY <1>3, <2>1, <2>3
    <3>2. toSend[sent[i].of] = {}
      <4>1. using[c] \in {NoMessage, m}
        BY DEF SendMoves
      <4> QED
        BY <2>1, <3>1, <4>1 DEF UsingInv
    <3>3. toSend'[sent[i].of] = {}
      BY <2>1, <3>1, <3>2 DEF SendMoves
    <3>4. \A k \in OnTheWay' : ~ (k > j)
      <4>1. \A k \in OnTheWay' : k \in Nat
        BY DEF OnTheWay
      <4> QED
        BY <1>1, <2>3, <4>1
    <3> QED
      BY <2>1, <3>3, <3>4
  <2> QED
    BY <1>1, <2>2, <2>3
<1> QED
  BY <1>5, <1>6, <1>7 DEF WireInv

LEMMA SendKeepsUsing ==
  ASSUME TypeOK, MoreTypes, UsingInv, NEW c \in Channels, NEW m \in Messages,
         NEW kind \in Kinds, SendMoves(c, m, kind)
  PROVE  UsingInv'
<1> DEFINE new == Len(sent) + 1
<1>1. /\ \A i \in OnTheWay : sent[i].of \in Messages /\ sent[i].channel \in Channels
      /\ OnTheWay' = OnTheWay \cup {new}
  <2>1. Len(sent) \in Nat /\ Len(sent') = Len(sent) + 1
    BY Parts DEF SendMoves
  <2> QED
    BY Parts, <2>1 DEF OnTheWay
<1>2. m # NoMessage /\ using[c] \in {NoMessage, m} /\ toSend[m] # {}
  BY DeliveryAssumption DEF SendMoves
<1>3. using'[c] \in {NoMessage, m} /\ (toSend'[m] # {} => using'[c] = m)
      /\ (using'[c] = m => toSend'[m] # {})
  BY <1>2 DEF SendMoves
<1>4. "message" \notin toSend'[m]
  BY DEF SendMoves
<1>5. /\ \A d \in Channels \ {c} : using'[d] = using[d] /\ using[d] # m
      /\ \A x \in Messages \ {m} : toSend'[x] = toSend[x]
      /\ using[c] = m <=> "message" \notin toSend[m]
      /\ message' = message
  BY <1>2 DEF SendMoves
<1>6. ASSUME NEW d \in Channels, using'[d] # NoMessage
      PROVE  /\ toSend'[using'[d]] # {} /\ "message" \notin toSend'[using'[d]]
             /\ \A e \in Channels : using'[e] = using'[d] => e = d
  <2>1. CASE d = c
    BY <1>3, <1>4, <1>5, <1>6, <2>1
  <2>2. CASE d # c
    <3>1. using'[d] = using[d] /\ using[d] # m /\ using[d] \in Messages
      BY <1>5, <1>6, <2>2 DEF TypeOK
    <3>2. /\ toSend[using[d]] # {} /\ "message" \notin toSend[using[d]]
          /\ \A e \in Channels : using[e] = using[d] => e = d
      BY <1>6, <3>1 DEF UsingInv
    <3> QED
      BY <1>3, <1>5, <1>6, <2>2, <3>1, <3>2
  <2> QED
    BY <2>1, <2>2
<1>7. ASSUME NEW i \in OnTheWay', toSend'[sent'[i].of] # {}
      PROVE  using'[sent'[i].channel] = sent'[i].of
  <2>1. CASE i \in OnTheWay
    <3>1. sent'[i] = sent[i] /\ sent[i].of \in Messages /\ sent[i].channel \in Channels
      BY <1>1, <2>1 DEF SendMoves
    <3>2. CASE sent[i].of = m
      <4>1. sent[i].channel = c
        BY <2>1, <3>2 DEF SendMoves
      <4> QED
        BY <1>3, <1>7, <3>1, <3>2, <4>1
    <3>3. CASE sent[i].of # m
      <4>1. toSend[sent[i].of] # {}
        BY <1>5, <1>7, <3>1, <3>3
      <4>2. using[sent[i].channel] = sent[i].of
        BY <2>1, <4>1 DEF UsingInv
      <4>3. sent[i].channel # c
        BY <1>2, <3>1, <3>3, <4>2, DeliveryAssumption
      <4> QED
        BY <1>5, <3>1, <4>2, <4>3
    <3> QED
      BY <3>2, <3>3
  <2>2. CASE i = new
    <3>1. sent'[i].of = m /\ sent'[i].channel = c
      BY <2>2 DEF SendMoves
    <3> QED
      BY <1>3, <1>7, <3>1
  <2> QED
    BY <1>1, <2>1, <2>2
<1>8. ASSUME NEW d \in Channels, message'[d] # NoMessage, toSend'[message'[d]] # {}
      PROVE  using'[d] = message'[d]
  <2>1. message'[d] = message[d] /\ message[d] \in Messages
    BY <1>5, <1>8 DEF TypeOK
  <2>2. toSend[message[d]] # {}
    BY <1>2, <1>5, <1>8, <2>1
  <2>3. using[d] = message[d]
    BY <1>8, <2>1, <2>2 DEF UsingInv
  <2> QED
    BY <1>2, <1>3, <1>5, <1>8, <2>1, <2>3, DeliveryAssumption
<1> QED
  BY <1>6, <1>7, <1>8 DEF UsingInv

LEMMA SendKeepsChannels ==
  ASSUME TypeOK, MoreTypes, UsingInv, ChannelInv, NEW c \in Channels, NEW m \in Messages,
         NEW kind \in Kinds, SendMoves(c, m, kind)
  PROVE  ChannelInv'
<1> DEFINE new == Len(sent) + 1
<1>1. /\ OnTheWay' = OnTheWay \cup {new} /\ new \in Nat
      /\ \A i \in OnTheWay : i < new /\ ~ (new < i)
      /\ ~ (new > new)
      /\ \A i \in OnTheWay : sent'[i] = sent[i]
  <2>1. Len(sent) \in Nat /\ Len(sent') = Len(sent) + 1
    BY Parts DEF SendMoves
  <2>2. OnTheWay' = OnTheWay \cup {new} /\ new \in Nat
        /\ \A i \in OnTheWay : i < new /\ ~ (new < i)
    BY <2>1 DEF OnTheWay
  <2> QED
    BY <2>2 DEF SendMoves
<1>2. /\ sent'[new].of = m /\ sent'[new].channel = c /\ message' = message
      /\ data' = data /\ stream' = stream /\ using[c] \in {NoMessage, m} /\ toSend[m] # {}
  BY DEF SendMoves
<1> SUFFICES ASSUME NEW d \in Channels
             PROVE  /\ message[d] = NoMessage => data[d] = "none" /\ stream[d] = "none"
                    /\ message[d] # NoMessage =>
                         /\ data[d] = "pending" <=> Left(message[d], "data")'
                         /\ stream[d] = "open" <=> Left(message[d], "end")'
                         /\ data[d] = "pending" \/ stream[d] = "open"
                         /\ ~ Left(message[d], "message")'
                         /\ \A e \in Channels : message[e] = message[d] => e = d
                         /\ \A i \in OnTheWay' : sent'[i].of = message[d] => sent'[i].channel = d
                         /\ \A i \in OnTheWay' : sent'[i].channel = d /\ sent'[i].of # message[d] =>
                              /\ toSend'[message[d]] = {}
                              /\ \A k \in OnTheWay' : k > i => sent'[k].of # message[d]
  BY <1>2 DEF ChannelInv
<1>3. message[d] = NoMessage => data[d] = "none" /\ stream[d] = "none"
  BY DEF ChannelInv
<1>4. ASSUME message[d] # NoMessage
      PROVE  /\ data[d] = "pending" <=> Left(message[d], "data")'
             /\ stream[d] = "open" <=> Left(message[d], "end")'
             /\ data[d] = "pending" \/ stream[d] = "open"
             /\ ~ Left(message[d], "message")'
             /\ \A e \in Channels : message[e] = message[d] => e = d
             /\ \A i \in OnTheWay' : sent'[i].of = message[d] => sent'[i].channel = d
             /\ \A i \in OnTheWay' : sent'[i].channel = d /\ sent'[i].of # message[d] =>
                  /\ toSend'[message[d]] = {}
                  /\ \A k \in OnTheWay' : k > i => sent'[k].of # message[d]
  <2>1. PICK x : x = message[d]
    OBVIOUS
  <2>2. x \in Messages /\ x # NoMessage
    BY <1>4, <2>1 DEF TypeOK
  <2>3. /\ data[d] = "pending" <=> Left(x, "data")
        /\ stream[d] = "open" <=> Left(x, "end")
        /\ data[d] = "pending" \/ stream[d] = "open"
        /\ ~ Left(x, "message")
        /\ \A e \in Channels : message[e] = x => e = d
        /\ \A i \in OnTheWay : sent[i].of = x => sent[i].channel = d
        /\ \A i \in OnTheWay : sent[i].channel = d /\ sent[i].of # x =>
             /\ toSend[x] = {}
             /\ \A k \in OnTheWay : k > i => sent[k].of # x
    BY <1>4, <2>1 DEF ChannelInv
  <2>4. /\ Left(x, "data")' <=> Left(x, "data")
        /\ Left(x, "end")' <=> Left(x, "end")
        /\ Left(x, "message")' <=> Left(x, "message")
    BY <2>2 DEF SendMoves, Kinds
  <2>5. x = m => d = c
    <3>1. x = m => using[d] = m
      BY <1>2, <1>4, <2>1 DEF UsingInv
    <3> QED
      BY <3>1 DEF SendMoves
  <2>6. \A i \in OnTheWay' : sent'[i].of = x => sent'[i].channel = d
    BY <1>1, <1>2, <2>3, <2>5
  <2>7. ASSUME NEW i \in OnTheWay', sent'[i].channel = d, sent'[i].of # x
        PROVE  /\ toSend'[x] = {}
               /\ \A k \in OnTheWay' : k > i => sent'[k].of # x
    <3>1. CASE i \in OnTheWay
      <4>1. toSend[x] = {} /\ \A k \in OnTheWay : k > i => sent[k].of # x
        BY <1>1, <2>3, <2>7, <3>1
      <4>2. x # m /\ toSend'[x] = {}
        BY <1>2, <2>2, <4>1 DEF SendMoves
      <4> HIDE DEF new
      <4> QED
        BY <1>1, <1>2, <4>1, <4>2
    <3>2. CASE i = new
      <4>1. c = d /\ x # m
        BY <1>2, <2>7, <3>2
      <4>2. toSend[x] = {}
        BY <1>2, <1>4, <2>1, <2>2, <4>1 DEF UsingInv
      <4>3. toSend'[x] = {}
        BY <2>2, <4>1, <4>2 DEF SendMoves
      <4> HIDE DEF new
      <4> QED
        BY <1>1, <3>2, <4>3
    <3> QED
      BY <1>1, <3>1, <3>2
  <2>8. UNCHANGED message
    BY <1>2
  <2> QED
    BY <2>1, <2>3, <2>4, <2>6, <2>7, <2>8
<1> QED
  BY <1>3, <1>4

-----------------------------------------------------------------------------
(* The parts of the invariant when the first packet is read.               *)

LEMMA ReadKeepsWire ==
  ASSUME TypeOK, MoreTypes, WireInv, NEW c \in Channels, NEW m \in Messages,
         NEW kind \in Kinds, ReadMoves(c, m, kind)
  PROVE  WireInv'
<1>1. /\ \A i \in OnTheWay : /\ sent[i].of \in Messages /\ sent[i].of # NoMessage
                             /\ sent[i].kind \in Kinds /\ sent[i].channel \in Channels
      /\ \A i \in OnTheWay' : i \in Nat /\ 1 < i + 1 /\ i + 1 \in OnTheWay /\ sent'[i] = sent[i + 1]
      /\ \A j \in OnTheWay : j = 1 \/ (j - 1 \in OnTheWay' /\ sent'[j - 1] = sent[j])
      /\ OnTheWay \subseteq Nat
  <2>1. Len(sent) \in Nat /\ OnTheWay' = 1..(Len(sent) - 1)
    BY Parts DEF ReadMoves
  <2>2. \A i \in OnTheWay' : i \in Nat /\ 1 < i + 1 /\ i + 1 \in OnTheWay /\ sent'[i] = sent[i + 1]
    BY <2>1 DEF ReadMoves
  <2>3. ASSUME NEW j \in OnTheWay, j # 1
        PROVE  j - 1 \in OnTheWay' /\ sent'[j - 1] = sent[j]
    <3>1. j - 1 \in OnTheWay' /\ (j - 1) + 1 = j
      BY <2>1, <2>3 DEF OnTheWay
    <3> QED
      BY <2>2, <3>1
  <2> QED
    BY <2>2, <2>3, Parts DEF OnTheWay
<1>2. /\ 1 \in OnTheWay /\ sent[1].of = m /\ sent[1].channel = c /\ sent[1].kind = kind
      /\ UNCHANGED <<toSend, channelsCount>>
  BY DEF ReadMoves
<1>3. ASSUME NEW i \in OnTheWay'
      PROVE  /\ sent'[i].kind \notin toSend'[sent'[i].of] /\ "message" \notin toSend'[sent'[i].of]
             /\ sent'[i].channel < channelsCount'
             /\ sent'[i].kind = "message" => /\ sent'[i].data > 0 <=> Left(sent[i].of, "data")'
                                             /\ sent'[i].stream <=> Left(sent[i].of, "end")'
             /\ sent'[i].kind # "message" =>
                  \/ message'[sent'[i].channel] = sent'[i].of
                  \/ \E j \in OnTheWay' : j < i /\ sent'[j].of = sent'[i].of
                                          /\ sent'[j].kind = "message"
  <2>0. PICK n \in OnTheWay : n = i + 1
    BY <1>1
  <2>1. PICK q : q = sent[n]
    OBVIOUS
  <2>2. /\ 1 < n /\ q = sent'[i] /\ q.of \in Messages
        /\ q.of # NoMessage /\ q.kind \in Kinds /\ q.channel \in Channels
    BY <1>1, <2>0, <2>1
  <2>3. /\ q.kind \notin toSend'[q.of] /\ "message" \notin toSend'[q.of]
        /\ q.channel < channelsCount'
        /\ q.kind = "message" => /\ q.data > 0 <=> Left(q.of, "data")
                                 /\ q.stream <=> Left(q.of, "end")
        /\ q.kind # "message" =>
             \/ message[q.channel] = q.of
             \/ \E j \in OnTheWay : j < n /\ sent[j].of = q.of /\ sent[j].kind = "message"
    BY <1>2, <2>1 DEF WireInv
  <2>4. m = q.of => kind # q.kind /\ q.kind # "message" /\ q.channel = c
    <3>1. 1 < n /\ sent[1].of = m /\ sent[1].kind = kind /\ sent[1].channel = c /\ 1 \in OnTheWay
      BY <1>2, <2>2
    <3>2. \A i1, j1 \in OnTheWay : i1 < j1 /\ sent[i1].of = sent[j1].of =>
            /\ sent[i1].kind # sent[j1].kind /\ sent[j1].kind # "message"
            /\ sent[i1].channel = sent[j1].channel
      BY DEF WireInv
    <3>3. sent[1].of = sent[n].of =>
            /\ sent[1].kind # sent[n].kind /\ sent[n].kind # "message"
            /\ sent[1].channel = sent[n].channel
      BY <3>1, <3>2
    <3> QED
      BY <2>1, <3>1, <3>3
  <2>5. \A k \in Kinds : Left(q.of, k)' <=> Left(q.of, k) /\ ~ (q.of = m /\ k = kind)
    BY <2>2 DEF ReadMoves
  <2>6. q.kind = "message" => /\ q.data > 0 <=> Left(q.of, "data")'
                              /\ q.stream <=> Left(q.of, "end")'
    BY <2>3, <2>4, <2>5 DEF Kinds
  <2>7. ASSUME q.kind # "message"
        PROVE  \/ message'[q.channel] = q.of
               \/ \E j \in OnTheWay' : j < i /\ sent'[j].of = q.of /\ sent'[j].kind = "message"
    <3>1. Left(q.of, q.kind)'
      BY <2>2 DEF Left
    <3>2. CASE m = q.of
      <4>1. Left(m, "data")' \/ Left(m, "end")'
        BY <2>2, <2>7, <3>1, <3>2 DEF Kinds
      <4> QED
        BY <2>4, <3>2, <4>1 DEF ReadMoves
    <3>3. CASE m # q.of /\ message[q.channel] = q.of
      <4>1. q.channel # c
        BY <2>2, <3>3 DEF ReadMoves
      <4> QED
        BY <2>2, <3>3, <4>1 DEF ReadMoves
    <3>4. CASE m # q.of /\ message[q.channel] # q.of
      <4>1. PICK j \in OnTheWay : j < n /\ sent[j].of = q.of /\ sent[j].kind = "message"
        BY <2>3, <2>7, <3>4
      <4>2. j - 1 \in OnTheWay' /\ sent'[j - 1] = sent[j]
        BY <1>1, <1>2, <3>4, <4>1
      <4>3. j - 1 < i
        BY <1>1, <2>0, <4>1
      <4> QED
        BY <4>1, <4>2, <4>3
    <3> QED
      BY <3>2, <3>3, <3>4
  <2> QED
    BY <2>2, <2>3, <2>6, <2>7
<1>4. \A i, j \in OnTheWay' : i < j /\ sent'[i].of = sent'[j].of =>
        /\ sent'[i].kind # sent'[j].kind /\ sent'[j].kind # "message"
        /\ sent'[i].channel = sent'[j].channel
  <2> SUFFICES ASSUME NEW i \in OnTheWay', NEW j \in OnTheWay', i < j, sent'[i].of = sent'[j].of
               PROVE  /\ sent'[i].kind # sent'[j].kind /\ sent'[j].kind # "message"
                      /\ sent'[i].channel = sent'[j].channel
    OBVIOUS
  <2>1. i + 1 < j + 1
    BY <1>1
  <2> QED
    BY <1>1, <2>1 DEF WireInv
<1>5. \A i, j \in OnTheWay' :
        i < j /\ sent'[i].channel = sent'[j].channel /\ sent'[i].of # sent'[j].of =>
          /\ toSend'[sent'[i].of] = {}
          /\ \A k \in OnTheWay' : k > j => sent'[k].of # sent'[i].of
  <2> SUFFICES ASSUME NEW i \in OnTheWay', NEW j \in OnTheWay', i < j,
                      sent'[i].channel = sent'[j].channel, sent'[i].of # sent'[j].of
               PROVE  /\ toSend'[sent'[i].of] = {}
                      /\ \A k \in OnTheWay' : k > j => sent'[k].of # sent'[i].of
    OBVIOUS
  <2>1. i + 1 < j + 1 /\ \A k \in OnTheWay' : k > j => k + 1 > j + 1
    BY <1>1
  <2>2. /\ toSend[sent[i + 1].of] = {}
        /\ \A k \in OnTheWay : k > j + 1 => sent[k].of # sent[i + 1].of
    BY <1>1, <2>1 DEF WireInv
  <2> QED
    BY <1>1, <1>2, <2>1, <2>2
<1> QED
  BY <1>3, <1>4, <1>5 DEF WireInv

LEMMA ReadKeepsUsing ==
  ASSUME TypeOK, MoreTypes, UsingInv, NEW c \in Channels, NEW m \in Messages,
         NEW kind \in Kinds, ReadMoves(c, m, kind)
  PROVE  UsingInv'
<1>1. /\ 1 \in OnTheWay /\ sent[1].of = m /\ sent[1].channel = c
      /\ \A i \in OnTheWay' : i + 1 \in OnTheWay /\ sent'[i] = sent[i + 1]
      /\ UNCHANGED <<toSend, using>>
  BY DEF ReadMoves
<1>2. \A d \in Channels : using'[d] # NoMessage =>
        /\ toSend'[using'[d]] # {} /\ "message" \notin toSend'[using'[d]]
        /\ \A e \in Channels : using'[e] = using'[d] => e = d
  BY <1>1 DEF UsingInv
<1>3. \A i \in OnTheWay' : toSend'[sent'[i].of] # {} => using'[sent'[i].channel] = sent'[i].of
  BY <1>1 DEF UsingInv
<1>4. ASSUME NEW d \in Channels, message'[d] # NoMessage, toSend'[message'[d]] # {}
      PROVE  using'[d] = message'[d]
  <2>1. CASE d = c
    <3>1. message'[d] = m
      BY <1>4, <2>1 DEF ReadMoves
    <3> QED
      BY <1>1, <1>4, <2>1, <3>1 DEF UsingInv
  <2>2. CASE d # c
    <3>1. message'[d] = message[d]
      BY <2>2 DEF ReadMoves
    <3> QED
      BY <1>1, <1>4, <3>1 DEF UsingInv
  <2> QED
    BY <2>1, <2>2
<1> QED
  BY <1>2, <1>3, <1>4 DEF UsingInv

LEMMA ReadKeepsChannels ==
  ASSUME TypeOK, MoreTypes, WireInv, ChannelInv, NEW c \in Channels, NEW m \in Messages,
         NEW kind \in Kinds, ReadMoves(c, m, kind),
         data' \in [Channels -> {"none", "pending"}]
  PROVE  ChannelInv'
<1>1. /\ \A i \in OnTheWay' : 1 < i + 1 /\ i + 1 \in OnTheWay /\ sent'[i] = sent[i + 1]
      /\ \A i, k \in OnTheWay' : k > i => k + 1 > i + 1
  <2>1. OnTheWay' \subseteq Nat \ {0}
    BY Parts DEF ReadMoves
  <2> QED
    BY <2>1 DEF ReadMoves
<1>2. /\ 1 \in OnTheWay /\ sent[1].of = m /\ sent[1].channel = c /\ sent[1].kind = kind
      /\ UNCHANGED toSend
      /\ message[c] \in {NoMessage, m}
      /\ message'[c] \in {NoMessage, m}
      /\ m # NoMessage
  BY DeliveryAssumption DEF ReadMoves
<1> SUFFICES ASSUME NEW d \in Channels
             PROVE  /\ message'[d] = NoMessage => data'[d] = "none" /\ stream'[d] = "none"
                    /\ message'[d] # NoMessage =>
                         /\ data'[d] = "pending" <=> Left(message[d], "data")'
                         /\ stream'[d] = "open" <=> Left(message[d], "end")'
                         /\ data'[d] = "pending" \/ stream'[d] = "open"
                         /\ ~ Left(message[d], "message")'
                         /\ \A e \in Channels : message'[e] = message'[d] => e = d
                         /\ \A i \in OnTheWay' : sent'[i].of = message'[d] => sent'[i].channel = d
                         /\ \A i \in OnTheWay' : sent'[i].channel = d /\ sent'[i].of # message'[d] =>
                              /\ toSend'[message'[d]] = {}
                              /\ \A k \in OnTheWay' : k > i => sent'[k].of # message'[d]
  BY DEF ChannelInv
<1>3. ASSUME message'[d] = NoMessage
      PROVE  data'[d] = "none" /\ stream'[d] = "none"
  BY <1>2, <1>3 DEF ReadMoves, ChannelInv
<1>4. PICK x : x = message'[d]
  OBVIOUS
<1>5. ASSUME x # NoMessage
      PROVE  /\ data'[d] = "pending" <=> Left(x, "data")'
             /\ stream'[d] = "open" <=> Left(x, "end")'
             /\ data'[d] = "pending" \/ stream'[d] = "open"
             /\ ~ Left(x, "message")'
             /\ \A e \in Channels : message'[e] = x => e = d
             /\ \A i \in OnTheWay' : sent'[i].of = x => sent'[i].channel = d
             /\ \A i \in OnTheWay' : sent'[i].channel = d /\ sent'[i].of # x =>
                  /\ toSend'[x] = {}
                  /\ \A k \in OnTheWay' : k > i => sent'[k].of # x
  <2>1. CASE d # c
    <3>1. message[d] = x /\ data'[d] = data[d] /\ stream'[d] = stream[d] /\ x \in Messages
      BY <1>4, <1>5, <2>1 DEF ReadMoves, TypeOK
    <3>2. /\ data[d] = "pending" <=> Left(x, "data")
          /\ stream[d] = "open" <=> Left(x, "end")
          /\ data[d] = "pending" \/ stream[d] = "open"
          /\ ~ Left(x, "message")
          /\ \A e \in Channels : message[e] = x => e = d
          /\ \A i \in OnTheWay : sent[i].of = x => sent[i].channel = d
          /\ \A i \in OnTheWay : sent[i].channel = d /\ sent[i].of # x =>
               /\ toSend[x] = {}
               /\ \A k \in OnTheWay : k > i => sent[k].of # x
      BY <1>5, <3>1 DEF ChannelInv
    <3>3. x # m
      BY <1>2, <2>1, <3>2
    <3>4. \A k \in Kinds : Left(x, k)' <=> Left(x, k)
      BY <3>1, <3>3 DEF ReadMoves
    <3>5. \A e \in Channels : message'[e] = x => e = d
      <4>1. \A e \in Channels \ {c} : message'[e] = message[e]
        BY DEF ReadMoves
      <4> QED
        BY <1>2, <1>5, <3>2, <3>3, <4>1
    <3>6. /\ \A i \in OnTheWay' : sent'[i].of = x => sent'[i].channel = d
          /\ \A i \in OnTheWay' : sent'[i].channel = d /\ sent'[i].of # x =>
               /\ toSend'[x] = {}
               /\ \A k \in OnTheWay' : k > i => sent'[k].of # x
      BY <1>1, <1>2, <3>2
    <3> QED
      BY <3>1, <3>2, <3>4, <3>5, <3>6 DEF Kinds
  <2>2. CASE d = c
    <3>1. x = m
      BY <1>2, <1>4, <1>5, <2>2
    <3>2. /\ data'[c] = "pending" <=> Left(m, "data")'
          /\ stream'[c] = "open" <=> Left(m, "end")'
          /\ Left(m, "data")' \/ Left(m, "end")'
      BY <1>4, <1>5, <2>2 DEF ReadMoves
    <3>3. ~ Left(m, "message")'
      <4>1. kind # "message" => ~ Left(m, "message")
        <5>1. kind # "message" => message[c] = m
          BY DEF ReadMoves
        <5> QED
          BY <1>2, <5>1 DEF ChannelInv
      <4> QED
        BY <4>1 DEF ReadMoves, Kinds
    <3>4. \A e \in Channels : message'[e] = m => e = c
      <4>1. \A e \in Channels : message[e] = m => e = c
        BY <1>2 DEF ChannelInv
      <4> QED
        BY <4>1 DEF ReadMoves
    <3>5. \A i \in OnTheWay' : sent'[i].of = m => sent'[i].channel = c
      BY <1>1, <1>2 DEF WireInv
    <3>6. \A i \in OnTheWay' : sent'[i].channel = c /\ sent'[i].of # m =>
            /\ toSend'[m] = {}
            /\ \A k \in OnTheWay' : k > i => sent'[k].of # m
      BY <1>1, <1>2 DEF WireInv
    <3> QED
      BY <2>2, <3>1, <3>2, <3>3, <3>4, <3>5, <3>6
  <2> QED
    BY <2>1, <2>2
<1> QED
  BY <1>3, <1>4, <1>5

LEMMA ReadKeepsOpen ==
  ASSUME TypeOK, OpenInv, NEW c \in Channels, NEW m \in Messages,
         NEW kind \in Kinds, ReadMoves(c, m, kind)
  PROVE  OpenInv'
<1> SUFFICES ASSUME NEW x \in Messages, ~ Left(x, "message")', Left(x, "data")' \/ Left(x, "end")'
             PROVE  \E d \in Channels : message'[d] = x
  BY DEF OpenInv, Open
<1>1. CASE x = m
  BY <1>1 DEF ReadMoves
<1>2. CASE x # m
  <2>1. \A k \in Kinds : Left(x, k)' <=> Left(x, k)
    BY <1>2 DEF ReadMoves
  <2>2. ~ Left(x, "message") /\ (Left(x, "data") \/ Left(x, "end"))
    BY <2>1 DEF Kinds
  <2>3. PICK d \in Channels : message[d] = x
    BY <2>2 DEF OpenInv, Open
  <2>4. d # c
    BY <1>2, <2>3, DeliveryAssumption DEF ReadMoves
  <2> QED
    BY <2>3, <2>4 DEF ReadMoves
<1> QED
  BY <1>1, <1>2

-----------------------------------------------------------------------------
(* The invariant.                                                          *)

LEMMA DeliveryInit == Init => DeliveryInv
<1> SUFFICES ASSUME Init PROVE DeliveryInv
  OBVIOUS
<1>1. /\ sent = <<>> /\ queue = <<>> /\ Len(sent) = 0 /\ Len(queue) = 0
      /\ OnTheWay = {}
  BY DEF Init, OnTheWay
<1>2. toSend \in [Messages -> Wholes] /\ \A m \in Messages : "message" \in toSend[m]
  <2>1. \A w \in Wholes : "message" \in w
    BY DEF Wholes
  <2> QED
    BY <2>1 DEF Init
<1>3. /\ message = [c \in Channels |-> NoMessage] /\ data = [c \in Channels |-> "none"]
      /\ stream = [c \in Channels |-> "none"] /\ rejected = FALSE
      /\ using = [c \in Channels |-> NoMessage]
      /\ item = NoMessage /\ holds = [h \in pool |-> NoMessage] /\ handled = {}
  BY DEF Init, ParserInit
<1>4. channelsCount \in Nat /\ buffered \in Nat
  <2>1. Cardinality(Channels) \in Nat
    BY DeliveryAssumption, FS_CardinalityType
  <2> QED
    BY <2>1, DeliveryAssumption DEF Init
<1>5. TypeOK
  BY <1>1, <1>2, <1>3, <1>4, DeliveryAssumption DEF TypeOK
<1>6. MoreTypes
  BY <1>1, <1>3, <1>4 DEF MoreTypes
<1>7. WireInv
  BY <1>1 DEF WireInv
<1>8. UsingInv
  BY <1>1, <1>3 DEF UsingInv
<1>9. ChannelInv
  BY <1>3 DEF ChannelInv
<1>10. OpenInv
  BY <1>2 DEF OpenInv, Left
<1>11. KnownInv
  <2>1. Known = {NoMessage} \/ Known = {}
    BY <1>1, <1>3 DEF Known
  <2> QED
    BY <1>3, <2>1, DeliveryAssumption DEF KnownInv
<1> QED
  BY <1>5, <1>6, <1>7, <1>8, <1>9, <1>10, <1>11 DEF DeliveryInv

LEMMA SendKeepsInv ==
  ASSUME DeliveryInv, NEW c \in Channels, NEW m \in Messages, NEW kind \in toSend[m],
         PeerSends(c, m, kind)
  PROVE  DeliveryInv'
<1> USE DEF DeliveryInv
<1>1. kind \in Kinds
  BY Parts
<1>2. SendMoves(c, m, kind)
  BY Sending
<1>3. /\ UNCHANGED <<message, item, queue, buffered, pool, holds, handled, data, stream,
                     channelsCount, rejected>>
      /\ sent' = Append(sent, [kind |-> kind, channel |-> c, of |-> m, size |-> 1,
                               data |-> Cardinality(toSend[m] \cap {"data"}),
                               stream |-> "end" \in toSend[m]])
      /\ toSend' = [toSend EXCEPT ![m] = @ \ {kind}]
      /\ using' = [using EXCEPT ![c] = IF toSend'[m] = {} THEN NoMessage ELSE m]
      /\ Len(sent) < MaxSent
  BY DEF PeerSends, parserVars, applicationVars
<1>4. TypeOK'
  <2>1. toSend' \in [Messages -> Wholes \cup SUBSET {"data", "end"}]
    <3>1. toSend[m] \ {kind} \in SUBSET {"data", "end"}
      <4>1. toSend[m] \subseteq Kinds /\ (kind = "message" \/ "message" \notin toSend[m])
        BY <1>2, Parts DEF SendMoves
      <4> QED
        BY <4>1 DEF Kinds
    <3>2. toSend \in [Messages -> Wholes \cup SUBSET {"data", "end"}]
      BY DEF TypeOK
    <3> QED
      BY <1>3, <3>1, <3>2
  <2>2. using' \in [Channels -> Messages \cup {NoMessage}]
    BY <1>3 DEF TypeOK
  <2>3. Len(sent') <= MaxSent
    <3>1. Len(sent) \in Nat /\ Len(sent') = Len(sent) + 1
      BY <1>2, Parts DEF SendMoves
    <3> QED
      BY <1>3, <3>1, DeliveryAssumption
  <2> QED
    BY <1>3, <2>1, <2>2, <2>3 DEF TypeOK
<1>5. MoreTypes'
  <2>1. Cardinality(toSend[m] \cap {"data"}) \in Nat
    BY SizeOfOne
  <2>2. sent' \in Seq(Packet)
    BY <1>1, <1>3, <2>1 DEF MoreTypes, Packet
  <2> QED
    BY <1>3, <2>2 DEF MoreTypes
<1>6. WireInv'
  BY <1>1, <1>2, SendKeepsWire
<1>7. UsingInv'
  BY <1>1, <1>2, SendKeepsUsing
<1>8. ChannelInv'
  BY <1>1, <1>2, SendKeepsChannels
<1>9. \A x \in Messages, k \in Kinds : Left(x, k)' <=> Left(x, k)
  BY <1>2 DEF SendMoves
<1>10. OpenInv'
  BY <1>3, <1>9 DEF OpenInv, Open, Kinds
<1>11. KnownInv'
  <2>1. handled \subseteq Messages /\ Known' = Known
    BY <1>3 DEF TypeOK, Known
  <2> QED
    BY <1>3, <1>9, <2>1 DEF KnownInv, Kinds
<1> QED
  BY <1>4, <1>5, <1>6, <1>7, <1>8, <1>10, <1>11

LEMMA ReadKeepsInv == DeliveryInv /\ HandleReads => DeliveryInv'
<1> SUFFICES ASSUME DeliveryInv, HandleReads PROVE DeliveryInv'
  OBVIOUS
<1> USE DEF DeliveryInv
<1>1. PICK c \in Channels, m \in Messages, kind \in Kinds : ReadMoves(c, m, kind)
  BY Reading
<1>2. /\ UNCHANGED <<toSend, using, queue, buffered, pool, holds, handled, channelsCount>>
      /\ item' \in {item, NoMessage} \/ (item' = m /\ kind = "message")
  BY <1>1 DEF HandleReads, ReadPacket, ReadMoves, peerVars, applicationVars
<1>3. TypeOK'
  BY <1>2, Reading DEF TypeOK
<1>4. MoreTypes'
  BY <1>2, Reading DEF MoreTypes
<1>5. WireInv'
  BY <1>1, ReadKeepsWire
<1>6. UsingInv'
  BY <1>1, ReadKeepsUsing
<1>7. ChannelInv'
  BY <1>1, Reading, ReadKeepsChannels
<1>8. OpenInv'
  BY <1>1, ReadKeepsOpen
<1>9. KnownInv'
  <2>1. \A x \in Messages, k \in Kinds : Left(x, k)' <=> Left(x, k) /\ ~ (x = m /\ k = kind)
    BY <1>1 DEF ReadMoves
  <2>2. Known' \subseteq Known \cup {NoMessage, item'}
    BY <1>2 DEF Known
  <2>3. ASSUME NEW x \in Messages \cap Known'
        PROVE  ~ Left(x, "message")'
    <3>1. x \in Known \/ (x = m /\ kind = "message")
      BY <1>2, <2>2, DeliveryAssumption DEF Known
    <3> QED
      BY <2>1, <3>1 DEF KnownInv, Kinds
  <2>4. handled \subseteq Messages
    BY DEF TypeOK
  <2> QED
    BY <1>2, <2>1, <2>3, <2>4 DEF KnownInv
<1> QED
  BY <1>3, <1>4, <1>5, <1>6, <1>7, <1>8, <1>9

\* A step that neither sends nor reads changes only what the application knows.
LEMMA OthersKeepInv ==
  ASSUME DeliveryInv, UNCHANGED <<streamVars, toSend, using, buffered, pool>>,
         TypeOK', queue' \in Seq(Messages), KnownInv'
  PROVE  DeliveryInv'
<1>1. /\ UNCHANGED <<message, data, stream, sent, channelsCount, toSend, using, buffered>>
      /\ OnTheWay' = OnTheWay
  BY DEF streamVars, parserVars, OnTheWay
<1>2. MoreTypes'
  BY <1>1 DEF MoreTypes, DeliveryInv
<1>3. \A x, k : Left(x, k)' <=> Left(x, k)
  BY <1>1 DEF Left
<1>4. WireInv'
  BY <1>1 DEF WireInv, Left, DeliveryInv
<1>5. UsingInv'
  BY <1>1 DEF UsingInv, DeliveryInv
<1>6. ChannelInv'
  BY <1>1, <1>3 DEF ChannelInv, DeliveryInv
<1>7. OpenInv'
  BY <1>1, <1>3 DEF OpenInv, Open, DeliveryInv
<1> QED
  BY <1>2, <1>4, <1>5, <1>6, <1>7 DEF DeliveryInv

LEMMA ApplicationKeepsInv ==
  ASSUME DeliveryInv, Deliver \/ \E h \in pool : Receive(h) \/ Handle(h)
  PROVE  DeliveryInv'
<1> USE DEF DeliveryInv
<1>1. UNCHANGED <<streamVars, toSend, using, buffered, pool>>
  BY DEF Deliver, Receive, Handle, peerVars, applicationVars
<1>2. \A x, k : Left(x, k)' <=> Left(x, k)
  BY <1>1 DEF Left, streamVars, OnTheWay
<1>3. queue \in Seq(Messages) /\ handled \subseteq Messages
      /\ holds \in [pool -> Messages \cup {NoMessage}]
      /\ item \in Messages \cup {NoMessage} /\ Len(queue) <= buffered /\ buffered \in Nat
  BY DEF TypeOK, MoreTypes
<1>4. ASSUME item' \in Messages \cup {NoMessage}, queue' \in Seq(Messages), Len(queue') <= buffered,
             holds' \in [pool -> Messages \cup {NoMessage}], handled' \subseteq Messages,
             Known' \subseteq Known \cup {NoMessage},
             \A m \in handled' : \A kind \in Kinds : ~ Left(m, kind)
      PROVE  DeliveryInv'
  <2>1. TypeOK'
    <3>1. UNCHANGED <<message, sent, rejected, toSend, using, buffered, pool>>
      BY <1>1 DEF streamVars, parserVars
    <3> QED
      BY <1>4, <3>1 DEF TypeOK
  <2>2. KnownInv'
    <3>1. Messages \cap Known' \subseteq Messages \cap Known
      BY <1>4, DeliveryAssumption
    <3> QED
      BY <1>2, <1>4, <3>1 DEF KnownInv
  <2> QED
    BY <1>1, <1>4, <2>1, <2>2, OthersKeepInv
<1>5. CASE Deliver
  <2>1. /\ queue' = Append(queue, item) /\ item' = NoMessage /\ item \in Messages
        /\ UNCHANGED <<pool, holds, handled>> /\ Len(queue) < buffered
    BY <1>3, <1>5 DEF Deliver, applicationVars
  <2>2. queue' \in Seq(Messages) /\ Len(queue') <= buffered
    <3>1. Len(queue') = Len(queue) + 1 /\ Len(queue) \in Nat /\ queue' \in Seq(Messages)
      BY <1>3, <2>1
    <3> QED
      BY <1>3, <2>1, <3>1
  <2>3. Known' \subseteq Known \cup {NoMessage}
    <3>1. \A i \in 1..Len(queue') : queue'[i] = item \/ \E j \in 1..Len(queue) : queue'[i] = queue[j]
      BY <1>3, <2>1
    <3> QED
      BY <2>1, <3>1 DEF Known
  <2> QED
    BY <1>3, <1>4, <2>1, <2>2, <2>3 DEF KnownInv
<1>6. ASSUME NEW h \in pool, Receive(h)
      PROVE  DeliveryInv'
  <2>1. CASE queue # <<>>
    <3>1. /\ holds' = [holds EXCEPT ![h] = Head(queue)] /\ queue' = Tail(queue)
          /\ UNCHANGED <<item, pool, handled>>
      BY <1>6, <2>1 DEF Receive
    <3>2. /\ 1 \in 1..Len(queue) /\ Head(queue) = queue[1] /\ Head(queue) \in Messages
          /\ queue' \in Seq(Messages) /\ Len(queue') <= buffered
          /\ \A i \in 1..Len(queue') : i + 1 \in 1..Len(queue) /\ queue'[i] = queue[i + 1]
      <4>1. Len(queue) \in Nat /\ Len(queue) # 0 /\ Len(queue') = Len(queue) - 1
        BY <1>3, <2>1, <3>1
      <4>2. 1 \in 1..Len(queue) /\ Len(queue') <= buffered
            /\ \A i \in 1..Len(queue') : i + 1 \in 1..Len(queue)
        BY <1>3, <4>1
      <4> QED
        BY <1>3, <2>1, <3>1, <4>1, <4>2
    <3>3. \A g \in pool : holds'[g] = holds[g] \/ holds'[g] = queue[1]
      BY <1>3, <3>1, <3>2
    <3>4. Known' \subseteq Known
      <4>1. queue[1] \in Known
        BY <3>2 DEF Known
      <4>2. \A i \in 1..Len(queue') : queue'[i] \in Known
        BY <3>2 DEF Known
      <4>3. \A g \in pool' : holds'[g] \in Known
        BY <3>1, <3>3, <4>1 DEF Known
      <4> QED
        BY <3>1, <4>2, <4>3 DEF Known
    <3>5. holds' \in [pool -> Messages \cup {NoMessage}]
      BY <1>3, <3>1, <3>2
    <3> QED
      BY <1>3, <1>4, <3>1, <3>2, <3>4, <3>5 DEF KnownInv
  <2>2. CASE queue = <<>>
    <3>1. /\ holds' = [holds EXCEPT ![h] = item] /\ item' = NoMessage
          /\ UNCHANGED <<queue, pool, handled>>
      BY <1>6, <2>2 DEF Receive
    <3>2. \A g \in pool : holds'[g] = holds[g] \/ holds'[g] = item
      BY <1>3, <3>1
    <3>3. Known' \subseteq Known \cup {NoMessage}
      BY <3>1, <3>2 DEF Known
    <3> QED
      BY <1>3, <1>4, <3>1, <3>3 DEF KnownInv
  <2> QED
    BY <2>1, <2>2
<1>7. ASSUME NEW h \in pool, Handle(h)
      PROVE  DeliveryInv'
  <2>1. PICK m : m = holds[h]
    OBVIOUS
  <2>2. /\ m \in Messages /\ ~ Open(m) /\ handled' = handled \cup {m}
        /\ holds' = [holds EXCEPT ![h] = NoMessage]
        /\ UNCHANGED <<item, queue, pool>>
    BY <1>3, <1>7, <2>1 DEF Handle
  <2>3. m \in Known
    BY <2>1 DEF Known
  <2>4. \A kind \in Kinds : ~ Left(m, kind)
    BY <2>2, <2>3 DEF KnownInv, OpenInv, Kinds
  <2>5. \A g \in pool : holds'[g] = holds[g] \/ holds'[g] = NoMessage
    BY <1>3, <2>2
  <2>6. Known' \subseteq Known \cup {NoMessage}
    BY <2>2, <2>3, <2>5 DEF Known
  <2> QED
    BY <1>3, <1>4, <2>2, <2>4, <2>6 DEF KnownInv
<1> QED
  BY <1>5, <1>6, <1>7

LEMMA DeliveryStep == DeliveryInv /\ [Next]_vars => DeliveryInv'
<1> SUFFICES ASSUME DeliveryInv, [Next]_vars PROVE DeliveryInv'
  OBVIOUS
<1>1. CASE Peer
  BY <1>1, SendKeepsInv DEF Peer
<1>2. CASE HandleReads
  BY <1>2, ReadKeepsInv
<1>3. CASE Deliver \/ \E h \in pool : Receive(h) \/ Handle(h)
  BY <1>3, ApplicationKeepsInv
<1>4. CASE UNCHANGED vars
  <2>1. UNCHANGED <<streamVars, toSend, using, item, queue, buffered, pool, holds, handled>>
    BY <1>4 DEF vars, peerVars, applicationVars
  <2>2. TypeOK' /\ queue' \in Seq(Messages)
    BY <2>1 DEF DeliveryInv, TypeOK, MoreTypes, streamVars, parserVars
  <2>3. KnownInv'
    BY <2>1 DEF DeliveryInv, KnownInv, Known, Left, OnTheWay, streamVars
  <2> QED
    BY <2>1, <2>2, <2>3, OthersKeepInv
<1> QED
  BY <1>1, <1>2, <1>3, <1>4 DEF Next

LEMMA DeliveryAlways == DeliverySpec => []DeliveryInv
  BY DeliveryInit, DeliveryStep, PTL DEF DeliverySpec

-----------------------------------------------------------------------------
(* The theorems.                                                           *)

\* The variables keep their types, and the reader refuses nothing that a peer
\* sends who sends one message at a time on a channel.
THEOREM DeliveryTypeCorrect == DeliverySpec => []TypeOK
<1>1. DeliveryInv => TypeOK
  BY DEF DeliveryInv
<1> QED
  BY <1>1, DeliveryAlways, PTL

\* A handler that is through with a message has got all of it: Process of
\* parser_channel.go ends a message no earlier than its last part.
THEOREM HandledStaysWhole == DeliverySpec => []HandledIsWhole
<1>1. DeliveryInv => HandledIsWhole
  <2> SUFFICES ASSUME DeliveryInv, NEW m \in handled
               PROVE  toSend[m] = {} /\ \A i \in DOMAIN sent : sent[i].of # m
    BY DEF HandledIsWhole
  <2>1. m \in Messages /\ \A kind \in Kinds : ~ Left(m, kind)
    BY DEF DeliveryInv, KnownInv, TypeOK
  <2>2. toSend[m] \subseteq Kinds /\ \A i \in OnTheWay : sent[i].kind \in Kinds
    BY <2>1, Parts DEF DeliveryInv
  <2>3. DOMAIN sent = OnTheWay
    BY DEF DeliveryInv, MoreTypes, OnTheWay
  <2> QED
    BY <2>1, <2>2, <2>3 DEF Left
<1> QED
  BY <1>1, DeliveryAlways, PTL
===============================================================================
