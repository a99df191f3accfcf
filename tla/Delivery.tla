------------------------------- MODULE Delivery -------------------------------
(***************************************************************************)
(* From the wire to the application: the packets of a peer (PacketStream), *)
(* the goroutine `handle`, which hands messages over and reads nothing     *)
(* meanwhile, the channel c.messages, and an application whose handlers    *)
(* read all of a message before they receive the next one.  A single       *)
(* handler is the loop `for m := range c.Messages()`; a goroutine for each *)
(* message, as in the benchmarks, is a handler for each message.           *)
(*                                                                         *)
(* push never waits, so what a handler reads first makes no difference: it *)
(* is through with a message when the parser is.  The peer's senders are   *)
(* those of MessageDraft: one message at a time on a channel.              *)
(***************************************************************************)
EXTENDS FiniteSets, PacketStream

CONSTANTS
  Handlers,     \* goroutines of the application that may handle messages
  Buffers,      \* values of BufferedMessages
  MaxSent       \* bound: packets on the way

ASSUME DeliveryAssumption ==
  /\ IsFiniteSet(Handlers)
  /\ Buffers \subseteq Nat
  /\ MaxSent \in Nat
  /\ Channels \subseteq Nat /\ IsFiniteSet(Channels)
  /\ NoMessage \notin Messages

VARIABLES
  toSend,       \* parts of each message that the peer has not sent
  using,        \* the message the peer is sending on each channel
  item,         \* the message handle is delivering
  queue,        \* c.messages
  buffered,     \* its capacity, fixed at the start
  pool,         \* the handlers there are, fixed at the start
  holds,        \* the message each of them is at
  handled       \* messages that were read to their end

peerVars == <<toSend, using>>
applicationVars == <<buffered, pool, holds, handled>>
vars == <<streamVars, peerVars, item, queue, applicationVars>>

\* A message in parts.  Chunks are left out: no reader waits for one, and the
\* parser is where it was after it.
Wholes == {{"message"} \cup parts : parts \in SUBSET {"data", "end"}}

TypeOK ==
  /\ toSend \in [Messages -> Wholes \cup SUBSET {"data", "end"}]
  /\ using \in [Channels -> Messages \cup {NoMessage}]
  /\ message \in [Channels -> Messages \cup {NoMessage}]
  /\ item \in Messages \cup {NoMessage}
  /\ Len(sent) <= MaxSent
  /\ Len(queue) <= buffered
  /\ holds \in [pool -> Messages \cup {NoMessage}]
  /\ handled \subseteq Messages
  /\ ~ rejected

Init ==
  /\ ParserInit
  /\ sent = <<>>
  /\ channelsCount \in 1..Cardinality(Channels)
  /\ toSend \in [Messages -> Wholes]
  /\ using = [c \in Channels |-> NoMessage]
  /\ item = NoMessage
  /\ queue = <<>>
  /\ buffered \in Buffers
  /\ pool \in SUBSET Handlers \ {{}}
  /\ holds = [h \in pool |-> NoMessage]
  /\ handled = {}

-----------------------------------------------------------------------------

\* The peer sends a part of m on channel c, which m has from its Message packet
\* to its last one.
PeerSends(c, m, kind) ==
  /\ Len(sent) < MaxSent
  /\ c < channelsCount
  /\ using[c] = IF "message" \in toSend[m] THEN NoMessage ELSE m
  /\ kind = "message" \/ "message" \notin toSend[m]
  /\ toSend' = [toSend EXCEPT ![m] = @ \ {kind}]
  /\ using' = [using EXCEPT ![c] = IF toSend'[m] = {} THEN NoMessage ELSE m]
  /\ sent' = Append(sent, [kind |-> kind, channel |-> c, of |-> m, size |-> 1,
                           data |-> Cardinality(toSend[m] \cap {"data"}),
                           stream |-> "end" \in toSend[m]])
  /\ UNCHANGED <<parserVars, channelsCount, item, queue, applicationVars>>

\* handle reads the next packet; the parser returns a message with its header.
HandleReads ==
  /\ item = NoMessage
  /\ ReadPacket
  /\ item' = IF Head(sent).kind = "message" /\ ~ rejected' THEN Head(sent).of ELSE NoMessage
  /\ UNCHANGED <<peerVars, queue, applicationVars>>

\* Mutant: a message that nobody receives at once is dropped, as responses are.
DeliverOptional ==
  /\ item # NoMessage
  /\ item' = NoMessage
  /\ queue' = IF Len(queue) < buffered THEN Append(queue, item) ELSE queue
  /\ UNCHANGED <<streamVars, peerVars, applicationVars>>

\* Mutant: there is room for one message more.
DeliverOneMore ==
  /\ item # NoMessage
  /\ Len(queue) <= buffered
  /\ queue' = Append(queue, item)
  /\ item' = NoMessage
  /\ UNCHANGED <<streamVars, peerVars, applicationVars>>

\* c.messages <- item, into the buffer.
Deliver ==
  /\ item # NoMessage
  /\ Len(queue) < buffered
  /\ queue' = Append(queue, item)
  /\ item' = NoMessage
  /\ UNCHANGED <<streamVars, peerVars, applicationVars>>

\* An idle handler receives, out of the buffer or from handle.
Receive(h) ==
  /\ holds[h] = NoMessage
  /\ \/ /\ queue # <<>>
        /\ holds' = [holds EXCEPT ![h] = Head(queue)]
        /\ queue' = Tail(queue)
        /\ UNCHANGED item
     \/ /\ queue = <<>>
        /\ item # NoMessage
        /\ holds' = [holds EXCEPT ![h] = item]
        /\ item' = NoMessage
        /\ UNCHANGED queue
  /\ UNCHANGED <<streamVars, peerVars, buffered, pool, handled>>

\* Parts of m are still awaited: a Read of its data or its stream waits.
Open(m) == \E c \in Channels : message[c] = m

\* The handler has met EOF in the data and in the stream.
Handle(h) ==
  /\ holds[h] # NoMessage
  /\ ~ Open(holds[h])
  /\ handled' = handled \cup {holds[h]}
  /\ holds' = [holds EXCEPT ![h] = NoMessage]
  /\ UNCHANGED <<streamVars, peerVars, item, queue, buffered, pool>>

Peer == \E c \in Channels, m \in Messages : \E kind \in toSend[m] : PeerSends(c, m, kind)

Next ==
  \/ Peer
  \/ HandleReads
  \/ Deliver
  \/ \E h \in pool : Receive(h) \/ Handle(h)

DeliverySpec == Init /\ [][Next]_vars

\* The peer goes on with what it has begun, and so do handle and the handlers.
FairSpec ==
  /\ DeliverySpec
  /\ WF_vars(Peer)
  /\ WF_vars(HandleReads)
  /\ WF_vars(Deliver)
  /\ \A h \in Handlers : WF_vars(h \in pool /\ (Receive(h) \/ Handle(h)))

-----------------------------------------------------------------------------
(* Properties.                                                             *)

\* A handler that has read a message to its end has got all the peer sent of
\* it, however the parts of several messages came in between each other.
HandledIsWhole ==
  \A m \in handled : /\ toSend[m] = {}
                     /\ \A i \in DOMAIN sent : sent[i].of # m

\* An application with as many handlers as the peer has channels handles every
\* message.  handle reads nothing while it delivers, so a handler may wait for
\* parts that come after a message nobody receives; but then the messages that
\* are open, one for each channel at most, do not keep all handlers.  With fewer
\* handlers everyone may wait for everyone.
EverythingHandled ==
  Cardinality(pool) >= channelsCount => <>(handled = Messages)
=============================================================================
