---------------------------- MODULE ParserChannel ---------------------------
(***************************************************************************)
(* The receiving side of parser.go and parser_channel.go, packet by packet:*)
(* what each channel of the peer is in the middle of, and what it has      *)
(* given to each message.  A packet acts on the channel selected by the    *)
(* last switch packet.                                                     *)
(*                                                                         *)
(* Bytes arrive in pieces and every piece is a call of Read, but nothing   *)
(* the parser keeps depends on where the pieces end, so one step per       *)
(* packet reads the packet whole.                                          *)
(***************************************************************************)
EXTENDS Sequences

CONSTANTS Channels, Messages, NoMessage

VARIABLES
  message,      \* the message each channel is receiving
  data,         \* its data: "none", or "pending" until all of it came
  stream,       \* its stream: "none", or "open" until StreamEnd, then "done"
  got,          \* the parts each message was given, in order
  rejected      \* the parser has returned an error, conn.handle panics

parserVars == <<message, data, stream, got, rejected>>

ParserInit ==
  /\ message = [c \in Channels |-> NoMessage]
  /\ data = [c \in Channels |-> "none"]
  /\ stream = [c \in Channels |-> "none"]
  /\ got = [m \in Messages |-> <<>>]
  /\ rejected = FALSE

\* One part of a message: which message it was sent for, and what it is.
Part(m, kind) == [of |-> m, kind |-> kind]

\* The message on channel c gets a part that was sent for m.
Give(c, m, kind) == got' = [got EXCEPT ![message[c]] = Append(@, Part(m, kind))]

\* Mutant: the stream of an ended message is kept.
maybeEndKeepsStream(c, m, d, s) ==
  LET ended == d = "none" /\ s # "open"
  IN  /\ message' = [message EXCEPT ![c] = IF ended THEN NoMessage ELSE m]
      /\ data' = [data EXCEPT ![c] = d]
      /\ stream' = [stream EXCEPT ![c] = s]

\* Mutant: a message ends with its data or its stream, whichever is first.
maybeEndEarly(c, m, d, s) ==
  LET ended == d = "none" \/ s # "open"
  IN  /\ message' = [message EXCEPT ![c] = IF ended THEN NoMessage ELSE m]
      /\ data' = [data EXCEPT ![c] = IF ended THEN "none" ELSE d]
      /\ stream' = [stream EXCEPT ![c] = IF ended THEN "none" ELSE s]

\* Channel c goes on with message m, or is idle again when neither its data
\* nor its stream is awaited any more.
maybeEnd(c, m, d, s) ==
  LET ended == d = "none" /\ s # "open"
  IN  /\ message' = [message EXCEPT ![c] = IF ended THEN NoMessage ELSE m]
      /\ data' = [data EXCEPT ![c] = d]
      /\ stream' = [stream EXCEPT ![c] = IF ended THEN "none" ELSE s]

Reject ==
  /\ rejected' = TRUE
  /\ UNCHANGED <<message, data, stream, got>>

\* A Message packet: "channel is already processing" when it is not idle.
InitMessage(c, m, hasData, hasStream) ==
  IF message[c] # NoMessage
  THEN Reject
  ELSE /\ maybeEnd(c, m, IF hasData THEN "pending" ELSE "none",
                         IF hasStream THEN "open" ELSE "none")
       /\ got' = [got EXCEPT ![m] = Append(@, Part(m, "message"))]
       /\ UNCHANGED rejected

\* A Data packet carries all the data of its message.
ProcessData(c, m) ==
  IF data[c] = "none"
  THEN Reject
  ELSE /\ maybeEnd(c, message[c], "none", stream[c])
       /\ Give(c, m, "data")
       /\ UNCHANGED rejected

\* A Stream packet leaves the channel as it is.
ProcessStream(c, m) ==
  IF stream[c] # "open"
  THEN Reject
  ELSE /\ Give(c, m, "chunk")
       /\ UNCHANGED <<message, data, stream, rejected>>

\* A StreamEnd packet.  Closing a stream again is harmless; where there is
\* none the code dereferences nil.
EndStream(c, m) ==
  IF stream[c] = "none"
  THEN Reject
  ELSE /\ maybeEnd(c, message[c], data[c], "done")
       /\ IF stream[c] = "open" THEN Give(c, m, "end") ELSE UNCHANGED got
       /\ UNCHANGED rejected
=============================================================================
