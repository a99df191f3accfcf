------------------------------- MODULE Writer -------------------------------
(***************************************************************************)
(* The writer of writer.go: goroutines multiplex their packets over the    *)
(* channels of a ChannelManager onto one target.                           *)
(*                                                                         *)
(* Every call is cut at the points where another goroutine can get in      *)
(* between: taking channeledMu, each round of a channel search, taking     *)
(* writeMu, and each Write of the target.  One Write of the target is one  *)
(* step, as it is for a net.Conn.                                          *)
(*                                                                         *)
(* The wire is seen through the peer's parser: the channel it has selected *)
(* and the frame whose payload it still expects.  Those two and `torn` are *)
(* history, the code keeps no such state.                                  *)
(*                                                                         *)
(* A caller is one activity that owns at most one channel at a time and    *)
(* may share it among its goroutines, the way `send` of message_draft.go   *)
(* does.  The Call actions state the contract of package sockety: write at *)
(* the channel you own, give it back when nobody of you is writing.  That  *)
(* `send` keeps this contract is checked in MessageDraft.                  *)
(***************************************************************************)
EXTENDS ChannelManager

CONSTANTS
  Callers,         \* activities that own channels
  Roles,           \* names of the goroutines of one caller
  NoGoroutine,
  MayBreak         \* whether the target may start to fail

Goroutines == Callers \X Roles

ASSUME WriterAssumption ==
  /\ NoGoroutine \notin Goroutines
  /\ MayBreak \in BOOLEAN

NoChannel == -1

\* The methods of Writer.  "WriteAtChannel" stands for WriteRawAtChannel too
\* and "External" for WriteExternalWithSignatureAtChannel.
Ops == {"None", "Obtain", "Write", "WriteAndObtain", "WriteAtChannel",
        "WriteAndRelease", "External", "Standalone"}

VARIABLES
  channeledMu,   \* the goroutine that holds channeledMu
  writeMu,       \* the goroutine that holds writeMu
  pc,            \* where each goroutine is in its call
  op,            \* the method it is in
  ch,            \* the channel of that call
  err,           \* whether its last call returned an error
  channel,       \* the channel each caller owns
  broken,        \* the target fails every Write from now on
  wireChannel,   \* the channel selected by the packets on the wire
  wireFrame,     \* whose frame on the wire still lacks its payload
  torn           \* kinds of packets that got between a frame and its payload

callVars == <<pc, op, ch, err>>
wireVars == <<broken, wireChannel, wireFrame, torn>>
writerVars == <<channelVars, channeledMu, writeMu, callVars, channel, wireVars>>

Owner(g) == g[1]

PCs == {"idle", "lock", "search", "select", "switch", "packet", "payload",
        "standalone", "release"}

WriterTypeOK ==
  /\ current \in ChannelID
  /\ locks \in [ChannelID -> {0, 1}]
  /\ scanned \in 0..channelsCount
  /\ channeledMu \in Goroutines \cup {NoGoroutine}
  /\ writeMu \in Goroutines \cup {NoGoroutine}
  /\ pc \in [Goroutines -> PCs]
  /\ op \in [Goroutines -> Ops]
  /\ ch \in [Goroutines -> ChannelID \cup {NoChannel}]
  /\ err \in [Goroutines -> BOOLEAN]
  /\ channel \in [Callers -> ChannelID \cup {NoChannel}]
  /\ broken \in BOOLEAN
  /\ wireChannel \in ChannelID
  /\ wireFrame \in Goroutines \cup {NoGoroutine}
  /\ torn \in SUBSET {"channeled", "standalone"}

WriterInit ==
  /\ ChannelManagerInit
  /\ channeledMu = NoGoroutine
  /\ writeMu = NoGoroutine
  /\ pc = [g \in Goroutines |-> "idle"]
  /\ op = [g \in Goroutines |-> "None"]
  /\ ch = [g \in Goroutines |-> NoChannel]
  /\ err = [g \in Goroutines |-> FALSE]
  /\ channel = [t \in Callers |-> NoChannel]
  /\ broken = FALSE
  /\ wireChannel = 0
  /\ wireFrame = NoGoroutine
  /\ torn = {}

-----------------------------------------------------------------------------
(* Calls: what the callers may start.                                      *)

\* Calls that change which channel their caller owns.
ChangesOwner == {"Obtain", "WriteAndObtain", "WriteAndRelease"}

\* Calls made at the channel the caller owns.
AtOwnChannel == {"WriteAtChannel", "External", "WriteAndRelease"}

\* No goroutine of the caller is in a call that concerns its channel.
Quiet(t) == \A g \in Goroutines :
              Owner(g) = t => op[g] \in {"None", "Write", "Standalone"}

Call(g, o, c) ==
  /\ pc[g] = "idle"
  /\ pc' = [pc EXCEPT ![g] = IF o = "Standalone" THEN "standalone" ELSE "lock"]
  /\ op' = [op EXCEPT ![g] = o]
  /\ ch' = [ch EXCEPT ![g] = c]
  /\ err' = [err EXCEPT ![g] = FALSE]
  /\ UNCHANGED <<channelVars, channeledMu, writeMu, channel, wireVars>>

CallObtain(g) ==
  /\ channel[Owner(g)] = NoChannel
  /\ Quiet(Owner(g))
  /\ \E o \in {"Obtain", "WriteAndObtain"} : Call(g, o, NoChannel)

CallWrite(g) == Call(g, "Write", NoChannel)

CallStandalone(g) == Call(g, "Standalone", NoChannel)

CallAtChannel(g) ==
  /\ channel[Owner(g)] # NoChannel
  /\ \A h \in Goroutines : Owner(h) = Owner(g) => op[h] \notin ChangesOwner
  /\ \E o \in {"WriteAtChannel", "External"} : Call(g, o, channel[Owner(g)])

CallWriteAndRelease(g) ==
  /\ channel[Owner(g)] # NoChannel
  /\ Quiet(Owner(g))
  /\ Call(g, "WriteAndRelease", channel[Owner(g)])

\* ReleaseChannel takes no lock: one step of a caller.
ReleaseChannel(t) ==
  /\ channel[t] # NoChannel
  /\ Quiet(t)
  /\ Release(channel[t])
  /\ channel' = [channel EXCEPT ![t] = NoChannel]
  /\ UNCHANGED <<channeledMu, writeMu, callVars, wireVars>>

-----------------------------------------------------------------------------
(* Steps of the methods.                                                   *)

\* The call of g returns, with an error or without.
Finish(g, e) ==
  /\ pc' = [pc EXCEPT ![g] = "idle"]
  /\ op' = [op EXCEPT ![g] = "None"]
  /\ ch' = [ch EXCEPT ![g] = NoChannel]
  /\ err' = [err EXCEPT ![g] = e]

\* The write of g has ended and channeledMu is free again: what is left is the
\* ReleaseChannel of WriteAndReleaseChannel, or of a failed WriteAndObtainChannel.
FinishWrite(g, e) ==
  IF op[g] = "WriteAndRelease" \/ (op[g] = "WriteAndObtain" /\ e)
  THEN /\ pc' = [pc EXCEPT ![g] = "release"]
       /\ err' = [err EXCEPT ![g] = e]
       /\ UNCHANGED <<op, ch>>
  ELSE Finish(g, e)

LockChanneled(g) ==
  /\ pc[g] = "lock"
  /\ channeledMu = NoGoroutine
  /\ channeledMu' = g
  /\ pc' = [pc EXCEPT ![g] = IF ch[g] = NoChannel THEN "search" ELSE "select"]
  /\ UNCHANGED <<channelVars, writeMu, op, ch, err, channel, wireVars>>

SearchNext(g) ==
  /\ pc[g] = "search"
  /\ TryNext
  /\ UNCHANGED <<channeledMu, writeMu, callVars, channel, wireVars>>

\* ObtainChannel: Reserve returns, channeledMu is given up before anything is
\* written, and WriteAndObtainChannel has to take it again for its packet.
SearchReserve(g) ==
  /\ pc[g] = "search"
  /\ op[g] \in {"Obtain", "WriteAndObtain"}
  /\ \E c \in ChannelID :
       /\ Reserve(c)
       /\ channel' = [channel EXCEPT ![Owner(g)] = c]
       /\ IF op[g] = "Obtain"
          THEN Finish(g, FALSE)
          ELSE /\ pc' = [pc EXCEPT ![g] = "lock"]
               /\ ch' = [ch EXCEPT ![g] = c]
               /\ UNCHANGED <<op, err>>
  /\ channeledMu' = NoGoroutine
  /\ UNCHANGED <<writeMu, wireVars>>

\* Write: GetFree returns and channeledMu stays held.
SearchFree(g) ==
  /\ pc[g] = "search"
  /\ op[g] = "Write"
  /\ \E c \in ChannelID :
       /\ GetFree(c)
       /\ ch' = [ch EXCEPT ![g] = c]
  /\ pc' = [pc EXCEPT ![g] = "select"]
  /\ UNCHANGED <<channeledMu, writeMu, op, err, channel, wireVars>>

\* unsafeWriteAtChannel up to its writeMu.Lock.  The writer takes its channel
\* for the current one before the switch packet is written.
Select(g) ==
  /\ pc[g] = "select"
  /\ writeMu = NoGoroutine
  /\ writeMu' = g
  /\ SetCurrent(ch[g])
  /\ pc' = [pc EXCEPT ![g] = IF current = ch[g] THEN "packet" ELSE "switch"]
  /\ UNCHANGED <<channeledMu, op, ch, err, channel, wireVars>>

\* A Write of the target gets through, maybe into somebody's open frame.
Land(kind) ==
  /\ ~ broken
  /\ torn' = IF wireFrame = NoGoroutine THEN torn ELSE torn \cup {kind}
  /\ UNCHANGED broken

WriteSwitch(g) ==
  /\ pc[g] = "switch"
  /\ Land("channeled")
  /\ wireChannel' = ch[g]
  /\ pc' = [pc EXCEPT ![g] = "packet"]
  /\ UNCHANGED <<channelVars, channeledMu, writeMu, op, ch, err, channel, wireFrame>>

\* Mutant: channeledMu is given up before the data of an external frame.
WritePacketUnlocks(g) ==
  /\ pc[g] = "packet"
  /\ Land("channeled")
  /\ writeMu' = NoGoroutine
  /\ channeledMu' = NoGoroutine
  /\ IF op[g] = "External"
     THEN /\ wireFrame' = g
          /\ pc' = [pc EXCEPT ![g] = "payload"]
          /\ UNCHANGED <<op, ch, err>>
     ELSE /\ FinishWrite(g, FALSE)
          /\ UNCHANGED wireFrame
  /\ UNCHANGED <<channelVars, channel, wireChannel>>

\* The packet of g, or the header of its external data: writeMu is given up
\* after either, channeledMu stays held until the data has followed.
WritePacket(g) ==
  /\ pc[g] = "packet"
  /\ Land("channeled")
  /\ writeMu' = NoGoroutine
  /\ IF op[g] = "External"
     THEN /\ wireFrame' = g
          /\ pc' = [pc EXCEPT ![g] = "payload"]
          /\ UNCHANGED <<channeledMu, op, ch, err>>
     ELSE /\ channeledMu' = NoGoroutine
          /\ FinishWrite(g, FALSE)
          /\ UNCHANGED wireFrame
  /\ UNCHANGED <<channelVars, channel, wireChannel>>

\* The data of an external frame: unsafeWriteRaw, without writeMu.
WritePayload(g) ==
  /\ pc[g] = "payload"
  /\ ~ broken
  /\ wireFrame' = NoGoroutine
  /\ channeledMu' = NoGoroutine
  /\ FinishWrite(g, FALSE)
  /\ UNCHANGED <<channelVars, writeMu, channel, broken, wireChannel, torn>>

\* Mutant: the error path of an external frame does not unlock channeledMu.
WriteFailsLocked(g) ==
  /\ pc[g] \in {"switch", "packet", "payload"}
  /\ broken
  /\ writeMu' = IF pc[g] = "payload" THEN writeMu ELSE NoGoroutine
  /\ channeledMu' = IF op[g] = "External" THEN channeledMu ELSE NoGoroutine
  /\ FinishWrite(g, TRUE)
  /\ UNCHANGED <<channelVars, channel, wireVars>>

\* A Write of the target fails; every lock is given up, the switch made in
\* Select is not taken back.
WriteFails(g) ==
  /\ pc[g] \in {"switch", "packet", "payload"}
  /\ broken
  /\ writeMu' = IF pc[g] = "payload" THEN writeMu ELSE NoGoroutine
  /\ channeledMu' = NoGoroutine
  /\ FinishWrite(g, TRUE)
  /\ UNCHANGED <<channelVars, channel, wireVars>>

\* WriteStandalone, under writeMu for one Write of the target.
WriteStandalone(g) ==
  /\ pc[g] = "standalone"
  /\ writeMu = NoGoroutine
  /\ IF broken THEN UNCHANGED <<broken, torn>> ELSE Land("standalone")
  /\ Finish(g, broken)
  /\ UNCHANGED <<channelVars, channeledMu, writeMu, channel, wireChannel, wireFrame>>

\* The ReleaseChannel inside WriteAndReleaseChannel and WriteAndObtainChannel.
ReleaseOwn(g) ==
  /\ pc[g] = "release"
  /\ Release(ch[g])
  /\ channel' = [channel EXCEPT ![Owner(g)] = NoChannel]
  /\ Finish(g, err[g])
  /\ UNCHANGED <<channeledMu, writeMu, wireVars>>

\* The target starts to fail, for good.
Break ==
  /\ MayBreak
  /\ ~ broken
  /\ broken' = TRUE
  /\ UNCHANGED <<channelVars, channeledMu, writeMu, callVars, channel,
                 wireChannel, wireFrame, torn>>

-----------------------------------------------------------------------------
WriterCall(g) ==
  \/ CallObtain(g)
  \/ CallWrite(g)
  \/ CallStandalone(g)
  \/ CallAtChannel(g)
  \/ CallWriteAndRelease(g)

WriterStep(g) ==
  \/ LockChanneled(g)
  \/ SearchNext(g)
  \/ SearchReserve(g)
  \/ SearchFree(g)
  \/ Select(g)
  \/ WriteSwitch(g)
  \/ WritePacket(g)
  \/ WritePayload(g)
  \/ WriteFails(g)
  \/ WriteStandalone(g)
  \/ ReleaseOwn(g)

WriterNext ==
  \/ \E g \in Goroutines : WriterCall(g) \/ WriterStep(g)
  \/ \E t \in Callers : ReleaseChannel(t)
  \/ Break

WriterSpec == WriterInit /\ [][WriterNext]_writerVars

-----------------------------------------------------------------------------
(* Properties.                                                             *)

\* The locks array of the channel manager and the callers agree: a channel is
\* reserved exactly while one caller owns it, and never by two (Reserve,
\* Release and every method that calls them).
ExclusiveReservation ==
  /\ \A c \in ChannelID : locks[c] = 1 <=> \E t \in Callers : channel[t] = c
  /\ \A t, u \in Callers : t # u /\ channel[t] = channel[u] => channel[t] = NoChannel

\* While a goroutine writes a packet or the data of a frame, the peer has
\* selected the channel the goroutine means.  That channel belongs to its own
\* caller or, for Write, which reserves nothing, to nobody (unsafeWriteAtChannel
\* relies on `current`, Write on channeledMu to keep a free channel free).
PacketOnRightChannel ==
  \A g \in Goroutines :
    pc[g] \in {"packet", "payload"} /\ ~ broken =>
      /\ wireChannel = ch[g]
      /\ \A t \in Callers : channel[t] = ch[g] => t = Owner(g) /\ op[g] # "Write"

\* Nothing that goes through channeledMu gets between the header and the data
\* of an external frame (WriteExternalWithSignatureAtChannel keeps channeledMu
\* over both), and the frame on the wire is the one of the goroutine that is
\* about to write data.
ChanneledFramesIntact ==
  /\ "channeled" \notin torn
  /\ \A g \in Goroutines : pc[g] = "payload" /\ ~ broken => wireFrame = g

\* Nothing at all gets between the header and the data of an external frame.
\* It does not hold: the data is written without writeMu, which is all that
\* WriteStandalone takes.
FramesIntact == torn = {}
=============================================================================
