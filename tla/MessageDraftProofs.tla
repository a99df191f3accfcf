-------------------------- MODULE MessageDraftProofs --------------------------
(***************************************************************************)
(* What holds of sending messages for every number of messages, channels,  *)
(* users of a stream and chunks.                                           *)
(*                                                                         *)
(* DraftInv is inductive.  It takes the invariant of the writer as it is   *)
(* (Inv of WriterProofs), which is possible because `send` keeps the       *)
(* writer's contract, and adds                                             *)
(*   PlacesInv   where the goroutines of one send can be together,         *)
(*   OpsInv      which call of the writer each of them is in,              *)
(*   OwnsInv     when a message has a channel,                             *)
(*   NoErrInv    no error without a broken target,                         *)
(*   PeerInv     what the peer's parser has on each channel, from the      *)
(*               places of the sender that owns it,                        *)
(*   BeforeInv   the peer was given nothing that is not written yet.       *)
(* LostInv, with MessageInv, is for SuccessMeansSent and the refinement of  *)
(* MessageExchange: what is written was given to the peer, unless an error *)
(* is on its way to the result of the send.  SearchInv is for              *)
(* NeverOutOfChannels: it counts the channels a search may still find      *)
(* reserved.                                                               *)
(***************************************************************************)
EXTENDS MessageDraft, WriterProofs, FiniteSetTheorems

Writing(u) == userAt[u] \in {"chunk", "end"}

\* The Message packet of t is written or has failed; the same for the data and
\* the end of the stream.
MessageOut(t) ==
  \/ send[t].main \in {"simulate", "assigned", "failed", "wait"}
  \/ send[t].main = "message" /\ pc[main(t)] = "idle"

Started(t) ==
  \/ MessageOut(t)
  \/ send[t].main = "fast" /\ pc[main(t)] = "idle"
  \/ send[t].main = "returned"

DataOut(t) ==
  \/ send[t].data \in {"assigned", "failed", "done"}
  \/ send[t].data = "writing" /\ pc[dataOf(t)] = "idle"

EndOut(t) ==
  IF draft[t].stream = "simulated"
  THEN \/ send[t].main \in {"assigned", "failed", "wait", "returned"}
       \/ send[t].main = "simulate" /\ pc[main(t)] = "idle"
  ELSE \/ sw[t].done
       \/ \E u \in UserGoroutines : Owner(u) = t /\ userAt[u] = "end" /\ pc[u] = "idle"

\* What the peer still has to expect of t.
DataDue(t) == MessageOut(t) /\ draft[t].data /\ ~ DataOut(t)
EndDue(t) == MessageOut(t) /\ HasStream(t) /\ ~ EndOut(t)

-----------------------------------------------------------------------------
\* The goroutine of send before the parts, in the middle of them and at the end.
MainInv ==
  \A t \in Callers :
    /\ send[t].main = "fast" => ~ draft[t].data /\ ~ HasStream(t)
    /\ send[t].main \in {"obtain", "message", "simulate", "assigned", "failed", "wait"} =>
         draft[t].data \/ HasStream(t)
    /\ send[t].main \in {"simulate", "assigned", "failed"} => draft[t].stream = "simulated"
    /\ send[t].main \in {"new", "fast", "obtain", "message"} =>
         send[t].data = "off" /\ send[t].waiter = "off" /\ ~ sw[t].done
    /\ send[t].main \in {"simulate", "assigned", "failed", "wait"} =>
         /\ draft[t].data => send[t].data # "off"
         /\ Requested(t) => send[t].waiter # "off"
    /\ send[t].main = "returned" <=> send[t].result # "none"
    /\ send[t].main = "returned" => PartsDone(t)
    /\ send[t].data # "off" => draft[t].data
    /\ send[t].waiter # "off" => Requested(t)

\* The stream writer: only the waiter's send has it open, one user at a time is
\* in it, and once the waiter has seen it done nobody enters it again.
StreamInv ==
  \A t \in Callers :
    /\ ~ sw[t].mu => send[t].waiter # "off"
    /\ sw[t].done => send[t].waiter # "off"
    /\ send[t].waiter \in {"assigned", "failed", "done"} => sw[t].done
    /\ \A u \in UserGoroutines : Owner(u) = t /\ Writing(u) =>
         /\ sw[t].mu /\ ~ sw[t].done /\ send[t].waiter = "wait"
         /\ \A v \in UserGoroutines : Owner(v) = t /\ Writing(v) => v = u

PlacesInv == MainInv /\ StreamInv

OpsInv ==
  /\ \A t \in Callers :
       /\ \/ op[main(t)] = "None"
          \/ send[t].main = "fast" /\ op[main(t)] = "Write"
          \/ send[t].main = "obtain" /\ op[main(t)] = "Obtain"
          \/ send[t].main \in {"message", "simulate"} /\ op[main(t)] = "WriteAtChannel"
       /\ \/ op[dataOf(t)] = "None"
          \/ send[t].data = "writing" /\ op[dataOf(t)] = "External"
  /\ \A u \in UserGoroutines :
       \/ op[u] = "None"
       \/ userAt[u] = "chunk" /\ op[u] = "External"
       \/ userAt[u] = "end" /\ op[u] = "WriteAtChannel"

OwnsInv ==
  \A t \in Callers :
    /\ send[t].main \in {"new", "fast"} => channel[t] = NoChannel
    /\ send[t].main = "obtain" /\ pc[main(t)] = "idle" => channel[t] # NoChannel
    /\ send[t].main \in {"message", "simulate", "assigned", "failed", "wait"} => channel[t] # NoChannel

NoErrInv ==
  ~ broken =>
    /\ \A g \in Goroutines : ~ err[g]
    /\ \A t \in Callers :
         ~ sw[t].err /\ ~ send[t].err /\ ~ send[t].finalErr /\ send[t].result # "error"

PeerInv ==
  /\ ~ rejected
  /\ ~ broken => \A c \in ChannelID :
       /\ (\A t \in Callers : channel[t] # c) =>
            message[c] = NoMessage /\ data[c] = "none" /\ stream[c] = "none"
       /\ \A t \in Callers : channel[t] = c =>
            /\ message[c] = IF DataDue(t) \/ EndDue(t) THEN t ELSE NoMessage
            /\ data[c] = IF DataDue(t) THEN "pending" ELSE "none"
            /\ stream[c] = IF EndDue(t) THEN "open"
                           ELSE IF HasStream(t) /\ DataDue(t) THEN "done" ELSE "none"

BeforeInv ==
  \A t \in Callers :
    /\ ~ Started(t) => got[t] = <<>>
    /\ ~ broken =>
         /\ Exchange!Has(t, "data") => DataOut(t)
         /\ Exchange!Has(t, "end") => EndOut(t)

GotTypeOK == got \in [Callers -> Seq([of : Callers, kind : {"message", "data", "chunk", "end"}])]

DraftInv ==
  /\ TypeOK /\ GotTypeOK
  /\ Inv
  /\ PlacesInv
  /\ OpsInv
  /\ OwnsInv
  /\ NoErrInv
  /\ PeerInv
  /\ BeforeInv

\* No error is overwritten: there are none, or each message has one part at most
\* besides its Message packet.
NoLostError == ~ MayBreak \/ \A d \in Drafts : ~ d.data \/ d.stream = "none"

\* A Message packet that is written has been given to the peer.
MessageInv ==
  \A t \in Callers :
    /\ send[t].main \in {"fast", "message"} /\ pc[main(t)] = "idle" =>
         err[main(t)] \/ Exchange!Has(t, "message")
    /\ send[t].main \in {"simulate", "assigned", "failed", "wait"} => Exchange!Has(t, "message")

\* A part that is written has been given to the peer, or there is an error: in
\* the call, in `err` of send or of the stream writer, or in finalErr.
PartsInv ==
  \A t \in Callers :
    /\ send[t].data = "writing" /\ pc[dataOf(t)] = "idle" =>
         err[dataOf(t)] \/ Exchange!Has(t, "data")
    /\ send[t].data = "assigned" => send[t].err \/ Exchange!Has(t, "data")
    /\ send[t].data = "failed" => send[t].err
    /\ send[t].data = "done" => send[t].finalErr \/ Exchange!Has(t, "data")
    /\ send[t].main = "simulate" /\ pc[main(t)] = "idle" =>
         err[main(t)] \/ Exchange!Has(t, "end")
    /\ send[t].main = "assigned" => send[t].err \/ Exchange!Has(t, "end")
    /\ send[t].main = "failed" => send[t].err
    /\ send[t].main = "wait" /\ draft[t].stream = "simulated" =>
         send[t].finalErr \/ Exchange!Has(t, "end")
    /\ \A u \in UserGoroutines : Owner(u) = t /\ userAt[u] = "end" /\ pc[u] = "idle" =>
         err[u] \/ Exchange!Has(t, "end")
    /\ sw[t].done => sw[t].err \/ Exchange!Has(t, "end")
    /\ send[t].waiter = "assigned" => send[t].err \/ Exchange!Has(t, "end")
    /\ send[t].waiter = "failed" => send[t].err
    /\ send[t].waiter = "done" => send[t].finalErr \/ Exchange!Has(t, "end")

LostInv ==
  /\ ~ MayBreak => ~ broken
  /\ PartsInv
  /\ SuccessMeansSent

\* The messages whose channel a running search has still to come across; the
\* one that searches is never among them.
Ahead ==
  {t \in Callers : \E i \in scanned..(channelsCount - 1) : channel[t] = Candidate(i)}

SearchInv ==
  /\ (\A g \in Goroutines : pc[g] # "search") => scanned = 0
  /\ \A g \in Goroutines : pc[g] = "search" =>
       scanned + Cardinality(Ahead) <= Cardinality(Callers) - 1

\* A returned send that still owns its channel has not got its Message packet out.
ReleasedInv ==
  /\ \A t \in Callers : send[t].main = "message" /\ err[main(t)] => got[t] = <<>>
  /\ ReleasedUnlessMessageFailed

-----------------------------------------------------------------------------
(* Goroutines.                                                             *)

LEMMA GoroutineKinds ==
  /\ \A t \in Callers :
       /\ main(t) \in Goroutines /\ Owner(main(t)) = t
       /\ dataOf(t) \in Goroutines /\ Owner(dataOf(t)) = t
       /\ main(t) \notin UserGoroutines /\ dataOf(t) \notin UserGoroutines
       /\ \A u \in Callers : main(t) # dataOf(u)
       /\ \A u \in Callers : t # u => main(t) # main(u) /\ dataOf(t) # dataOf(u)
  /\ \A u \in UserGoroutines : u \in Goroutines /\ Owner(u) \in Callers
  /\ \A g \in Goroutines :
       /\ Owner(g) \in Callers
       /\ g = main(Owner(g)) \/ g = dataOf(Owner(g)) \/ g \in UserGoroutines
BY MessageDraftAssumption DEF main, dataOf, Owner, Goroutines, UserGoroutines

-----------------------------------------------------------------------------
(* A step of the writer, as far as it matters to send.                     *)

DraftOps == {"None", "Write", "Obtain", "WriteAtChannel", "External"}

\* The call of g goes on.
Continues(g) ==
  /\ ~ Completes(g)
  /\ pc'[g] # "idle"
  /\ UNCHANGED <<op, err, channel>>

\* The call of g returns: with a channel, with its packet written, or failed.
Obtained(g) ==
  /\ op[g] = "Obtain"
  /\ ~ Completes(g)
  /\ pc'[g] = "idle" /\ op'[g] = "None" /\ ~ err'[g]
  /\ channel[Owner(g)] = NoChannel
  /\ \E c \in ChannelID :
       /\ \A t \in Callers : channel[t] # c
       /\ channel' = [channel EXCEPT ![Owner(g)] = c]

Written(g) ==
  /\ op[g] # "Obtain"
  /\ Completes(g)
  /\ pc'[g] = "idle" /\ op'[g] = "None" /\ ~ err'[g]
  /\ channel' = channel
  /\ wireChannel \in ChannelID
  /\ IF op[g] = "Write" THEN \A t \in Callers : channel[t] # wireChannel
                        ELSE channel[Owner(g)] = wireChannel

Failed(g) ==
  /\ op[g] # "Obtain"
  /\ broken
  /\ ~ Completes(g)
  /\ pc'[g] = "idle" /\ op'[g] = "None" /\ err'[g]
  /\ channel' = channel

LEMMA StepOfWriter ==
  ASSUME Inv, NEW g \in Goroutines, op[g] \in DraftOps, WriterStep(g)
  PROVE  /\ pc[g] # "idle" /\ op[g] # "None"
         /\ broken' = broken
         /\ \A h \in Goroutines :
              h # g => pc'[h] = pc[h] /\ op'[h] = op[h] /\ err'[h] = err[h]
         /\ Continues(g) \/ Obtained(g) \/ Written(g) \/ Failed(g)
<1> USE DEF Inv, WriterTypeOK, CallInv, DraftOps
<1>0. pc[g] # "idle" <=> op[g] # "None"
  OBVIOUS
<1>1. CASE LockChanneled(g)
  BY <1>0, <1>1 DEF LockChanneled, Continues, Completes, wireVars
<1>2. CASE SearchNext(g)
  BY <1>0, <1>2 DEF SearchNext, Continues, Completes, wireVars, callVars
<1>3. CASE SearchReserve(g)
  <2>1. PICK c \in ChannelID : Reserve(c) /\ channel' = [channel EXCEPT ![Owner(g)] = c]
                               /\ Finish(g, FALSE) /\ op[g] = "Obtain" /\ pc[g] = "search"
    BY <1>3 DEF SearchReserve
  <2>2. \A t \in Callers : channel[t] # c
    BY <2>1, WriterAssumption DEF Reserve, obtainLock, isTemporarilyFree, ExclusiveReservation
  <2>3. channel[Owner(g)] = NoChannel
    BY <2>1
  <2> QED
    BY <1>0, <1>3, <2>1, <2>2, <2>3 DEF SearchReserve, Finish, Obtained, Completes, wireVars
<1>4. CASE SearchFree(g)
  BY <1>0, <1>4 DEF SearchFree, Continues, Completes, wireVars
<1>5. CASE Select(g)
  BY <1>0, <1>5 DEF Select, Continues, Completes, wireVars
<1>6. CASE WriteSwitch(g)
  BY <1>0, <1>6 DEF WriteSwitch, Land, Continues, Completes
<1>7. CASE WritePacket(g) /\ op[g] = "External"
  BY <1>0, <1>7 DEF WritePacket, Land, Continues, Completes
<1>8. CASE (WritePacket(g) /\ op[g] # "External") \/ WritePayload(g)
  <2>1. pc[g] \in {"packet", "payload"} /\ ~ broken
    BY <1>8 DEF WritePacket, WritePayload, Land
  <2>2. op[g] # "Obtain" /\ Completes(g)
    BY <1>0, <1>8, <2>1, NoChannelIsNone DEF WritePacket, WritePayload, Completes, ChannelInv
  <2>3. wireChannel = ch[g] /\ wireChannel \in ChannelID
    BY <2>1, OnRightChannel DEF PacketOnRightChannel
  <2>4. op[g] # "Write" => channel[Owner(g)] = wireChannel
    BY <1>0, <2>1, <2>2, <2>3 DEF AtOwnChannel
  <2>5. op[g] = "Write" => \A t \in Callers : channel[t] # wireChannel
    BY <2>1, <2>3, OnRightChannel DEF PacketOnRightChannel
  <2>6. Finish(g, FALSE) /\ channel' = channel /\ broken' = broken
    BY <1>8 DEF WritePacket, WritePayload, Land, FinishWrite
  <2> QED
    BY <1>0, <2>1, <2>2, <2>3, <2>4, <2>5, <2>6 DEF Finish, Written
<1>9. CASE WriteFails(g)
  <2>1. op[g] # "Obtain"
    BY <1>9, NoChannelIsNone DEF WriteFails, ChannelInv
  <2>2. Finish(g, TRUE) /\ channel' = channel /\ broken /\ broken' = broken /\ pc[g] # "idle"
    BY <1>9 DEF WriteFails, FinishWrite, wireVars
  <2> QED
    BY <1>0, <2>1, <2>2 DEF Finish, Failed, Completes
<1>10. CASE WriteStandalone(g)
  BY <1>10 DEF WriteStandalone
<1>11. CASE ReleaseOwn(g)
  BY <1>11 DEF ReleaseOwn
<1> QED
  BY <1>1, <1>2, <1>3, <1>4, <1>5, <1>6, <1>7, <1>8, <1>9, <1>10, <1>11 DEF WriterStep

-----------------------------------------------------------------------------
(* send keeps the contract of the writer.                                  *)

LEMMA NotChangingOwner ==
  ASSUME DraftInv, NEW t \in Callers, send[t].main = "obtain" => pc[main(t)] = "idle"
  PROVE  \A h \in Goroutines : Owner(h) = t => op[h] \notin ChangesOwner
BY GoroutineKinds DEF DraftInv, OpsInv, Inv, CallInv, ChangesOwner

LEMMA CallAtOwnChannel ==
  ASSUME DraftInv, NEW g \in Goroutines, NEW o \in {"WriteAtChannel", "External"},
         channel[Owner(g)] # NoChannel,
         send[Owner(g)].main = "obtain" => pc[main(Owner(g))] = "idle",
         Call(g, o, channel[Owner(g)])
  PROVE  WriterNext
BY GoroutineKinds, NotChangingOwner DEF CallAtChannel, WriterCall, WriterNext

LEMMA StartKeepsContract ==
  ASSUME DraftInv, NEW t \in Callers, Start(t)
  PROVE  WriterNext
<1>1. channel[t] = NoChannel /\ pc[main(t)] = "idle"
  BY DEF DraftInv, OwnsInv, Start, MainAt
<1>2. Quiet(t)
  BY <1>1, GoroutineKinds
  DEF DraftInv, OpsInv, Inv, CallInv, PlacesInv, MainInv, StreamInv, Writing, Quiet, Start, MainAt
<1>3. CallObtain(main(t)) \/ CallWrite(main(t))
  BY <1>1, <1>2, GoroutineKinds DEF Start, CallObtain, CallWrite
<1> QED
  BY <1>3, GoroutineKinds DEF WriterCall, WriterNext

LEMMA SendMessageKeepsContract ==
  ASSUME DraftInv, NEW t \in Callers, SendMessage(t)
  PROVE  WriterNext
<1>1. channel[t] # NoChannel
  BY DEF DraftInv, OwnsInv, SendMessage, MainAt
<1> QED
  BY <1>1, GoroutineKinds, CallAtOwnChannel DEF SendMessage, MainAt

LEMMA StartPartsKeepsContract ==
  ASSUME DraftInv, NEW t \in Callers, StartParts(t)
  PROVE  WriterNext \/ UNCHANGED writerVars
<1>1. channel[t] # NoChannel
  BY DEF DraftInv, OwnsInv, StartParts, MainAt
<1> QED
  BY <1>1, GoroutineKinds, CallAtOwnChannel DEF StartParts, MainAt

LEMMA WaitPartsKeepsContract ==
  ASSUME DraftInv, NEW t \in Callers, WaitParts(t)
  PROVE  WriterNext
<1>1. channel[t] # NoChannel /\ pc[main(t)] = "idle"
  BY DEF DraftInv, OwnsInv, WaitParts, MainAt
<1>2. Quiet(t)
  BY <1>1, GoroutineKinds
  DEF DraftInv, OpsInv, Inv, CallInv, PlacesInv, MainInv, StreamInv, Writing, PartsDone,
      Quiet, WaitParts, MainAt
<1>3. ReleaseChannel(t)
  BY <1>1, <1>2 DEF WaitParts, ReleaseChannel
<1> QED
  BY <1>3 DEF WriterNext

LEMMA DataStartKeepsContract ==
  ASSUME DraftInv, NEW t \in Callers, DataStart(t)
  PROVE  WriterNext
<1>1. send[t].main \in {"simulate", "assigned", "failed", "wait"}
  BY DEF DraftInv, TypeOK, SendState, PlacesInv, MainInv, PartsDone, DataStart
<1>2. channel[t] # NoChannel
  BY <1>1 DEF DraftInv, OwnsInv
<1> QED
  BY <1>1, <1>2, GoroutineKinds, CallAtOwnChannel DEF DataStart

\* A user that may write finds the send waiting for it, with its channel.
LEMMA UserFindsChannel ==
  ASSUME DraftInv, NEW u \in UserGoroutines, MayUse(u), ~ sw[Owner(u)].done
  PROVE  send[Owner(u)].waiter = "wait" /\ send[Owner(u)].main = "wait"
         /\ channel[Owner(u)] # NoChannel
<1>1. Owner(u) \in Callers
  BY GoroutineKinds
<1>2. send[Owner(u)].waiter = "wait"
  BY <1>1 DEF DraftInv, TypeOK, SendState, PlacesInv, StreamInv, MayUse
<1>3. send[Owner(u)].main = "wait"
  BY <1>1, <1>2 DEF DraftInv, TypeOK, SendState, PlacesInv, MainInv, PartsDone, Requested
<1> QED
  BY <1>1, <1>2, <1>3 DEF DraftInv, OwnsInv

LEMMA StreamWriteKeepsContract ==
  ASSUME DraftInv, NEW u \in UserGoroutines, StreamWrite(u)
  PROVE  WriterNext
BY GoroutineKinds, UserFindsChannel, CallAtOwnChannel DEF StreamWrite

LEMMA StreamCloseKeepsContract ==
  ASSUME DraftInv, NEW u \in UserGoroutines, StreamClose(u)
  PROVE  WriterNext
BY GoroutineKinds, UserFindsChannel, CallAtOwnChannel DEF StreamClose

LEMMA ReturnTyped ==
  ASSUME send \in [Callers -> SendState], NEW t \in Callers, NEW e \in BOOLEAN, Return(t, e)
  PROVE  send' \in [Callers -> SendState]
<1> DEFINE r == [send[t] EXCEPT !.main = "returned", !.result = IF e THEN "error" ELSE "nil"]
<1>1. send' = [send EXCEPT ![t] = r]
  BY DEF Return
<1>2. r \in SendState
  BY DEF SendState
<1> QED
  BY <1>1, <1>2

LEMMA HasStays ==
  ASSUME got' = got
  PROVE  \A t \in Callers, k \in {"message", "data", "end"} :
           Exchange!Has(t, k)' <=> Exchange!Has(t, k)
BY DEF Exchange!Has, Exchange!Part, Exchange!Contains

-----------------------------------------------------------------------------
(* DraftInv is inductive: one lemma per step of send and of the users.     *)

\* send begins.
LEMMA StartKeeps ==
  ASSUME DraftInv, NEW t \in Callers, Start(t)
  PROVE  DraftInv'
<1>1. send' \in [Callers -> SendState]
  <2>1. /\ send \in [Callers -> SendState] /\ \A g \in Goroutines : err[g] \in BOOLEAN
        /\ main(t) \in Goroutines /\ dataOf(t) \in Goroutines
    BY GoroutineKinds DEF DraftInv, TypeOK, WriterTypeOK
  <2> QED
    BY <2>1
    DEF SendState, Start
<1>2. sw' \in [Callers -> StreamWriterState]
  BY DEF DraftInv, TypeOK, Start
<1> USE GoroutineKinds DEF DraftInv, TypeOK, peerVars
<1>3. Inv'
  BY StartKeepsContract, InvNext
<1>4. TypeOK' /\ GotTypeOK'
  BY <1>3, <1>1, <1>2
  DEF Inv, GotTypeOK, Start, MainAt, Call, wireVars
<1>5. MainInv'
  BY DEF PlacesInv, MainInv, StreamInv, SendState, StreamWriterState, HasStream,
      Requested, PartsDone, Start, MainAt, Call, wireVars
<1>6. StreamInv'
  BY DEF PlacesInv, MainInv, StreamInv, SendState, StreamWriterState, Writing, PartsDone,
      Requested, HasStream, Start, MainAt, Call, wireVars
<1>7. OpsInv' /\ OwnsInv'
  BY DEF OpsInv, OwnsInv, PlacesInv, MainInv, StreamInv, SendState, StreamWriterState,
      Writing, Inv, WriterTypeOK, CallInv, NoChannel, Start, MainAt, Call, wireVars
<1>8. NoErrInv'
  BY DEF NoErrInv, SendState, StreamWriterState, Inv, WriterTypeOK, Start, MainAt, Call,
      wireVars
<1>9. PeerInv'
  BY DEF PeerInv, DataDue, EndDue, MessageOut, DataOut, EndOut, HasStream, NoErrInv,
      PlacesInv, MainInv, StreamInv, Requested, PartsDone, Writing, SendState,
      StreamWriterState, Inv, WriterTypeOK, Start, MainAt, Call, wireVars
<1>10. BeforeInv'
  BY HasStays
  DEF BeforeInv, Started, MessageOut, DataOut, EndOut, HasStream, NoErrInv, PlacesInv,
      MainInv, StreamInv, Requested, Writing, SendState, StreamWriterState, Inv,
      WriterTypeOK, Start, MainAt, Call, wireVars
<1> QED
  BY <1>3, <1>4, <1>5, <1>6, <1>7, <1>8, <1>9, <1>10 DEF PlacesInv

\* The Write of a message without parts has returned.
LEMMA FastDoneKeeps ==
  ASSUME DraftInv, NEW t \in Callers, FastDone(t)
  PROVE  DraftInv'
<1>1. send' \in [Callers -> SendState]
  <2>1. /\ send \in [Callers -> SendState] /\ \A g \in Goroutines : err[g] \in BOOLEAN
        /\ main(t) \in Goroutines /\ dataOf(t) \in Goroutines
    BY GoroutineKinds DEF DraftInv, TypeOK, WriterTypeOK
  <2> QED
    BY <2>1, ReturnTyped
    DEF FastDone
<1>2. sw' \in [Callers -> StreamWriterState]
  BY DEF DraftInv, TypeOK, FastDone
<1> USE GoroutineKinds DEF DraftInv, TypeOK, peerVars
<1>3. Inv'
  BY StutterKeeps
  DEF FastDone, MainAt, Return, writerVars, callVars, wireVars
<1>4. TypeOK' /\ GotTypeOK'
  BY <1>3, <1>1, <1>2
  DEF Inv, GotTypeOK, FastDone, MainAt, Return, writerVars, callVars, wireVars
<1>5. MainInv'
  BY DEF PlacesInv, MainInv, StreamInv, SendState, StreamWriterState, HasStream,
      Requested, PartsDone, FastDone, MainAt, Return, writerVars, callVars, wireVars
<1>6. StreamInv'
  BY DEF PlacesInv, MainInv, StreamInv, SendState, StreamWriterState, Writing, PartsDone,
      Requested, HasStream, FastDone, MainAt, Return, writerVars, callVars, wireVars
<1>7. OpsInv' /\ OwnsInv'
  BY DEF OpsInv, OwnsInv, PlacesInv, MainInv, StreamInv, SendState, StreamWriterState,
      Writing, Inv, WriterTypeOK, CallInv, NoChannel, FastDone, MainAt, Return,
      writerVars, callVars, wireVars
<1>8. NoErrInv'
  BY DEF NoErrInv, SendState, StreamWriterState, Inv, WriterTypeOK, FastDone, MainAt,
      Return, writerVars, callVars, wireVars
<1>9. PeerInv'
  BY DEF PeerInv, DataDue, EndDue, MessageOut, DataOut, EndOut, HasStream, NoErrInv,
      PlacesInv, MainInv, StreamInv, Requested, PartsDone, Writing, SendState,
      StreamWriterState, Inv, WriterTypeOK, FastDone, MainAt, Return, writerVars,
      callVars, wireVars
<1>10. BeforeInv'
  BY HasStays
  DEF BeforeInv, Started, MessageOut, DataOut, EndOut, HasStream, NoErrInv, PlacesInv,
      MainInv, StreamInv, Requested, Writing, SendState, StreamWriterState, Inv,
      WriterTypeOK, FastDone, MainAt, Return, writerVars, callVars, wireVars
<1> QED
  BY <1>3, <1>4, <1>5, <1>6, <1>7, <1>8, <1>9, <1>10 DEF PlacesInv

\* The channel is obtained; the Message packet is next.
LEMMA SendMessageKeeps ==
  ASSUME DraftInv, NEW t \in Callers, SendMessage(t)
  PROVE  DraftInv'
<1>1. send' \in [Callers -> SendState]
  <2>1. /\ send \in [Callers -> SendState] /\ \A g \in Goroutines : err[g] \in BOOLEAN
        /\ main(t) \in Goroutines /\ dataOf(t) \in Goroutines
    BY GoroutineKinds DEF DraftInv, TypeOK, WriterTypeOK
  <2> QED
    BY <2>1
    DEF SendState, SendMessage
<1>2. sw' \in [Callers -> StreamWriterState]
  <2>1. /\ sw \in [Callers -> StreamWriterState] /\ \A g \in Goroutines : err[g] \in BOOLEAN
        /\ main(t) \in Goroutines /\ dataOf(t) \in Goroutines
    BY GoroutineKinds DEF DraftInv, TypeOK, WriterTypeOK
  <2>2. Requested(t) \in BOOLEAN
    BY DEF Requested
  <2> QED
    BY <2>1, <2>2 DEF StreamWriterState, SendMessage
<1> USE GoroutineKinds DEF DraftInv, TypeOK, peerVars
<1>3. Inv'
  BY SendMessageKeepsContract, InvNext
<1>4. TypeOK' /\ GotTypeOK'
  BY <1>3, <1>1, <1>2
  DEF Inv, GotTypeOK, SendMessage, MainAt, Call, wireVars
<1>5. MainInv'
  BY DEF PlacesInv, MainInv, StreamInv, SendState, StreamWriterState, HasStream,
      Requested, PartsDone, SendMessage, MainAt, Call, wireVars
<1>6. StreamInv'
  BY DEF PlacesInv, MainInv, StreamInv, SendState, StreamWriterState, Writing, PartsDone,
      Requested, HasStream, SendMessage, MainAt, Call, wireVars
<1>7. OpsInv' /\ OwnsInv'
  BY DEF OpsInv, OwnsInv, PlacesInv, MainInv, StreamInv, SendState, StreamWriterState,
      Writing, Inv, WriterTypeOK, CallInv, NoChannel, SendMessage, MainAt, Call,
      wireVars
<1>8. NoErrInv'
  BY DEF NoErrInv, SendState, StreamWriterState, Inv, WriterTypeOK, SendMessage, MainAt,
      Call, wireVars
<1>9. PeerInv'
  BY DEF PeerInv, DataDue, EndDue, MessageOut, DataOut, EndOut, HasStream, NoErrInv,
      PlacesInv, MainInv, StreamInv, Requested, PartsDone, Writing, SendState,
      StreamWriterState, Inv, WriterTypeOK, SendMessage, MainAt, Call, wireVars
<1>10. BeforeInv'
  BY HasStays
  DEF BeforeInv, Started, MessageOut, DataOut, EndOut, HasStream, NoErrInv, PlacesInv,
      MainInv, StreamInv, Requested, Writing, SendState, StreamWriterState, Inv,
      WriterTypeOK, SendMessage, MainAt, Call, wireVars
<1> QED
  BY <1>3, <1>4, <1>5, <1>6, <1>7, <1>8, <1>9, <1>10 DEF PlacesInv

\* The Message packet has failed.
LEMMA MessageFailedKeeps ==
  ASSUME DraftInv, NEW t \in Callers, MessageFailed(t)
  PROVE  DraftInv'
<1>1. send' \in [Callers -> SendState]
  <2>1. /\ send \in [Callers -> SendState] /\ \A g \in Goroutines : err[g] \in BOOLEAN
        /\ main(t) \in Goroutines /\ dataOf(t) \in Goroutines
    BY GoroutineKinds DEF DraftInv, TypeOK, WriterTypeOK
  <2> QED
    BY <2>1, ReturnTyped
    DEF MessageFailed
<1>2. sw' \in [Callers -> StreamWriterState]
  BY DEF DraftInv, TypeOK, MessageFailed
<1> USE GoroutineKinds DEF DraftInv, TypeOK, peerVars
<1>3. Inv'
  BY StutterKeeps
  DEF MessageFailed, MainAt, Return, writerVars, callVars, wireVars
<1>4. TypeOK' /\ GotTypeOK'
  BY <1>3, <1>1, <1>2
  DEF Inv, GotTypeOK, MessageFailed, MainAt, Return, writerVars, callVars, wireVars
<1>5. MainInv'
  BY DEF PlacesInv, MainInv, StreamInv, SendState, StreamWriterState, HasStream,
      Requested, PartsDone, MessageFailed, MainAt, Return, writerVars, callVars,
      wireVars
<1>6. StreamInv'
  BY DEF PlacesInv, MainInv, StreamInv, SendState, StreamWriterState, Writing, PartsDone,
      Requested, HasStream, MessageFailed, MainAt, Return, writerVars, callVars,
      wireVars
<1>7. OpsInv' /\ OwnsInv'
  BY DEF OpsInv, OwnsInv, PlacesInv, MainInv, StreamInv, SendState, StreamWriterState,
      Writing, Inv, WriterTypeOK, CallInv, NoChannel, MessageFailed, MainAt, Return,
      writerVars, callVars, wireVars
<1>8. NoErrInv'
  BY DEF NoErrInv, SendState, StreamWriterState, Inv, WriterTypeOK, MessageFailed, MainAt,
      Return, writerVars, callVars, wireVars
<1>9. PeerInv'
  BY DEF PeerInv, DataDue, EndDue, MessageOut, DataOut, EndOut, HasStream, NoErrInv,
      PlacesInv, MainInv, StreamInv, Requested, PartsDone, Writing, SendState,
      StreamWriterState, Inv, WriterTypeOK, MessageFailed, MainAt, Return, writerVars,
      callVars, wireVars
<1>10. BeforeInv'
  BY HasStays
  DEF BeforeInv, Started, MessageOut, DataOut, EndOut, HasStream, NoErrInv, PlacesInv,
      MainInv, StreamInv, Requested, Writing, SendState, StreamWriterState, Inv,
      WriterTypeOK, MessageFailed, MainAt, Return, writerVars, callVars, wireVars
<1> QED
  BY <1>3, <1>4, <1>5, <1>6, <1>7, <1>8, <1>9, <1>10 DEF PlacesInv

\* A step that changes neither what the peer has nor what it may expect.
LEMMA DuesDecidePeer ==
  ASSUME PeerInv, UNCHANGED <<draft, channel, message, data, stream, rejected>>, broken => broken',
         \A x \in Callers : (DataDue(x)' <=> DataDue(x)) /\ (EndDue(x)' <=> EndDue(x))
  PROVE  PeerInv'
<1>1. \A x \in Callers : HasStream(x)' <=> HasStream(x)
  BY DEF HasStream
<1> QED
  BY <1>1 DEF PeerInv

\* The Message packet is out; the goroutines for the parts start.
LEMMA StartPartsKeeps ==
  ASSUME DraftInv, NEW t \in Callers, StartParts(t)
  PROVE  DraftInv'
<1>1. send' \in [Callers -> SendState]
  <2>1. /\ send \in [Callers -> SendState] /\ \A g \in Goroutines : err[g] \in BOOLEAN
        /\ main(t) \in Goroutines /\ dataOf(t) \in Goroutines
    BY GoroutineKinds DEF DraftInv, TypeOK, WriterTypeOK
  <2> DEFINE r == [send[t] EXCEPT
                     !.main = IF draft[t].stream = "simulated" THEN "simulate" ELSE "wait",
                     !.data = IF draft[t].data THEN "start" ELSE "off",
                     !.waiter = IF Requested(t) THEN "wait" ELSE "off"]
  <2>2. send' = [send EXCEPT ![t] = r]
    BY <2>1 DEF StartParts
  <2>3. r.main \in {"simulate", "wait"} /\ r.data \in {"start", "off"} /\ r.waiter \in {"wait", "off"}
    BY <2>1 DEF SendState
  <2>4. r \in SendState
    BY ZenonT(60), <2>1, <2>3 DEF SendState
  <2> QED
    BY <2>1, <2>2, <2>4
<1>2. sw' \in [Callers -> StreamWriterState]
  <2>1. /\ sw \in [Callers -> StreamWriterState] /\ \A g \in Goroutines : err[g] \in BOOLEAN
        /\ main(t) \in Goroutines /\ dataOf(t) \in Goroutines
    BY GoroutineKinds DEF DraftInv, TypeOK, WriterTypeOK
  <2>2. Requested(t) \in BOOLEAN
    BY DEF Requested
  <2> QED
    BY <2>1, <2>2 DEF StreamWriterState, StartParts
<1> USE GoroutineKinds DEF DraftInv, TypeOK, peerVars
<1>3. Inv'
  BY StartPartsKeepsContract, InvNext
<1>4. TypeOK' /\ GotTypeOK'
  BY <1>3, <1>1, <1>2
  DEF Inv, GotTypeOK, StartParts, MainAt, Call, writerVars, callVars, wireVars
<1>5. MainInv'
  BY DEF PlacesInv, MainInv, StreamInv, SendState, StreamWriterState, HasStream,
      Requested, PartsDone, StartParts, MainAt, Call, writerVars, callVars, wireVars
<1>6. StreamInv'
  BY DEF PlacesInv, MainInv, StreamInv, SendState, StreamWriterState, Writing, PartsDone,
      Requested, HasStream, StartParts, MainAt, Call, writerVars, callVars, wireVars
<1>7. OpsInv' /\ OwnsInv'
  BY DEF OpsInv, OwnsInv, PlacesInv, MainInv, StreamInv, SendState, StreamWriterState,
      Writing, Inv, WriterTypeOK, CallInv, NoChannel, StartParts, MainAt, Call,
      writerVars, callVars, wireVars
<1>8. NoErrInv'
  <2>1. broken' = broken
    BY DEF StartParts, Call, writerVars, wireVars
  <2>2. \A x \in Callers : /\ sw'[x].err = sw[x].err
                           /\ send'[x].err = send[x].err
                           /\ send'[x].finalErr = send[x].finalErr
                           /\ send'[x].result = send[x].result
    BY DEF StartParts, SendState, StreamWriterState
  <2>3. \A g \in Goroutines : err'[g] => err[g]
    BY DEF StartParts, Call, writerVars, callVars, WriterTypeOK
  <2> QED
    BY <2>1, <2>2, <2>3 DEF NoErrInv
<1>9. PeerInv'
  <2>1. UNCHANGED <<draft, channel, message, data, stream, rejected>> /\ (broken => broken')
    BY DEF StartParts, MainAt, Call, writerVars, callVars, wireVars
  <2>2. \A x \in Callers : DataDue(x)' <=> DataDue(x)
    <3>1. send \in [Callers -> SendState] /\ send' \in [Callers -> SendState]
      BY <1>1
    <3>2. /\ send[t].main = "message" /\ pc[main(t)] = "idle"
          /\ send'[t].main \in {"simulate", "wait"}
          /\ draft[t].data => send'[t].data = "start"
          /\ \A x \in Callers : x # t => send'[x] = send[x]
      BY <3>1 DEF SendState, StartParts, MainAt
    <3>3. send[t].data = "off"
      BY <3>2 DEF PlacesInv, MainInv
    <3>4. \A x \in Callers : x # t =>
            pc'[main(x)] = pc[main(x)] /\ pc'[dataOf(x)] = pc[dataOf(x)]
      <4>1. pc' = pc \/ \E v : pc' = [pc EXCEPT ![main(t)] = v]
        BY DEF StartParts, Call, writerVars, callVars
      <4>2. \A x \in Callers : x # t => main(x) # main(t) /\ dataOf(x) # main(t)
        BY GoroutineKinds
      <4> QED
        BY <4>1, <4>2, GoroutineKinds DEF Inv, WriterTypeOK
    <3>5. DataDue(t)' <=> DataDue(t)
      BY <2>1, <3>2, <3>3 DEF DataDue, MessageOut, DataOut, peerVars
    <3>6. ASSUME NEW x \in Callers, x # t PROVE DataDue(x)' <=> DataDue(x)
      BY <2>1, <3>2, <3>4, <3>6 DEF DataDue, MessageOut, DataOut
    <3> QED
      BY <3>5, <3>6
  <2>3. \A x \in Callers : EndDue(x)' <=> EndDue(x)
    BY DEF EndDue, MessageOut, EndOut, HasStream, SendState, StreamWriterState, MainInv,
        PlacesInv, StartParts, MainAt, Call, writerVars, callVars, Requested, Inv, WriterTypeOK
  <2> QED
    BY <2>1, <2>2, <2>3, DuesDecidePeer
<1>10. BeforeInv'
  BY HasStays
  DEF BeforeInv, Started, MessageOut, DataOut, EndOut, HasStream, NoErrInv, PlacesInv,
      MainInv, StreamInv, Requested, Writing, SendState, StreamWriterState, Inv,
      WriterTypeOK, StartParts, MainAt, Call, writerVars, callVars, wireVars
<1> QED
  BY <1>3, <1>4, <1>5, <1>6, <1>7, <1>8, <1>9, <1>10 DEF PlacesInv

\* The end of a simulated stream is written.
LEMMA SimulateDoneKeeps ==
  ASSUME DraftInv, NEW t \in Callers, SimulateDone(t)
  PROVE  DraftInv'
<1>1. send' \in [Callers -> SendState]
  <2>1. /\ send \in [Callers -> SendState] /\ \A g \in Goroutines : err[g] \in BOOLEAN
        /\ main(t) \in Goroutines /\ dataOf(t) \in Goroutines
    BY GoroutineKinds DEF DraftInv, TypeOK, WriterTypeOK
  <2> QED
    BY ZenonT(60), <2>1
    DEF SendState, SimulateDone
<1>2. sw' \in [Callers -> StreamWriterState]
  BY DEF DraftInv, TypeOK, SimulateDone
<1> USE GoroutineKinds DEF DraftInv, TypeOK, peerVars
<1>3. Inv'
  BY StutterKeeps
  DEF SimulateDone, MainAt, writerVars, callVars, wireVars
<1>4. TypeOK' /\ GotTypeOK'
  BY <1>3, <1>1, <1>2
  DEF Inv, GotTypeOK, SimulateDone, MainAt, writerVars, callVars, wireVars
<1>5. MainInv'
  BY DEF PlacesInv, MainInv, StreamInv, SendState, StreamWriterState, HasStream,
      Requested, PartsDone, SimulateDone, MainAt, writerVars, callVars, wireVars
<1>6. StreamInv'
  BY DEF PlacesInv, MainInv, StreamInv, SendState, StreamWriterState, Writing, PartsDone,
      Requested, HasStream, SimulateDone, MainAt, writerVars, callVars, wireVars
<1>7. OpsInv' /\ OwnsInv'
  BY DEF OpsInv, OwnsInv, PlacesInv, MainInv, StreamInv, SendState, StreamWriterState,
      Writing, Inv, WriterTypeOK, CallInv, NoChannel, SimulateDone, MainAt, writerVars,
      callVars, wireVars
<1>8. NoErrInv'
  BY DEF NoErrInv, SendState, StreamWriterState, Inv, WriterTypeOK, SimulateDone, MainAt,
      writerVars, callVars, wireVars
<1>9. PeerInv'
  BY DEF PeerInv, DataDue, EndDue, MessageOut, DataOut, EndOut, HasStream, NoErrInv,
      PlacesInv, MainInv, StreamInv, Requested, PartsDone, Writing, SendState,
      StreamWriterState, Inv, WriterTypeOK, SimulateDone, MainAt, writerVars, callVars,
      wireVars
<1>10. BeforeInv'
  BY HasStays
  DEF BeforeInv, Started, MessageOut, DataOut, EndOut, HasStream, NoErrInv, PlacesInv,
      MainInv, StreamInv, Requested, Writing, SendState, StreamWriterState, Inv,
      WriterTypeOK, SimulateDone, MainAt, writerVars, callVars, wireVars
<1> QED
  BY <1>3, <1>4, <1>5, <1>6, <1>7, <1>8, <1>9, <1>10 DEF PlacesInv

\* Its error is tested.
LEMMA SimulateTestKeeps ==
  ASSUME DraftInv, NEW t \in Callers, SimulateTest(t)
  PROVE  DraftInv'
<1>1. send' \in [Callers -> SendState]
  <2>1. /\ send \in [Callers -> SendState] /\ \A g \in Goroutines : err[g] \in BOOLEAN
        /\ main(t) \in Goroutines /\ dataOf(t) \in Goroutines
    BY GoroutineKinds DEF DraftInv, TypeOK, WriterTypeOK
  <2>2. Test(t) \in BOOLEAN
    BY <2>1 DEF Test, SendState
  <2> QED
    BY ZenonT(60), <2>1, <2>2 DEF SendState, SimulateTest
<1>2. sw' \in [Callers -> StreamWriterState]
  BY DEF DraftInv, TypeOK, SimulateTest
<1> USE GoroutineKinds DEF DraftInv, TypeOK, peerVars
<1>3. Inv'
  BY StutterKeeps
  DEF SimulateTest, MainAt, Test, writerVars, callVars, wireVars
<1>4. TypeOK' /\ GotTypeOK'
  BY <1>3, <1>1, <1>2
  DEF Inv, GotTypeOK, SimulateTest, MainAt, Test, writerVars, callVars, wireVars
<1>5. MainInv'
  BY DEF PlacesInv, MainInv, StreamInv, SendState, StreamWriterState, HasStream,
      Requested, PartsDone, SimulateTest, MainAt, Test, writerVars, callVars, wireVars
<1>6. StreamInv'
  BY DEF PlacesInv, MainInv, StreamInv, SendState, StreamWriterState, Writing, PartsDone,
      Requested, HasStream, SimulateTest, MainAt, Test, writerVars, callVars, wireVars
<1>7. OpsInv' /\ OwnsInv'
  BY DEF OpsInv, OwnsInv, PlacesInv, MainInv, StreamInv, SendState, StreamWriterState,
      Writing, Inv, WriterTypeOK, CallInv, NoChannel, SimulateTest, MainAt, Test,
      writerVars, callVars, wireVars
<1>8. NoErrInv'
  BY DEF NoErrInv, SendState, StreamWriterState, Inv, WriterTypeOK, SimulateTest, MainAt,
      Test, writerVars, callVars, wireVars
<1>9. PeerInv'
  <2>1. UNCHANGED <<draft, channel, message, data, stream, rejected>> /\ (broken => broken')
    BY DEF SimulateTest, writerVars, callVars, wireVars
  <2>2. \A x \in Callers : DataDue(x)' <=> DataDue(x)
    BY DEF DataDue, MessageOut, DataOut, SendState, SimulateTest, MainAt, writerVars, callVars
  <2>3. \A x \in Callers : EndDue(x)' <=> EndDue(x)
    BY DEF EndDue, MessageOut, EndOut, HasStream, SendState, SimulateTest, MainAt, writerVars,
        callVars
  <2> QED
    BY <2>1, <2>2, <2>3, DuesDecidePeer
<1>10. BeforeInv'
  BY HasStays
  DEF BeforeInv, Started, MessageOut, DataOut, EndOut, HasStream, NoErrInv, PlacesInv,
      MainInv, StreamInv, Requested, Writing, SendState, StreamWriterState, Inv,
      WriterTypeOK, SimulateTest, MainAt, Test, writerVars, callVars, wireVars
<1> QED
  BY <1>3, <1>4, <1>5, <1>6, <1>7, <1>8, <1>9, <1>10 DEF PlacesInv

\* Its error, as it is by then, becomes finalErr.
LEMMA SimulateFailedKeeps ==
  ASSUME DraftInv, NEW t \in Callers, SimulateFailed(t)
  PROVE  DraftInv'
<1>1. send' \in [Callers -> SendState]
  <2>1. /\ send \in [Callers -> SendState] /\ \A g \in Goroutines : err[g] \in BOOLEAN
        /\ main(t) \in Goroutines /\ dataOf(t) \in Goroutines
    BY GoroutineKinds DEF DraftInv, TypeOK, WriterTypeOK
  <2>2. send[t].err \in BOOLEAN
    BY <2>1 DEF SendState
  <2> QED
    BY ZenonT(60), <2>1, <2>2 DEF SendState, SimulateFailed
<1>2. sw' \in [Callers -> StreamWriterState]
  BY DEF DraftInv, TypeOK, SimulateFailed
<1> USE GoroutineKinds DEF DraftInv, TypeOK, peerVars
<1>3. Inv'
  BY StutterKeeps
  DEF SimulateFailed, MainAt, writerVars, callVars, wireVars
<1>4. TypeOK' /\ GotTypeOK'
  BY <1>3, <1>1, <1>2
  DEF Inv, GotTypeOK, SimulateFailed, MainAt, writerVars, callVars, wireVars
<1>5. MainInv'
  BY DEF PlacesInv, MainInv, StreamInv, SendState, StreamWriterState, HasStream,
      Requested, PartsDone, SimulateFailed, MainAt, writerVars, callVars, wireVars
<1>6. StreamInv'
  BY DEF PlacesInv, MainInv, StreamInv, SendState, StreamWriterState, Writing, PartsDone,
      Requested, HasStream, SimulateFailed, MainAt, writerVars, callVars, wireVars
<1>7. OpsInv' /\ OwnsInv'
  BY DEF OpsInv, OwnsInv, PlacesInv, MainInv, StreamInv, SendState, StreamWriterState,
      Writing, Inv, WriterTypeOK, CallInv, NoChannel, SimulateFailed, MainAt,
      writerVars, callVars, wireVars
<1>8. NoErrInv'
  BY DEF NoErrInv, SendState, StreamWriterState, Inv, WriterTypeOK, SimulateFailed, MainAt,
      writerVars, callVars, wireVars
<1>9. PeerInv'
  <2>1. UNCHANGED <<draft, channel, message, data, stream, rejected>> /\ (broken => broken')
    BY DEF SimulateFailed, writerVars, callVars, wireVars
  <2>2. \A x \in Callers : DataDue(x)' <=> DataDue(x)
    BY DEF DataDue, MessageOut, DataOut, SendState, SimulateFailed, MainAt, writerVars, callVars
  <2>3. \A x \in Callers : EndDue(x)' <=> EndDue(x)
    BY DEF EndDue, MessageOut, EndOut, HasStream, SendState, SimulateFailed, MainAt, writerVars,
        callVars
  <2> QED
    BY <2>1, <2>2, <2>3, DuesDecidePeer
<1>10. BeforeInv'
  BY HasStays
  DEF BeforeInv, Started, MessageOut, DataOut, EndOut, HasStream, NoErrInv, PlacesInv,
      MainInv, StreamInv, Requested, Writing, SendState, StreamWriterState, Inv,
      WriterTypeOK, SimulateFailed, MainAt, writerVars, callVars, wireVars
<1> QED
  BY <1>3, <1>4, <1>5, <1>6, <1>7, <1>8, <1>9, <1>10 DEF PlacesInv

\* All parts are through: the channel is given back.
LEMMA WaitPartsKeeps ==
  ASSUME DraftInv, NEW t \in Callers, WaitParts(t)
  PROVE  DraftInv'
<1>1. send' \in [Callers -> SendState]
  <2>1. /\ send \in [Callers -> SendState] /\ \A g \in Goroutines : err[g] \in BOOLEAN
        /\ main(t) \in Goroutines /\ dataOf(t) \in Goroutines
    BY GoroutineKinds DEF DraftInv, TypeOK, WriterTypeOK
  <2>2. send[t].finalErr \in BOOLEAN
    BY <2>1 DEF SendState
  <2> QED
    BY <2>1, <2>2, ReturnTyped DEF WaitParts
<1>2. sw' \in [Callers -> StreamWriterState]
  BY DEF DraftInv, TypeOK, WaitParts
<1> USE GoroutineKinds DEF DraftInv, TypeOK, peerVars
<1>3. Inv'
  BY WaitPartsKeepsContract, InvNext
<1>4. TypeOK' /\ GotTypeOK'
  BY <1>3, <1>1, <1>2
  DEF Inv, GotTypeOK, WaitParts, MainAt, Return, Release, callVars, wireVars
<1>5. MainInv'
  BY DEF PlacesInv, MainInv, StreamInv, SendState, StreamWriterState, HasStream,
      Requested, PartsDone, WaitParts, MainAt, Return, Release, callVars, wireVars
<1>6. StreamInv'
  BY DEF PlacesInv, MainInv, StreamInv, SendState, StreamWriterState, Writing, PartsDone,
      Requested, HasStream, WaitParts, MainAt, Return, Release, callVars, wireVars
<1>7. OpsInv' /\ OwnsInv'
  BY DEF OpsInv, OwnsInv, PlacesInv, MainInv, StreamInv, SendState, StreamWriterState,
      Writing, Inv, WriterTypeOK, CallInv, NoChannel, WaitParts, MainAt, Return,
      Release, callVars, wireVars
<1>8. NoErrInv'
  BY DEF NoErrInv, SendState, StreamWriterState, Inv, WriterTypeOK, WaitParts, MainAt,
      Return, Release, callVars, wireVars
<1>9. PeerInv'
  BY SMTT(60) DEF PeerInv, DataDue, EndDue, MessageOut, DataOut, EndOut, HasStream, NoErrInv,
      PlacesInv, MainInv, StreamInv, Requested, PartsDone, Writing, SendState,
      StreamWriterState, Inv, WriterTypeOK, WaitParts, MainAt, Return, Release,
      callVars, wireVars
<1>10. BeforeInv'
  BY HasStays
  DEF BeforeInv, Started, MessageOut, DataOut, EndOut, HasStream, NoErrInv, PlacesInv,
      MainInv, StreamInv, Requested, Writing, SendState, StreamWriterState, Inv,
      WriterTypeOK, WaitParts, MainAt, Return, Release, callVars, wireVars
<1> QED
  BY <1>3, <1>4, <1>5, <1>6, <1>7, <1>8, <1>9, <1>10 DEF PlacesInv

\* The goroutine for the data calls the writer.
LEMMA DataStartKeeps ==
  ASSUME DraftInv, NEW t \in Callers, DataStart(t)
  PROVE  DraftInv'
<1>1. send' \in [Callers -> SendState]
  <2>1. /\ send \in [Callers -> SendState] /\ \A g \in Goroutines : err[g] \in BOOLEAN
        /\ main(t) \in Goroutines /\ dataOf(t) \in Goroutines
    BY GoroutineKinds DEF DraftInv, TypeOK, WriterTypeOK
  <2> QED
    BY <2>1
    DEF SendState, DataStart
<1>2. sw' \in [Callers -> StreamWriterState]
  BY DEF DraftInv, TypeOK, DataStart
<1> USE GoroutineKinds DEF DraftInv, TypeOK, peerVars
<1>3. Inv'
  BY DataStartKeepsContract, InvNext
<1>4. TypeOK' /\ GotTypeOK'
  BY <1>3, <1>1, <1>2
  DEF Inv, GotTypeOK, DataStart, Call, wireVars
<1>5. MainInv'
  BY DEF PlacesInv, MainInv, StreamInv, SendState, StreamWriterState, HasStream,
      Requested, PartsDone, DataStart, Call, wireVars
<1>6. StreamInv'
  BY DEF PlacesInv, MainInv, StreamInv, SendState, StreamWriterState, Writing, PartsDone,
      Requested, HasStream, DataStart, Call, wireVars
<1>7. OpsInv' /\ OwnsInv'
  BY DEF OpsInv, OwnsInv, PlacesInv, MainInv, StreamInv, SendState, StreamWriterState,
      Writing, Inv, WriterTypeOK, CallInv, NoChannel, DataStart, Call, wireVars
<1>8. NoErrInv'
  BY DEF NoErrInv, SendState, StreamWriterState, Inv, WriterTypeOK, DataStart, Call,
      wireVars
<1>9. PeerInv'
  BY DEF PeerInv, DataDue, EndDue, MessageOut, DataOut, EndOut, HasStream, NoErrInv,
      PlacesInv, MainInv, StreamInv, Requested, PartsDone, Writing, SendState,
      StreamWriterState, Inv, WriterTypeOK, DataStart, Call, wireVars
<1>10. BeforeInv'
  BY HasStays
  DEF BeforeInv, Started, MessageOut, DataOut, EndOut, HasStream, NoErrInv, PlacesInv,
      MainInv, StreamInv, Requested, Writing, SendState, StreamWriterState, Inv,
      WriterTypeOK, DataStart, Call, wireVars
<1> QED
  BY <1>3, <1>4, <1>5, <1>6, <1>7, <1>8, <1>9, <1>10 DEF PlacesInv

\* The data is written.
LEMMA DataDoneKeeps ==
  ASSUME DraftInv, NEW t \in Callers, DataDone(t)
  PROVE  DraftInv'
<1>1. send' \in [Callers -> SendState]
  <2>1. /\ send \in [Callers -> SendState] /\ \A g \in Goroutines : err[g] \in BOOLEAN
        /\ main(t) \in Goroutines /\ dataOf(t) \in Goroutines
    BY GoroutineKinds DEF DraftInv, TypeOK, WriterTypeOK
  <2> QED
    BY <2>1
    DEF SendState, DataDone
<1>2. sw' \in [Callers -> StreamWriterState]
  BY DEF DraftInv, TypeOK, DataDone
<1> USE GoroutineKinds DEF DraftInv, TypeOK, peerVars
<1>3. Inv'
  BY StutterKeeps
  DEF DataDone, writerVars, callVars, wireVars
<1>4. TypeOK' /\ GotTypeOK'
  BY <1>3, <1>1, <1>2
  DEF Inv, GotTypeOK, DataDone, writerVars, callVars, wireVars
<1>5. MainInv'
  BY DEF PlacesInv, MainInv, StreamInv, SendState, StreamWriterState, HasStream,
      Requested, PartsDone, DataDone, writerVars, callVars, wireVars
<1>6. StreamInv'
  BY DEF PlacesInv, MainInv, StreamInv, SendState, StreamWriterState, Writing, PartsDone,
      Requested, HasStream, DataDone, writerVars, callVars, wireVars
<1>7. OpsInv' /\ OwnsInv'
  BY DEF OpsInv, OwnsInv, PlacesInv, MainInv, StreamInv, SendState, StreamWriterState,
      Writing, Inv, WriterTypeOK, CallInv, NoChannel, DataDone, writerVars, callVars,
      wireVars
<1>8. NoErrInv'
  BY DEF NoErrInv, SendState, StreamWriterState, Inv, WriterTypeOK, DataDone, writerVars,
      callVars, wireVars
<1>9. PeerInv'
  BY DEF PeerInv, DataDue, EndDue, MessageOut, DataOut, EndOut, HasStream, NoErrInv,
      PlacesInv, MainInv, StreamInv, Requested, PartsDone, Writing, SendState,
      StreamWriterState, Inv, WriterTypeOK, DataDone, writerVars, callVars, wireVars
<1>10. BeforeInv'
  BY HasStays
  DEF BeforeInv, Started, MessageOut, DataOut, EndOut, HasStream, NoErrInv, PlacesInv,
      MainInv, StreamInv, Requested, Writing, SendState, StreamWriterState, Inv,
      WriterTypeOK, DataDone, writerVars, callVars, wireVars
<1> QED
  BY <1>3, <1>4, <1>5, <1>6, <1>7, <1>8, <1>9, <1>10 DEF PlacesInv

\* Its error is tested.
LEMMA DataTestKeeps ==
  ASSUME DraftInv, NEW t \in Callers, DataTest(t)
  PROVE  DraftInv'
<1>1. send' \in [Callers -> SendState]
  <2>1. /\ send \in [Callers -> SendState] /\ \A g \in Goroutines : err[g] \in BOOLEAN
        /\ main(t) \in Goroutines /\ dataOf(t) \in Goroutines
    BY GoroutineKinds DEF DraftInv, TypeOK, WriterTypeOK
  <2>2. Test(t) \in BOOLEAN
    BY <2>1 DEF Test, SendState
  <2> QED
    BY <2>1, <2>2 DEF SendState, DataTest
<1>2. sw' \in [Callers -> StreamWriterState]
  BY DEF DraftInv, TypeOK, DataTest
<1> USE GoroutineKinds DEF DraftInv, TypeOK, peerVars
<1>3. Inv'
  BY StutterKeeps
  DEF DataTest, Test, writerVars, callVars, wireVars
<1>4. TypeOK' /\ GotTypeOK'
  BY <1>3, <1>1, <1>2
  DEF Inv, GotTypeOK, DataTest, Test, writerVars, callVars, wireVars
<1>5. MainInv'
  BY DEF PlacesInv, MainInv, StreamInv, SendState, StreamWriterState, HasStream,
      Requested, PartsDone, DataTest, Test, writerVars, callVars, wireVars
<1>6. StreamInv'
  BY DEF PlacesInv, MainInv, StreamInv, SendState, StreamWriterState, Writing, PartsDone,
      Requested, HasStream, DataTest, Test, writerVars, callVars, wireVars
<1>7. OpsInv' /\ OwnsInv'
  BY DEF OpsInv, OwnsInv, PlacesInv, MainInv, StreamInv, SendState, StreamWriterState,
      Writing, Inv, WriterTypeOK, CallInv, NoChannel, DataTest, Test, writerVars,
      callVars, wireVars
<1>8. NoErrInv'
  BY DEF NoErrInv, SendState, StreamWriterState, Inv, WriterTypeOK, DataTest, Test,
      writerVars, callVars, wireVars
<1>9. PeerInv'
  <2>1. UNCHANGED <<draft, channel, message, data, stream, rejected>> /\ (broken => broken')
    BY DEF DataTest, writerVars, callVars, wireVars
  <2>2. \A x \in Callers : DataDue(x)' <=> DataDue(x)
    BY DEF DataDue, MessageOut, DataOut, SendState, DataTest, writerVars, callVars
  <2>3. \A x \in Callers : EndDue(x)' <=> EndDue(x)
    BY DEF EndDue, MessageOut, EndOut, HasStream, SendState, DataTest, writerVars, callVars
  <2> QED
    BY <2>1, <2>2, <2>3, DuesDecidePeer
<1>10. BeforeInv'
  BY HasStays
  DEF BeforeInv, Started, MessageOut, DataOut, EndOut, HasStream, NoErrInv, PlacesInv,
      MainInv, StreamInv, Requested, Writing, SendState, StreamWriterState, Inv,
      WriterTypeOK, DataTest, Test, writerVars, callVars, wireVars
<1> QED
  BY <1>3, <1>4, <1>5, <1>6, <1>7, <1>8, <1>9, <1>10 DEF PlacesInv

\* Its error, as it is by then, becomes finalErr.
LEMMA DataFailedKeeps ==
  ASSUME DraftInv, NEW t \in Callers, DataFailed(t)
  PROVE  DraftInv'
<1>1. send' \in [Callers -> SendState]
  <2>1. /\ send \in [Callers -> SendState] /\ \A g \in Goroutines : err[g] \in BOOLEAN
        /\ main(t) \in Goroutines /\ dataOf(t) \in Goroutines
    BY GoroutineKinds DEF DraftInv, TypeOK, WriterTypeOK
  <2>2. send[t].err \in BOOLEAN
    BY <2>1 DEF SendState
  <2> QED
    BY <2>1, <2>2 DEF SendState, DataFailed
<1>2. sw' \in [Callers -> StreamWriterState]
  BY DEF DraftInv, TypeOK, DataFailed
<1> USE GoroutineKinds DEF DraftInv, TypeOK, peerVars
<1>3. Inv'
  BY StutterKeeps
  DEF DataFailed, writerVars, callVars, wireVars
<1>4. TypeOK' /\ GotTypeOK'
  BY <1>3, <1>1, <1>2
  DEF Inv, GotTypeOK, DataFailed, writerVars, callVars, wireVars
<1>5. MainInv'
  BY DEF PlacesInv, MainInv, StreamInv, SendState, StreamWriterState, HasStream,
      Requested, PartsDone, DataFailed, writerVars, callVars, wireVars
<1>6. StreamInv'
  BY DEF PlacesInv, MainInv, StreamInv, SendState, StreamWriterState, Writing, PartsDone,
      Requested, HasStream, DataFailed, writerVars, callVars, wireVars
<1>7. OpsInv' /\ OwnsInv'
  BY DEF OpsInv, OwnsInv, PlacesInv, MainInv, StreamInv, SendState, StreamWriterState,
      Writing, Inv, WriterTypeOK, CallInv, NoChannel, DataFailed, writerVars,
      callVars, wireVars
<1>8. NoErrInv'
  BY DEF NoErrInv, SendState, StreamWriterState, Inv, WriterTypeOK, DataFailed,
      writerVars, callVars, wireVars
<1>9. PeerInv'
  <2>1. UNCHANGED <<draft, channel, message, data, stream, rejected>> /\ (broken => broken')
    BY DEF DataFailed, writerVars, callVars, wireVars
  <2>2. \A x \in Callers : DataDue(x)' <=> DataDue(x)
    BY DEF DataDue, MessageOut, DataOut, SendState, DataFailed, writerVars, callVars
  <2>3. \A x \in Callers : EndDue(x)' <=> EndDue(x)
    BY DEF EndDue, MessageOut, EndOut, HasStream, SendState, DataFailed, writerVars, callVars
  <2> QED
    BY <2>1, <2>2, <2>3, DuesDecidePeer
<1>10. BeforeInv'
  BY HasStays
  DEF BeforeInv, Started, MessageOut, DataOut, EndOut, HasStream, NoErrInv, PlacesInv,
      MainInv, StreamInv, Requested, Writing, SendState, StreamWriterState, Inv,
      WriterTypeOK, DataFailed, writerVars, callVars, wireVars
<1> QED
  BY <1>3, <1>4, <1>5, <1>6, <1>7, <1>8, <1>9, <1>10 DEF PlacesInv

\* The waiter sees the stream done.
LEMMA StreamDoneKeeps ==
  ASSUME DraftInv, NEW t \in Callers, StreamDone(t)
  PROVE  DraftInv'
<1>1. send' \in [Callers -> SendState]
  <2>1. /\ send \in [Callers -> SendState] /\ \A g \in Goroutines : err[g] \in BOOLEAN
        /\ main(t) \in Goroutines /\ dataOf(t) \in Goroutines
    BY GoroutineKinds DEF DraftInv, TypeOK, WriterTypeOK
  <2> QED
    BY <2>1
    DEF SendState, StreamDone
<1>2. sw' \in [Callers -> StreamWriterState]
  BY DEF DraftInv, TypeOK, StreamDone
<1> USE GoroutineKinds DEF DraftInv, TypeOK, peerVars
<1>3. Inv'
  BY StutterKeeps
  DEF StreamDone, writerVars, callVars, wireVars
<1>4. TypeOK' /\ GotTypeOK'
  BY <1>3, <1>1, <1>2
  DEF Inv, GotTypeOK, StreamDone, writerVars, callVars, wireVars
<1>5. MainInv'
  BY DEF PlacesInv, MainInv, StreamInv, SendState, StreamWriterState, HasStream,
      Requested, PartsDone, StreamDone, writerVars, callVars, wireVars
<1>6. StreamInv'
  BY DEF PlacesInv, MainInv, StreamInv, SendState, StreamWriterState, Writing, PartsDone,
      Requested, HasStream, StreamDone, writerVars, callVars, wireVars
<1>7. OpsInv' /\ OwnsInv'
  BY DEF OpsInv, OwnsInv, PlacesInv, MainInv, StreamInv, SendState, StreamWriterState,
      Writing, Inv, WriterTypeOK, CallInv, NoChannel, StreamDone, writerVars, callVars,
      wireVars
<1>8. NoErrInv'
  BY DEF NoErrInv, SendState, StreamWriterState, Inv, WriterTypeOK, StreamDone,
      writerVars, callVars, wireVars
<1>9. PeerInv'
  BY DEF PeerInv, DataDue, EndDue, MessageOut, DataOut, EndOut, HasStream, NoErrInv,
      PlacesInv, MainInv, StreamInv, Requested, PartsDone, Writing, SendState,
      StreamWriterState, Inv, WriterTypeOK, StreamDone, writerVars, callVars, wireVars
<1>10. BeforeInv'
  BY HasStays
  DEF BeforeInv, Started, MessageOut, DataOut, EndOut, HasStream, NoErrInv, PlacesInv,
      MainInv, StreamInv, Requested, Writing, SendState, StreamWriterState, Inv,
      WriterTypeOK, StreamDone, writerVars, callVars, wireVars
<1> QED
  BY <1>3, <1>4, <1>5, <1>6, <1>7, <1>8, <1>9, <1>10 DEF PlacesInv

\* Its error is tested.
LEMMA StreamTestKeeps ==
  ASSUME DraftInv, NEW t \in Callers, StreamTest(t)
  PROVE  DraftInv'
<1>1. send' \in [Callers -> SendState]
  <2>1. /\ send \in [Callers -> SendState] /\ \A g \in Goroutines : err[g] \in BOOLEAN
        /\ main(t) \in Goroutines /\ dataOf(t) \in Goroutines
    BY GoroutineKinds DEF DraftInv, TypeOK, WriterTypeOK
  <2>2. Test(t) \in BOOLEAN
    BY <2>1 DEF Test, SendState
  <2> QED
    BY <2>1, <2>2 DEF SendState, StreamTest
<1>2. sw' \in [Callers -> StreamWriterState]
  BY DEF DraftInv, TypeOK, StreamTest
<1> USE GoroutineKinds DEF DraftInv, TypeOK, peerVars
<1>3. Inv'
  BY StutterKeeps
  DEF StreamTest, Test, writerVars, callVars, wireVars
<1>4. TypeOK' /\ GotTypeOK'
  BY <1>3, <1>1, <1>2
  DEF Inv, GotTypeOK, StreamTest, Test, writerVars, callVars, wireVars
<1>5. MainInv'
  BY DEF PlacesInv, MainInv, StreamInv, SendState, StreamWriterState, HasStream,
      Requested, PartsDone, StreamTest, Test, writerVars, callVars, wireVars
<1>6. StreamInv'
  BY DEF PlacesInv, MainInv, StreamInv, SendState, StreamWriterState, Writing, PartsDone,
      Requested, HasStream, StreamTest, Test, writerVars, callVars, wireVars
<1>7. OpsInv' /\ OwnsInv'
  BY DEF OpsInv, OwnsInv, PlacesInv, MainInv, StreamInv, SendState, StreamWriterState,
      Writing, Inv, WriterTypeOK, CallInv, NoChannel, StreamTest, Test, writerVars,
      callVars, wireVars
<1>8. NoErrInv'
  BY DEF NoErrInv, SendState, StreamWriterState, Inv, WriterTypeOK, StreamTest, Test,
      writerVars, callVars, wireVars
<1>9. PeerInv'
  <2>1. UNCHANGED <<draft, channel, message, data, stream, rejected>> /\ (broken => broken')
    BY DEF StreamTest, writerVars, callVars, wireVars
  <2>2. \A x \in Callers : DataDue(x)' <=> DataDue(x)
    BY DEF DataDue, MessageOut, DataOut, SendState, StreamTest, writerVars, callVars
  <2>3. \A x \in Callers : EndDue(x)' <=> EndDue(x)
    BY DEF EndDue, MessageOut, EndOut, HasStream, SendState, StreamTest, writerVars, callVars
  <2> QED
    BY <2>1, <2>2, <2>3, DuesDecidePeer
<1>10. BeforeInv'
  BY HasStays
  DEF BeforeInv, Started, MessageOut, DataOut, EndOut, HasStream, NoErrInv, PlacesInv,
      MainInv, StreamInv, Requested, Writing, SendState, StreamWriterState, Inv,
      WriterTypeOK, StreamTest, Test, writerVars, callVars, wireVars
<1> QED
  BY <1>3, <1>4, <1>5, <1>6, <1>7, <1>8, <1>9, <1>10 DEF PlacesInv

\* Its error, as it is by then, becomes finalErr.
LEMMA StreamFailedKeeps ==
  ASSUME DraftInv, NEW t \in Callers, StreamFailed(t)
  PROVE  DraftInv'
<1>1. send' \in [Callers -> SendState]
  <2>1. /\ send \in [Callers -> SendState] /\ \A g \in Goroutines : err[g] \in BOOLEAN
        /\ main(t) \in Goroutines /\ dataOf(t) \in Goroutines
    BY GoroutineKinds DEF DraftInv, TypeOK, WriterTypeOK
  <2>2. send[t].err \in BOOLEAN
    BY <2>1 DEF SendState
  <2> QED
    BY <2>1, <2>2 DEF SendState, StreamFailed
<1>2. sw' \in [Callers -> StreamWriterState]
  BY DEF DraftInv, TypeOK, StreamFailed
<1> USE GoroutineKinds DEF DraftInv, TypeOK, peerVars
<1>3. Inv'
  BY StutterKeeps
  DEF StreamFailed, writerVars, callVars, wireVars
<1>4. TypeOK' /\ GotTypeOK'
  BY <1>3, <1>1, <1>2
  DEF Inv, GotTypeOK, StreamFailed, writerVars, callVars, wireVars
<1>5. MainInv'
  BY DEF PlacesInv, MainInv, StreamInv, SendState, StreamWriterState, HasStream,
      Requested, PartsDone, StreamFailed, writerVars, callVars, wireVars
<1>6. StreamInv'
  BY DEF PlacesInv, MainInv, StreamInv, SendState, StreamWriterState, Writing, PartsDone,
      Requested, HasStream, StreamFailed, writerVars, callVars, wireVars
<1>7. OpsInv' /\ OwnsInv'
  BY DEF OpsInv, OwnsInv, PlacesInv, MainInv, StreamInv, SendState, StreamWriterState,
      Writing, Inv, WriterTypeOK, CallInv, NoChannel, StreamFailed, writerVars,
      callVars, wireVars
<1>8. NoErrInv'
  BY DEF NoErrInv, SendState, StreamWriterState, Inv, WriterTypeOK, StreamFailed,
      writerVars, callVars, wireVars
<1>9. PeerInv'
  <2>1. UNCHANGED <<draft, channel, message, data, stream, rejected>> /\ (broken => broken')
    BY DEF StreamFailed, writerVars, callVars, wireVars
  <2>2. \A x \in Callers : DataDue(x)' <=> DataDue(x)
    BY DEF DataDue, MessageOut, DataOut, SendState, StreamFailed, writerVars, callVars
  <2>3. \A x \in Callers : EndDue(x)' <=> EndDue(x)
    BY DEF EndDue, MessageOut, EndOut, HasStream, SendState, StreamFailed, writerVars, callVars
  <2> QED
    BY <2>1, <2>2, <2>3, DuesDecidePeer
<1>10. BeforeInv'
  BY HasStays
  DEF BeforeInv, Started, MessageOut, DataOut, EndOut, HasStream, NoErrInv, PlacesInv,
      MainInv, StreamInv, Requested, Writing, SendState, StreamWriterState, Inv,
      WriterTypeOK, StreamFailed, writerVars, callVars, wireVars
<1> QED
  BY <1>3, <1>4, <1>5, <1>6, <1>7, <1>8, <1>9, <1>10 DEF PlacesInv

\* A user writes a chunk.
LEMMA StreamWriteKeeps ==
  ASSUME DraftInv, NEW u \in UserGoroutines, StreamWrite(u)
  PROVE  DraftInv'
<1>1. send' \in [Callers -> SendState]
  BY DEF DraftInv, TypeOK, StreamWrite
<1>2. sw' \in [Callers -> StreamWriterState]
  <2>1. /\ sw \in [Callers -> StreamWriterState] /\ \A g \in Goroutines : err[g] \in BOOLEAN
        /\ Owner(u) \in Callers /\ u \in Goroutines
    BY GoroutineKinds DEF DraftInv, TypeOK, WriterTypeOK
  <2> QED
    BY <2>1, MessageDraftAssumption
    DEF StreamWriterState, StreamWrite
<1> USE GoroutineKinds DEF DraftInv, TypeOK, peerVars
<1>3. Inv'
  BY StreamWriteKeepsContract, InvNext
<1>4. TypeOK' /\ GotTypeOK'
  BY <1>3, <1>1, <1>2
  DEF Inv, GotTypeOK, StreamWrite, MayUse, UserGoto, Call, wireVars
<1>5. MainInv'
  BY DEF PlacesInv, MainInv, StreamInv, SendState, StreamWriterState, HasStream,
      Requested, PartsDone, StreamWrite, MayUse, UserGoto, Call, wireVars
<1>6. StreamInv'
  BY DEF PlacesInv, MainInv, StreamInv, SendState, StreamWriterState, Writing, PartsDone,
      Requested, HasStream, StreamWrite, MayUse, UserGoto, Call, wireVars
<1>7. OpsInv' /\ OwnsInv'
  BY DEF OpsInv, OwnsInv, PlacesInv, MainInv, StreamInv, SendState, StreamWriterState,
      Writing, Inv, WriterTypeOK, CallInv, NoChannel, StreamWrite, MayUse, UserGoto,
      Call, wireVars
<1>8. NoErrInv'
  BY DEF NoErrInv, SendState, StreamWriterState, Inv, WriterTypeOK, StreamWrite, MayUse,
      UserGoto, Call, wireVars
<1>9. PeerInv'
  <2>1. UNCHANGED <<draft, channel, message, data, stream, rejected, send>> /\ (broken => broken')
    BY DEF StreamWrite, Call, wireVars
  <2>2. \A t \in Callers : sw'[t].done = sw[t].done
    BY DEF StreamWrite, StreamWriterState
  <2>3. \A t \in Callers : pc'[main(t)] = pc[main(t)] /\ pc'[dataOf(t)] = pc[dataOf(t)]
    BY DEF StreamWrite, Call, WriterTypeOK
  <2>4. \A v \in UserGoroutines :
          userAt'[v] = "end" /\ pc'[v] = "idle" <=> userAt[v] = "end" /\ pc[v] = "idle"
    BY DEF StreamWrite, MayUse, UserGoto, Call, WriterTypeOK
  <2>5. \A t \in Callers : (DataDue(t)' <=> DataDue(t)) /\ (EndDue(t)' <=> EndDue(t))
    BY <2>1, <2>2, <2>3, <2>4 DEF DataDue, EndDue, MessageOut, DataOut, EndOut, HasStream
  <2> QED
    BY <2>1, <2>5, DuesDecidePeer
<1>10. BeforeInv'
  <2>1. UNCHANGED <<got, broken, draft, send>>
    BY DEF StreamWrite, Call, wireVars
  <2>2. \A t \in Callers : sw'[t].done = sw[t].done
    BY DEF StreamWrite, StreamWriterState
  <2>3. \A t \in Callers : pc'[main(t)] = pc[main(t)] /\ pc'[dataOf(t)] = pc[dataOf(t)]
    BY DEF StreamWrite, Call, WriterTypeOK
  <2>4. \A v \in UserGoroutines : userAt[v] = "end" /\ pc[v] = "idle" =>
          userAt'[v] = "end" /\ pc'[v] = "idle"
    BY DEF StreamWrite, MayUse, UserGoto, Call, WriterTypeOK
  <2>5. \A t \in Callers : /\ Started(t)' = Started(t)
                           /\ DataOut(t)' = DataOut(t)
                           /\ EndOut(t) => EndOut(t)'
    BY <2>1, <2>2, <2>3, <2>4 DEF Started, MessageOut, DataOut, EndOut
  <2> QED
    BY <2>1, <2>5, HasStays DEF BeforeInv
<1> QED
  BY <1>3, <1>4, <1>5, <1>6, <1>7, <1>8, <1>9, <1>10 DEF PlacesInv

\* Its Write returns.
LEMMA StreamWrittenKeeps ==
  ASSUME DraftInv, NEW u \in UserGoroutines, StreamWritten(u)
  PROVE  DraftInv'
<1>1. send' \in [Callers -> SendState]
  BY DEF DraftInv, TypeOK, StreamWritten
<1>2. sw' \in [Callers -> StreamWriterState]
  <2>1. /\ sw \in [Callers -> StreamWriterState] /\ \A g \in Goroutines : err[g] \in BOOLEAN
        /\ Owner(u) \in Callers /\ u \in Goroutines
    BY GoroutineKinds DEF DraftInv, TypeOK, WriterTypeOK
  <2> DEFINE r == [sw[Owner(u)] EXCEPT !.mu = FALSE, !.err = sw[Owner(u)].err \/ err[u],
                                    !.done = err[u]]
  <2>2. sw' = [sw EXCEPT ![Owner(u)] = r]
    BY <2>1 DEF StreamWritten
  <2>3. r \in StreamWriterState
    BY <2>1 DEF StreamWriterState
  <2> QED
    BY <2>1, <2>2, <2>3
<1> USE GoroutineKinds DEF DraftInv, TypeOK, peerVars
<1>3. Inv'
  BY StutterKeeps
  DEF StreamWritten, UserGoto, writerVars, callVars, wireVars
<1>4. TypeOK' /\ GotTypeOK'
  BY <1>3, <1>1, <1>2
  DEF Inv, GotTypeOK, StreamWritten, UserGoto, writerVars, callVars, wireVars
<1>5. MainInv'
  <2>1. UNCHANGED <<draft, send>>
    BY DEF StreamWritten
  <2>2. send[Owner(u)].waiter = "wait"
    BY DEF PlacesInv, StreamInv, Writing, StreamWritten
  <2>3. \A t \in Callers : t # Owner(u) => sw'[t] = sw[t]
    BY DEF StreamWritten
  <2> QED
    BY <2>1, <2>2, <2>3 DEF PlacesInv, MainInv, PartsDone, Requested, HasStream
<1>6. StreamInv'
  BY DEF PlacesInv, MainInv, StreamInv, SendState, StreamWriterState, Writing, PartsDone,
      Requested, HasStream, StreamWritten, UserGoto, writerVars, callVars, wireVars
<1>7. OpsInv' /\ OwnsInv'
  BY DEF OpsInv, OwnsInv, PlacesInv, MainInv, StreamInv, SendState, StreamWriterState,
      Writing, Inv, WriterTypeOK, CallInv, NoChannel, StreamWritten, UserGoto,
      writerVars, callVars, wireVars
<1>8. NoErrInv'
  BY DEF NoErrInv, SendState, StreamWriterState, Inv, WriterTypeOK, StreamWritten,
      UserGoto, writerVars, callVars, wireVars
<1>9. PeerInv'
  BY DEF PeerInv, DataDue, EndDue, MessageOut, DataOut, EndOut, HasStream, NoErrInv,
      PlacesInv, MainInv, StreamInv, Requested, PartsDone, Writing, SendState,
      StreamWriterState, Inv, WriterTypeOK, StreamWritten, UserGoto, writerVars,
      callVars, wireVars
<1>10. BeforeInv'
  BY HasStays
  DEF BeforeInv, Started, MessageOut, DataOut, EndOut, HasStream, NoErrInv, PlacesInv,
      MainInv, StreamInv, Requested, Writing, SendState, StreamWriterState, Inv,
      WriterTypeOK, StreamWritten, UserGoto, writerVars, callVars, wireVars
<1> QED
  BY <1>3, <1>4, <1>5, <1>6, <1>7, <1>8, <1>9, <1>10 DEF PlacesInv

\* A user closes a stream that is done.
LEMMA StreamCloseAgainKeeps ==
  ASSUME DraftInv, NEW u \in UserGoroutines, StreamCloseAgain(u)
  PROVE  DraftInv'
<1>1. send' \in [Callers -> SendState]
  BY DEF DraftInv, TypeOK, StreamCloseAgain
<1>2. sw' \in [Callers -> StreamWriterState]
  BY DEF DraftInv, TypeOK, StreamCloseAgain
<1> USE GoroutineKinds DEF DraftInv, TypeOK, peerVars
<1>3. Inv'
  BY StutterKeeps
  DEF StreamCloseAgain, MayUse, UserGoto, writerVars, callVars, wireVars
<1>4. TypeOK' /\ GotTypeOK'
  BY <1>3, <1>1, <1>2
  DEF Inv, GotTypeOK, StreamCloseAgain, MayUse, UserGoto, writerVars, callVars,
      wireVars
<1>5. MainInv'
  BY DEF PlacesInv, MainInv, StreamInv, SendState, StreamWriterState, HasStream,
      Requested, PartsDone, StreamCloseAgain, MayUse, UserGoto, writerVars, callVars,
      wireVars
<1>6. StreamInv'
  BY DEF PlacesInv, MainInv, StreamInv, SendState, StreamWriterState, Writing, PartsDone,
      Requested, HasStream, StreamCloseAgain, MayUse, UserGoto, writerVars, callVars,
      wireVars
<1>7. OpsInv' /\ OwnsInv'
  BY DEF OpsInv, OwnsInv, PlacesInv, MainInv, StreamInv, SendState, StreamWriterState,
      Writing, Inv, WriterTypeOK, CallInv, NoChannel, StreamCloseAgain, MayUse,
      UserGoto, writerVars, callVars, wireVars
<1>8. NoErrInv'
  BY DEF NoErrInv, SendState, StreamWriterState, Inv, WriterTypeOK, StreamCloseAgain,
      MayUse, UserGoto, writerVars, callVars, wireVars
<1>9. PeerInv'
  BY DEF PeerInv, DataDue, EndDue, MessageOut, DataOut, EndOut, HasStream, NoErrInv,
      PlacesInv, MainInv, StreamInv, Requested, PartsDone, Writing, SendState,
      StreamWriterState, Inv, WriterTypeOK, StreamCloseAgain, MayUse, UserGoto,
      writerVars, callVars, wireVars
<1>10. BeforeInv'
  BY HasStays
  DEF BeforeInv, Started, MessageOut, DataOut, EndOut, HasStream, NoErrInv, PlacesInv,
      MainInv, StreamInv, Requested, Writing, SendState, StreamWriterState, Inv,
      WriterTypeOK, StreamCloseAgain, MayUse, UserGoto, writerVars, callVars, wireVars
<1> QED
  BY <1>3, <1>4, <1>5, <1>6, <1>7, <1>8, <1>9, <1>10 DEF PlacesInv

\* A user closes the stream.
LEMMA StreamCloseKeeps ==
  ASSUME DraftInv, NEW u \in UserGoroutines, StreamClose(u)
  PROVE  DraftInv'
<1>1. send' \in [Callers -> SendState]
  BY DEF DraftInv, TypeOK, StreamClose
<1>2. sw' \in [Callers -> StreamWriterState]
  <2>1. /\ sw \in [Callers -> StreamWriterState] /\ \A g \in Goroutines : err[g] \in BOOLEAN
        /\ Owner(u) \in Callers /\ u \in Goroutines
    BY GoroutineKinds DEF DraftInv, TypeOK, WriterTypeOK
  <2> QED
    BY <2>1, MessageDraftAssumption
    DEF StreamWriterState, StreamClose
<1> USE GoroutineKinds DEF DraftInv, TypeOK, peerVars
<1>3. Inv'
  BY StreamCloseKeepsContract, InvNext
<1>4. TypeOK' /\ GotTypeOK'
  BY <1>3, <1>1, <1>2
  DEF Inv, GotTypeOK, StreamClose, MayUse, UserGoto, Call, wireVars
<1>5. MainInv'
  BY DEF PlacesInv, MainInv, StreamInv, SendState, StreamWriterState, HasStream,
      Requested, PartsDone, StreamClose, MayUse, UserGoto, Call, wireVars
<1>6. StreamInv'
  BY DEF PlacesInv, MainInv, StreamInv, SendState, StreamWriterState, Writing, PartsDone,
      Requested, HasStream, StreamClose, MayUse, UserGoto, Call, wireVars
<1>7. OpsInv' /\ OwnsInv'
  BY DEF OpsInv, OwnsInv, PlacesInv, MainInv, StreamInv, SendState, StreamWriterState,
      Writing, Inv, WriterTypeOK, CallInv, NoChannel, StreamClose, MayUse, UserGoto,
      Call, wireVars
<1>8. NoErrInv'
  BY DEF NoErrInv, SendState, StreamWriterState, Inv, WriterTypeOK, StreamClose, MayUse,
      UserGoto, Call, wireVars
<1>9. PeerInv'
  BY DEF PeerInv, DataDue, EndDue, MessageOut, DataOut, EndOut, HasStream, NoErrInv,
      PlacesInv, MainInv, StreamInv, Requested, PartsDone, Writing, SendState,
      StreamWriterState, Inv, WriterTypeOK, StreamClose, MayUse, UserGoto, Call,
      wireVars
<1>10. BeforeInv'
  BY HasStays
  DEF BeforeInv, Started, MessageOut, DataOut, EndOut, HasStream, NoErrInv, PlacesInv,
      MainInv, StreamInv, Requested, Writing, SendState, StreamWriterState, Inv,
      WriterTypeOK, StreamClose, MayUse, UserGoto, Call, wireVars
<1> QED
  BY <1>3, <1>4, <1>5, <1>6, <1>7, <1>8, <1>9, <1>10 DEF PlacesInv

\* Its Close returns.
LEMMA StreamClosedKeeps ==
  ASSUME DraftInv, NEW u \in UserGoroutines, StreamClosed(u)
  PROVE  DraftInv'
<1>1. send' \in [Callers -> SendState]
  BY DEF DraftInv, TypeOK, StreamClosed
<1>2. sw' \in [Callers -> StreamWriterState]
  <2>1. /\ sw \in [Callers -> StreamWriterState] /\ \A g \in Goroutines : err[g] \in BOOLEAN
        /\ Owner(u) \in Callers /\ u \in Goroutines
    BY GoroutineKinds DEF DraftInv, TypeOK, WriterTypeOK
  <2> DEFINE r == [sw[Owner(u)] EXCEPT !.mu = FALSE, !.err = sw[Owner(u)].err \/ err[u],
                                    !.done = ~ err[u]]
  <2>2. sw' = [sw EXCEPT ![Owner(u)] = r]
    BY <2>1 DEF StreamClosed
  <2>3. r \in StreamWriterState
    BY <2>1 DEF StreamWriterState
  <2> QED
    BY <2>1, <2>2, <2>3
<1> USE GoroutineKinds DEF DraftInv, TypeOK, peerVars
<1>3. Inv'
  BY StutterKeeps
  DEF StreamClosed, UserGoto, writerVars, callVars, wireVars
<1>4. TypeOK' /\ GotTypeOK'
  BY <1>3, <1>1, <1>2
  DEF Inv, GotTypeOK, StreamClosed, UserGoto, writerVars, callVars, wireVars
<1>5. MainInv'
  BY DEF PlacesInv, MainInv, StreamInv, SendState, StreamWriterState, HasStream,
      Requested, PartsDone, StreamClosed, UserGoto, writerVars, callVars, wireVars
<1>6. StreamInv'
  BY DEF PlacesInv, MainInv, StreamInv, SendState, StreamWriterState, Writing, PartsDone,
      Requested, HasStream, StreamClosed, UserGoto, writerVars, callVars, wireVars
<1>7. OpsInv' /\ OwnsInv'
  BY DEF OpsInv, OwnsInv, PlacesInv, MainInv, StreamInv, SendState, StreamWriterState,
      Writing, Inv, WriterTypeOK, CallInv, NoChannel, StreamClosed, UserGoto,
      writerVars, callVars, wireVars
<1>8. NoErrInv'
  BY DEF NoErrInv, SendState, StreamWriterState, Inv, WriterTypeOK, StreamClosed,
      UserGoto, writerVars, callVars, wireVars
<1>9. PeerInv'
  BY DEF PeerInv, DataDue, EndDue, MessageOut, DataOut, EndOut, HasStream, NoErrInv,
      PlacesInv, MainInv, StreamInv, Requested, PartsDone, Writing, SendState,
      StreamWriterState, Inv, WriterTypeOK, StreamClosed, UserGoto, writerVars,
      callVars, wireVars
<1>10. BeforeInv'
  BY HasStays
  DEF BeforeInv, Started, MessageOut, DataOut, EndOut, HasStream, NoErrInv, PlacesInv,
      MainInv, StreamInv, Requested, Writing, SendState, StreamWriterState, Inv,
      WriterTypeOK, StreamClosed, UserGoto, writerVars, callVars, wireVars
<1> QED
  BY <1>3, <1>4, <1>5, <1>6, <1>7, <1>8, <1>9, <1>10 DEF PlacesInv

-----------------------------------------------------------------------------
(* DraftInv is inductive: the steps of the writer.                         *)

LEMMA OpIsDraftOp == DraftInv => \A g \in Goroutines : op[g] \in DraftOps
BY GoroutineKinds DEF DraftInv, OpsInv, DraftOps

\* What a step of the writer leaves or keeps apart from the peer.
LEMMA WriterRunsPlain ==
  ASSUME DraftInv, NEW g \in Goroutines, WriterRuns(g)
  PROVE  Inv' /\ PlacesInv' /\ OpsInv' /\ OwnsInv' /\ NoErrInv'
<1>1. UNCHANGED <<draft, send, sw, userAt>>
  BY DEF WriterRuns
<1>2. Inv'
  BY InvNext DEF DraftInv, WriterRuns, WriterNext
<1>3. PlacesInv'
  BY <1>1 DEF DraftInv, PlacesInv, MainInv, StreamInv, Writing, PartsDone, Requested, HasStream
<1>4. /\ op[g] # "None"
      /\ broken' = broken
      /\ \A h \in Goroutines : h # g => pc'[h] = pc[h] /\ op'[h] = op[h] /\ err'[h] = err[h]
      /\ Continues(g) \/ Obtained(g) \/ Written(g) \/ Failed(g)
  BY OpIsDraftOp, StepOfWriter DEF DraftInv, WriterRuns
<1>5. \A h \in Goroutines : op'[h] = op[h] \/ op'[h] = "None"
  BY <1>4 DEF Continues, Obtained, Written, Failed
<1>6. OpsInv'
  BY <1>1, <1>5, GoroutineKinds DEF DraftInv, OpsInv
<1>7. \A t \in Callers : \/ channel'[t] = channel[t]
                         \/ channel'[t] \in ChannelID /\ channel[t] = NoChannel
  <2>1. channel \in [Callers -> ChannelID \cup {NoChannel}]
    BY DEF DraftInv, TypeOK, WriterTypeOK
  <2>2. CASE Obtained(g)
    <3>1. PICK c \in ChannelID : channel' = [channel EXCEPT ![Owner(g)] = c]
      BY <2>2 DEF Obtained
    <3> QED
      BY <2>1, <2>2, <3>1, GoroutineKinds DEF Obtained
  <2>3. CASE channel' = channel
    BY <2>3
  <2> QED
    BY <1>4, <2>2, <2>3 DEF Continues, Written, Failed
<1>8. OwnsInv'
  <2>1. ASSUME NEW t \in Callers, send[t].main \in {"new", "fast"}
        PROVE  channel'[t] = NoChannel
    <3>1. channel[t] = NoChannel
      BY <2>1 DEF DraftInv, OwnsInv
    <3>2. ~ Obtained(g) \/ Owner(g) # t
      BY <2>1, GoroutineKinds DEF Obtained, DraftInv, OpsInv
    <3> QED
      BY <1>4, <3>1, <3>2, GoroutineKinds
      DEF Continues, Obtained, Written, Failed, DraftInv, TypeOK, WriterTypeOK
  <2>2. ASSUME NEW t \in Callers, send[t].main = "obtain", pc'[main(t)] = "idle"
        PROVE  channel'[t] # NoChannel
    <3>1. CASE g = main(t)
      <4>1. Obtained(g)
        BY <1>4, <2>2, <3>1, GoroutineKinds DEF Continues, Written, Failed, DraftInv, OpsInv
      <4> QED
        BY <4>1, <3>1, NoChannelIsNone, GoroutineKinds DEF Obtained, DraftInv, TypeOK, WriterTypeOK
    <3>2. CASE g # main(t)
      BY <1>4, <1>7, <2>2, <3>2, NoChannelIsNone, GoroutineKinds DEF DraftInv, OwnsInv
    <3> QED
      BY <3>1, <3>2
  <2>3. ASSUME NEW t \in Callers, send[t].main \in {"message", "simulate", "assigned", "failed", "wait"}
        PROVE  channel'[t] # NoChannel
    BY <1>7, <2>3, NoChannelIsNone DEF DraftInv, OwnsInv
  <2> QED
    BY <1>1, <2>1, <2>2, <2>3 DEF OwnsInv
<1>9. NoErrInv'
  BY <1>1, <1>4 DEF DraftInv, NoErrInv, Continues, Obtained, Written, Failed
<1> QED
  BY <1>2, <1>3, <1>6, <1>8, <1>9

\* The call goes on.
LEMMA ContinuesKeeps ==
  ASSUME DraftInv, NEW g \in Goroutines, WriterRuns(g), Continues(g)
  PROVE  DraftInv'
<1>1. Inv' /\ PlacesInv' /\ OpsInv' /\ OwnsInv' /\ NoErrInv'
  BY WriterRunsPlain
<1>2. UNCHANGED <<draft, send, sw, userAt, message, data, stream, got, rejected>>
  BY DEF WriterRuns, Continues, peerVars
<1>3. /\ broken' = broken /\ channel' = channel
      /\ \A h \in Goroutines : pc'[h] = "idle" <=> pc[h] = "idle"
  BY OpIsDraftOp, StepOfWriter DEF DraftInv, WriterRuns, Continues
<1>4. \A t \in Callers : /\ MessageOut(t)' <=> MessageOut(t)
                         /\ Started(t)' <=> Started(t)
                         /\ DataOut(t)' <=> DataOut(t)
                         /\ EndOut(t)' <=> EndOut(t)
  BY <1>2, <1>3, GoroutineKinds DEF MessageOut, Started, DataOut, EndOut
<1>5. \A t \in Callers : (DataDue(t)' <=> DataDue(t)) /\ (EndDue(t)' <=> EndDue(t))
  BY <1>2, <1>4 DEF DataDue, EndDue, HasStream
<1>6. TypeOK' /\ GotTypeOK'
  BY <1>1, <1>2 DEF DraftInv, TypeOK, GotTypeOK, Inv
<1>7. PeerInv'
  BY <1>2, <1>3, <1>5 DEF DraftInv, PeerInv, HasStream
<1>8. BeforeInv'
  BY <1>2, <1>3, <1>4, HasStays DEF DraftInv, BeforeInv
<1> QED
  BY <1>1, <1>6, <1>7, <1>8 DEF DraftInv

\* ObtainChannel returns: the peer is idle on a channel that nobody owned.
LEMMA ObtainedKeeps ==
  ASSUME DraftInv, NEW g \in Goroutines, WriterRuns(g), Obtained(g)
  PROVE  DraftInv'
<1>1. Inv' /\ PlacesInv' /\ OpsInv' /\ OwnsInv' /\ NoErrInv'
  BY WriterRunsPlain
<1>2. UNCHANGED <<draft, send, sw, userAt, message, data, stream, got, rejected>>
  BY DEF WriterRuns, Obtained, peerVars
<1>3. /\ broken' = broken
      /\ \A h \in Goroutines : h # g => pc'[h] = pc[h]
  BY OpIsDraftOp, StepOfWriter DEF DraftInv, WriterRuns
<1>4. PICK t \in Callers : g = main(t) /\ send[t].main = "obtain"
  BY GoroutineKinds DEF Obtained, DraftInv, OpsInv
<1>5. \A x \in Callers : /\ MessageOut(x)' <=> MessageOut(x)
                         /\ Started(x)' <=> Started(x)
                         /\ DataOut(x)' <=> DataOut(x)
                         /\ EndOut(x)' <=> EndOut(x)
  BY <1>2, <1>3, <1>4, GoroutineKinds DEF MessageOut, Started, DataOut, EndOut
<1>6. \A x \in Callers : (DataDue(x)' <=> DataDue(x)) /\ (EndDue(x)' <=> EndDue(x))
  BY <1>2, <1>5 DEF DataDue, EndDue, HasStream
<1>7. ~ DataDue(t) /\ ~ EndDue(t)
  BY <1>4 DEF DataDue, EndDue, MessageOut
<1>8. TypeOK' /\ GotTypeOK'
  BY <1>1, <1>2 DEF DraftInv, TypeOK, GotTypeOK, Inv
<1>9. PeerInv'
  <2>1. PICK c \in ChannelID : /\ \A x \in Callers : channel[x] # c
                               /\ channel' = [channel EXCEPT ![t] = c]
    BY <1>4, GoroutineKinds DEF Obtained
  <2>2. channel[t] = NoChannel
    BY <1>4, GoroutineKinds DEF Obtained
  <2>3. channel \in [Callers -> ChannelID \cup {NoChannel}]
    BY DEF DraftInv, TypeOK, WriterTypeOK
  <2> QED
    BY <1>2, <1>3, <1>6, <1>7, <2>1, <2>2, <2>3, NoChannelIsNone DEF DraftInv, PeerInv, HasStream
<1>10. BeforeInv'
  BY <1>2, <1>3, <1>5, HasStays DEF DraftInv, BeforeInv
<1> QED
  BY <1>1, <1>8, <1>9, <1>10 DEF DraftInv

\* The target fails, and the peer reads nothing any more.
LEMMA FailedKeeps ==
  ASSUME DraftInv, NEW g \in Goroutines, WriterRuns(g), Failed(g)
  PROVE  DraftInv'
<1>1. Inv' /\ PlacesInv' /\ OpsInv' /\ OwnsInv' /\ NoErrInv'
  BY WriterRunsPlain
<1>2. UNCHANGED <<draft, send, sw, userAt, message, data, stream, got, rejected>>
  BY DEF WriterRuns, Failed, peerVars
<1>3. /\ broken /\ broken'
      /\ pc'[g] = "idle"
      /\ \A h \in Goroutines : h # g => pc'[h] = pc[h]
  BY OpIsDraftOp, StepOfWriter DEF DraftInv, WriterRuns, Failed
<1>4. TypeOK' /\ GotTypeOK'
  BY <1>1, <1>2 DEF DraftInv, TypeOK, GotTypeOK, Inv
<1>5. PeerInv'
  BY <1>2, <1>3 DEF DraftInv, PeerInv
<1>6. \A t \in Callers : Started(t) => Started(t)'
  BY <1>2, <1>3, GoroutineKinds DEF Started, MessageOut
<1>7. BeforeInv'
  BY <1>2, <1>3, <1>6 DEF DraftInv, BeforeInv
<1> QED
  BY <1>1, <1>4, <1>5, <1>7 DEF DraftInv

\* A packet is written, and the peer reads it.
LEMMA WrittenFacts ==
  ASSUME DraftInv, NEW g \in Goroutines, WriterRuns(g), Written(g)
  PROVE  /\ UNCHANGED <<draft, send, sw, userAt, broken, channel>>
         /\ ~ broken
         /\ pc[g] # "idle" /\ op[g] # "None" /\ pc'[g] = "idle"
         /\ \A h \in Goroutines : h # g => pc'[h] = pc[h]
         /\ PeerReads(g)
         /\ \A x \in Callers :
              /\ MessageOut(x) => MessageOut(x)'
              /\ Started(x) => Started(x)'
              /\ DataOut(x) => DataOut(x)'
              /\ EndOut(x) => EndOut(x)'
         /\ \A x \in Callers : x # Owner(g) =>
              (DataDue(x)' <=> DataDue(x)) /\ (EndDue(x)' <=> EndDue(x))
<1>1. UNCHANGED <<draft, send, sw, userAt, channel>> /\ ~ broken /\ PeerReads(g)
  BY DEF WriterRuns, Written, Completes
<1>2. /\ pc[g] # "idle" /\ op[g] # "None" /\ pc'[g] = "idle"
      /\ broken' = broken
      /\ \A h \in Goroutines : h # g => pc'[h] = pc[h]
  BY OpIsDraftOp, StepOfWriter DEF DraftInv, WriterRuns, Written
<1>3. \A x \in Callers :
        /\ MessageOut(x) => MessageOut(x)'
        /\ Started(x) => Started(x)'
        /\ DataOut(x) => DataOut(x)'
        /\ EndOut(x) => EndOut(x)'
  BY <1>1, <1>2, GoroutineKinds DEF MessageOut, Started, DataOut, EndOut
<1>4. ASSUME NEW x \in Callers, x # Owner(g)
      PROVE  (DataDue(x)' <=> DataDue(x)) /\ (EndDue(x)' <=> EndDue(x))
  <2>1. /\ MessageOut(x)' <=> MessageOut(x)
        /\ DataOut(x)' <=> DataOut(x)
        /\ EndOut(x)' <=> EndOut(x)
    BY <1>1, <1>2, <1>4, GoroutineKinds DEF MessageOut, DataOut, EndOut
  <2> QED
    BY <1>1, <2>1 DEF DataDue, EndDue, HasStream
<1> QED
  BY <1>1, <1>2, <1>3, <1>4

\* The peer has changed the channel c of t only, to what t's places say.
LEMMA PeerFollows ==
  ASSUME DraftInv, NEW t \in Callers, NEW c \in ChannelID, channel[t] = c,
         UNCHANGED <<channel, draft>>, ~ broken, ~ rejected',
         message' = [message EXCEPT ![c] = message'[c]],
         data' = [data EXCEPT ![c] = data'[c]],
         stream' = [stream EXCEPT ![c] = stream'[c]],
         \A x \in Callers : x # t => (DataDue(x)' <=> DataDue(x)) /\ (EndDue(x)' <=> EndDue(x)),
         message'[c] = IF DataDue(t)' \/ EndDue(t)' THEN t ELSE NoMessage,
         data'[c] = IF DataDue(t)' THEN "pending" ELSE "none",
         stream'[c] = IF EndDue(t)' THEN "open"
                      ELSE IF HasStream(t) /\ DataDue(t)' THEN "done" ELSE "none"
  PROVE  PeerInv'
<1>1. \A x \in Callers : x # t => channel[x] # c
  BY NoChannelIsNone DEF DraftInv, Inv, ExclusiveReservation
<1>2. \A d \in ChannelID : d # c => message'[d] = message[d] /\ data'[d] = data[d] /\ stream'[d] = stream[d]
  BY DEF DraftInv, TypeOK
<1>3. HasStream(t)' = HasStream(t)
  BY DEF HasStream
<1>4. ASSUME NEW d \in ChannelID, d # c
      PROVE  /\ (\A x \in Callers : channel'[x] # d) =>
                  message'[d] = NoMessage /\ data'[d] = "none" /\ stream'[d] = "none"
             /\ \A x \in Callers : channel'[x] = d =>
                  /\ message'[d] = IF DataDue(x)' \/ EndDue(x)' THEN x ELSE NoMessage
                  /\ data'[d] = IF DataDue(x)' THEN "pending" ELSE "none"
                  /\ stream'[d] = IF EndDue(x)' THEN "open"
                                  ELSE IF HasStream(x)' /\ DataDue(x)' THEN "done" ELSE "none"
  BY <1>2, <1>4 DEF DraftInv, PeerInv, HasStream
<1> QED
  BY <1>1, <1>3, <1>4 DEF PeerInv

\* The peer was given one more part.
LEMMA GotAppend ==
  ASSUME GotTypeOK, NEW t \in Callers, NEW kind \in {"message", "data", "chunk", "end"},
         got' = [got EXCEPT ![t] = Append(@, Peer!Part(t, kind))]
  PROVE  /\ GotTypeOK'
         /\ \A x \in Callers, k \in {"message", "data", "end"} :
              Exchange!Has(x, k)' <=> Exchange!Has(x, k) \/ (x = t /\ k = kind)
         /\ \A x \in Callers : x # t => got'[x] = got[x]
<1> DEFINE Parts == [of : Callers, kind : {"message", "data", "chunk", "end"}]
           p == [of |-> t, kind |-> kind]
<1>1. got \in [Callers -> Seq(Parts)] /\ p \in Parts /\ got' = [got EXCEPT ![t] = Append(got[t], p)]
  BY DEF GotTypeOK, Peer!Part
<1>2. GotTypeOK'
  BY <1>1 DEF GotTypeOK
<1>3. \A x \in Callers : x # t => got'[x] = got[x]
  BY <1>1
<1>4. ASSUME NEW k \in {"message", "data", "end"}
      PROVE  Exchange!Has(t, k)' <=> Exchange!Has(t, k) \/ k = kind
  <2> DEFINE s == got[t]
             q == [of |-> t, kind |-> k]
  <2>1. s \in Seq(Parts) /\ got'[t] = Append(s, p)
    BY <1>1
  <2>2. /\ Len(Append(s, p)) = Len(s) + 1
        /\ Len(s) \in Nat
        /\ \A i \in 1..Len(s) : Append(s, p)[i] = s[i]
        /\ Append(s, p)[Len(s) + 1] = p
    BY <1>1, <2>1
  <2>3. p = q <=> k = kind
    OBVIOUS
  <2> HIDE DEF s, p, q
  <2>4. (\E i \in 1..Len(Append(s, p)) : Append(s, p)[i] = q) <=> (\E i \in 1..Len(s) : s[i] = q) \/ k = kind
    BY <2>2, <2>3
  <2> USE DEF s, p, q
  <2> QED
    BY <2>1, <2>4 DEF Exchange!Has, Exchange!Part, Exchange!Contains
<1>5. ASSUME NEW x \in Callers, x # t, NEW k \in {"message", "data", "end"}
      PROVE  Exchange!Has(x, k)' <=> Exchange!Has(x, k)
  BY <1>3, <1>5 DEF Exchange!Has, Exchange!Part, Exchange!Contains
<1> QED
  BY <1>2, <1>3, <1>4, <1>5

LEMMA BeforeFollows ==
  ASSUME DraftInv, NEW g \in Goroutines, WriterRuns(g), Written(g),
         NEW kind \in {"message", "data", "chunk", "end"},
         got' = [got EXCEPT ![Owner(g)] = Append(@, Peer!Part(Owner(g), kind))],
         Started(Owner(g))',
         kind = "data" => DataOut(Owner(g))',
         kind = "end" => EndOut(Owner(g))'
  PROVE  GotTypeOK' /\ BeforeInv'
<1>1. Owner(g) \in Callers
  BY GoroutineKinds
<1>2. /\ GotTypeOK'
      /\ \A x \in Callers, k \in {"message", "data", "end"} :
           Exchange!Has(x, k)' <=> Exchange!Has(x, k) \/ (x = Owner(g) /\ k = kind)
      /\ \A x \in Callers : x # Owner(g) => got'[x] = got[x]
  BY <1>1, GotAppend DEF DraftInv
<1>3. /\ ~ broken /\ broken' = broken
      /\ \A x \in Callers : /\ Started(x) => Started(x)'
                            /\ DataOut(x) => DataOut(x)'
                            /\ EndOut(x) => EndOut(x)'
  BY WrittenFacts
<1> QED
  BY <1>2, <1>3 DEF DraftInv, BeforeInv

\* The packet of g gives the peer a part of its message that is due.
Gives(g, kind) ==
  LET t == Owner(g) IN
  /\ got' = [got EXCEPT ![t] = Append(@, Peer!Part(t, kind))]
  /\ \/ kind = "message" /\ g = main(t) /\ send[t].main \in {"fast", "message"} /\ ~ Started(t)
     \/ kind = "data" /\ g = dataOf(t) /\ DataDue(t)
     \/ kind = "chunk" /\ g \in UserGoroutines /\ userAt[g] = "chunk" /\ EndDue(t) /\ Requested(t)
     \/ /\ kind = "end" /\ EndDue(t)
        /\ \/ g = main(t) /\ send[t].main = "simulate"
           \/ g \in UserGoroutines /\ userAt[g] = "end"

\* A message without parts, on a channel that nobody owns: the peer is idle
\* there before and after.
LEMMA FastWrittenKeeps ==
  ASSUME DraftInv, NEW t \in Callers, WriterRuns(main(t)), Written(main(t)),
         send[t].main = "fast"
  PROVE  DraftInv' /\ Gives(main(t), "message")
<1> DEFINE g == main(t)
           c == wireChannel
<1>1. Inv' /\ PlacesInv' /\ OpsInv' /\ OwnsInv' /\ NoErrInv'
  BY GoroutineKinds, WriterRunsPlain
<1>2. /\ UNCHANGED <<draft, send, sw, userAt, broken, channel>>
      /\ ~ broken
      /\ PeerReads(g)
      /\ \A x \in Callers : x # t => (DataDue(x)' <=> DataDue(x)) /\ (EndDue(x)' <=> EndDue(x))
      /\ pc'[g] = "idle" /\ op[g] # "None"
  BY GoroutineKinds, WrittenFacts
<1>3. ~ draft[t].data /\ ~ HasStream(t)
  BY DEF DraftInv, PlacesInv, MainInv
<1>4. op[g] = "Write" /\ c \in ChannelID /\ \A x \in Callers : channel[x] # c
  BY <1>2 DEF Written, DraftInv, OpsInv
<1>5. Peer!InitMessage(c, t, draft[t].data, HasStream(t))
  BY <1>2, GoroutineKinds DEF PeerReads
<1>6. message[c] = NoMessage /\ data[c] = "none" /\ stream[c] = "none" /\ ~ rejected
  BY <1>2, <1>4 DEF DraftInv, PeerInv
<1>7. /\ got' = [got EXCEPT ![t] = Append(@, Peer!Part(t, "message"))]
      /\ message' = [message EXCEPT ![c] = NoMessage]
      /\ data' = [data EXCEPT ![c] = "none"]
      /\ stream' = [stream EXCEPT ![c] = "none"]
      /\ rejected' = rejected
  BY <1>3, <1>5, <1>6 DEF Peer!InitMessage, Peer!maybeEnd
<1>8. UNCHANGED <<message, data, stream, rejected>>
  <2>1. /\ message \in [ChannelID -> Callers \cup {NoMessage}]
        /\ data \in [ChannelID -> {"none", "pending"}]
        /\ stream \in [ChannelID -> {"none", "open", "done"}]
    BY DEF DraftInv, TypeOK
  <2>2. message' = message
    BY <1>6, <1>7, <2>1
  <2>3. data' = data
    BY <1>6, <1>7, <2>1
  <2>4. stream' = stream
    BY <1>6, <1>7, <2>1
  <2> QED
    BY <1>7, <2>2, <2>3, <2>4
<1>9. Started(t)'
  BY <1>2 DEF Started
<1>10. GotTypeOK' /\ BeforeInv'
  BY <1>7, <1>9, GoroutineKinds, BeforeFollows
<1>11. TypeOK'
  BY <1>1, <1>2, <1>8 DEF DraftInv, TypeOK, Inv
<1>12. ~ DataDue(t) /\ ~ EndDue(t) /\ ~ DataDue(t)' /\ ~ EndDue(t)'
  BY <1>2, <1>3 DEF DataDue, EndDue, HasStream
<1>13. PeerInv'
  BY <1>2, <1>8, <1>12 DEF DraftInv, PeerInv, HasStream
<1>14. Gives(g, "message")
  BY <1>2, <1>7, WrittenFacts, GoroutineKinds DEF Gives, Started, MessageOut
<1> QED
  BY <1>1, <1>10, <1>11, <1>13, <1>14 DEF DraftInv

\* The Message packet of a message with parts: the peer is idle on its channel.
LEMMA MessageWrittenKeeps ==
  ASSUME DraftInv, NEW t \in Callers, WriterRuns(main(t)), Written(main(t)),
         send[t].main = "message"
  PROVE  DraftInv' /\ Gives(main(t), "message")
<1> DEFINE g == main(t)
           c == wireChannel
<1>1. Inv' /\ PlacesInv' /\ OpsInv' /\ OwnsInv' /\ NoErrInv'
  BY GoroutineKinds, WriterRunsPlain
<1>2. /\ UNCHANGED <<draft, send, sw, userAt, broken, channel>>
      /\ ~ broken
      /\ PeerReads(g)
      /\ \A x \in Callers : x # t => (DataDue(x)' <=> DataDue(x)) /\ (EndDue(x)' <=> EndDue(x))
      /\ pc[g] # "idle" /\ pc'[g] = "idle" /\ op[g] # "None"
  BY GoroutineKinds, WrittenFacts
<1>3. c \in ChannelID /\ channel[t] = c
  BY <1>2, GoroutineKinds DEF Written, DraftInv, OpsInv
<1>4. Peer!InitMessage(c, t, draft[t].data, HasStream(t))
  BY <1>2, GoroutineKinds DEF PeerReads
<1>5. ~ MessageOut(t) /\ MessageOut(t)' /\ ~ DataOut(t)' /\ ~ EndOut(t)'
  BY <1>2 DEF MessageOut, DataOut, EndOut, DraftInv, PlacesInv, MainInv, StreamInv, Writing
<1>6. message[c] = NoMessage /\ ~ rejected
  BY <1>2, <1>3, <1>5 DEF DraftInv, PeerInv, DataDue, EndDue
<1>7. /\ DataDue(t)' <=> draft[t].data
      /\ EndDue(t)' <=> HasStream(t)
      /\ draft[t].data \/ HasStream(t)
  BY <1>2, <1>5 DEF DataDue, EndDue, HasStream, DraftInv, PlacesInv, MainInv
<1>8. /\ got' = [got EXCEPT ![t] = Append(@, Peer!Part(t, "message"))]
      /\ message' = [message EXCEPT ![c] = t]
      /\ data' = [data EXCEPT ![c] = IF draft[t].data THEN "pending" ELSE "none"]
      /\ stream' = [stream EXCEPT ![c] = IF HasStream(t) THEN "open" ELSE "none"]
      /\ ~ rejected' /\ rejected' = rejected
  BY <1>4, <1>6, <1>7 DEF Peer!InitMessage, Peer!maybeEnd
<1>9. GotTypeOK' /\ BeforeInv'
  BY <1>5, <1>8, GoroutineKinds, BeforeFollows DEF Started
<1>10. TypeOK'
  BY <1>1, <1>2, <1>3, <1>8, MessageDraftAssumption DEF DraftInv, TypeOK, Inv
<1>11. /\ message'[c] = t
       /\ data'[c] = IF draft[t].data THEN "pending" ELSE "none"
       /\ stream'[c] = IF HasStream(t) THEN "open" ELSE "none"
  BY <1>3, <1>8 DEF DraftInv, TypeOK
<1>12. PeerInv'
  BY <1>2, <1>3, <1>7, <1>8, <1>11, PeerFollows
<1>13. Gives(g, "message")
  BY <1>2, <1>8, GoroutineKinds DEF Gives, Started, MessageOut
<1> QED
  BY <1>1, <1>9, <1>10, <1>12, <1>13 DEF DraftInv

\* The data: the peer expects it, whether the stream has ended or not.
LEMMA DataWrittenKeeps ==
  ASSUME DraftInv, NEW t \in Callers, WriterRuns(dataOf(t)), Written(dataOf(t))
  PROVE  DraftInv' /\ Gives(dataOf(t), "data")
<1> DEFINE g == dataOf(t)
           c == wireChannel
<1>1. Inv' /\ PlacesInv' /\ OpsInv' /\ OwnsInv' /\ NoErrInv'
  BY GoroutineKinds, WriterRunsPlain
<1>2. /\ UNCHANGED <<draft, send, sw, userAt, broken, channel>>
      /\ ~ broken
      /\ PeerReads(g)
      /\ \A x \in Callers : x # t => (DataDue(x)' <=> DataDue(x)) /\ (EndDue(x)' <=> EndDue(x))
      /\ pc[g] # "idle" /\ pc'[g] = "idle" /\ op[g] # "None"
      /\ \A h \in Goroutines : h # g => pc'[h] = pc[h]
  BY GoroutineKinds, WrittenFacts
<1>3. c \in ChannelID /\ channel[t] = c /\ send[t].data = "writing"
  BY <1>2, GoroutineKinds DEF Written, DraftInv, OpsInv
<1>4. Peer!ProcessData(c, t)
  BY <1>2, GoroutineKinds DEF PeerReads
<1>5. send[t].main \in {"simulate", "assigned", "failed", "wait"} /\ draft[t].data
  BY <1>3 DEF DraftInv, TypeOK, SendState, PlacesInv, MainInv, PartsDone
<1>6. MessageOut(t) /\ MessageOut(t)' /\ ~ DataOut(t) /\ DataOut(t)' /\ (EndOut(t)' <=> EndOut(t))
  BY <1>2, <1>3, <1>5, GoroutineKinds DEF MessageOut, DataOut, EndOut
<1>7. DataDue(t) /\ ~ DataDue(t)' /\ (EndDue(t)' <=> EndDue(t))
  BY <1>2, <1>5, <1>6 DEF DataDue, EndDue, HasStream
<1>8. /\ message[c] = t /\ data[c] = "pending" /\ ~ rejected
      /\ stream[c] = IF EndDue(t) THEN "open" ELSE IF HasStream(t) THEN "done" ELSE "none"
  BY <1>2, <1>3, <1>7 DEF DraftInv, PeerInv
<1>9. /\ got' = [got EXCEPT ![t] = Append(@, Peer!Part(t, "data"))]
      /\ message' = [message EXCEPT ![c] = IF EndDue(t) THEN t ELSE NoMessage]
      /\ data' = [data EXCEPT ![c] = "none"]
      /\ stream' = [stream EXCEPT ![c] = IF EndDue(t) THEN "open" ELSE "none"]
      /\ ~ rejected' /\ rejected' = rejected
  BY <1>4, <1>8 DEF Peer!ProcessData, Peer!maybeEnd, Peer!Give
<1>10. GotTypeOK' /\ BeforeInv'
  BY <1>6, <1>9, GoroutineKinds, BeforeFollows DEF Started
<1>11. /\ message'[c] = IF EndDue(t) THEN t ELSE NoMessage
       /\ data'[c] = "none"
       /\ stream'[c] = IF EndDue(t) THEN "open" ELSE "none"
  BY <1>3, <1>9 DEF DraftInv, TypeOK
<1>12. TypeOK'
  BY <1>1, <1>2, <1>3, <1>9, MessageDraftAssumption DEF DraftInv, TypeOK, Inv
<1>13. PeerInv'
  BY <1>2, <1>3, <1>7, <1>9, <1>11, PeerFollows
<1>14. Gives(g, "data")
  BY <1>7, <1>9, GoroutineKinds DEF Gives
<1> QED
  BY <1>1, <1>10, <1>12, <1>13, <1>14 DEF DraftInv

\* A chunk: the stream is open as long as a user is in Write.
LEMMA ChunkWrittenKeeps ==
  ASSUME DraftInv, NEW g \in UserGoroutines, WriterRuns(g), Written(g), userAt[g] = "chunk"
  PROVE  DraftInv' /\ Gives(g, "chunk")
<1> DEFINE t == Owner(g)
           c == wireChannel
<1>0. t \in Callers /\ g \in Goroutines
  BY GoroutineKinds
<1>1. Inv' /\ PlacesInv' /\ OpsInv' /\ OwnsInv' /\ NoErrInv'
  BY GoroutineKinds, WriterRunsPlain
<1>2. /\ UNCHANGED <<draft, send, sw, userAt, broken, channel>>
      /\ ~ broken
      /\ PeerReads(g)
      /\ \A x \in Callers : x # t => (DataDue(x)' <=> DataDue(x)) /\ (EndDue(x)' <=> EndDue(x))
      /\ pc[g] # "idle" /\ pc'[g] = "idle" /\ op[g] # "None"
      /\ \A h \in Goroutines : h # g => pc'[h] = pc[h]
  BY GoroutineKinds, WrittenFacts
<1>3. c \in ChannelID /\ channel[t] = c
  BY <1>2, GoroutineKinds DEF Written, DraftInv, OpsInv
<1>4. Peer!ProcessStream(c, t)
  BY <1>0, <1>2, GoroutineKinds DEF PeerReads
<1>5. send[t].waiter = "wait" /\ ~ sw[t].done /\ Requested(t)
      /\ \A v \in UserGoroutines : Owner(v) = t => userAt[v] # "end"
  BY <1>0 DEF DraftInv, PlacesInv, MainInv, StreamInv, Writing
<1>6. send[t].main = "wait"
  BY <1>0, <1>5 DEF DraftInv, TypeOK, SendState, PlacesInv, MainInv, PartsDone, Requested
<1>7. MessageOut(t) /\ ~ EndOut(t) /\ HasStream(t)
  BY <1>5, <1>6 DEF MessageOut, EndOut, HasStream, Requested
<1>8. MessageOut(t)' /\ ~ EndOut(t)' /\ (DataOut(t)' <=> DataOut(t))
  BY <1>0, <1>2, <1>5, <1>6, GoroutineKinds DEF MessageOut, EndOut, DataOut, Requested
<1>9. EndDue(t) /\ EndDue(t)' /\ (DataDue(t)' <=> DataDue(t))
  BY <1>2, <1>7, <1>8 DEF DataDue, EndDue, HasStream
<1>10. /\ message[c] = t /\ ~ rejected /\ stream[c] = "open"
       /\ data[c] = IF DataDue(t) THEN "pending" ELSE "none"
  BY <1>0, <1>2, <1>3, <1>9 DEF DraftInv, PeerInv
<1>11. /\ got' = [got EXCEPT ![t] = Append(@, Peer!Part(t, "chunk"))]
       /\ UNCHANGED <<message, data, stream, rejected>>
  BY <1>4, <1>10 DEF Peer!ProcessStream, Peer!Give
<1>12. GotTypeOK' /\ BeforeInv'
  BY <1>0, <1>8, <1>11, BeforeFollows DEF Started
<1>13. TypeOK'
  BY <1>1, <1>2, <1>11 DEF DraftInv, TypeOK, Inv
<1>14. PeerInv'
  BY <1>0, <1>2, <1>3, <1>9, <1>10, <1>11 DEF DraftInv, PeerInv, HasStream
<1>15. Gives(g, "chunk")
  BY <1>5, <1>9, <1>11 DEF Gives
<1> QED
  BY <1>1, <1>12, <1>13, <1>14, <1>15 DEF DraftInv

\* The end of a stream, written by send itself or by a user: it has not ended
\* before, and the peer goes on as long as data is due.
LEMMA EndWrittenKeeps ==
  ASSUME DraftInv, NEW g \in Goroutines, WriterRuns(g), Written(g),
         \/ g = main(Owner(g)) /\ send[Owner(g)].main = "simulate"
         \/ g \in UserGoroutines /\ userAt[g] = "end"
  PROVE  DraftInv' /\ Gives(g, "end")
<1> DEFINE t == Owner(g)
           c == wireChannel
<1>0. t \in Callers
  BY GoroutineKinds
<1>1. Inv' /\ PlacesInv' /\ OpsInv' /\ OwnsInv' /\ NoErrInv'
  BY WriterRunsPlain
<1>2. /\ UNCHANGED <<draft, send, sw, userAt, broken, channel>>
      /\ ~ broken
      /\ PeerReads(g)
      /\ \A x \in Callers : x # t => (DataDue(x)' <=> DataDue(x)) /\ (EndDue(x)' <=> EndDue(x))
      /\ pc[g] # "idle" /\ pc'[g] = "idle" /\ op[g] # "None"
      /\ \A h \in Goroutines : h # g => pc'[h] = pc[h]
  BY WrittenFacts
<1>3. c \in ChannelID /\ channel[t] = c
  BY <1>0, <1>2, GoroutineKinds DEF Written, DraftInv, OpsInv
<1>4. Peer!EndStream(c, t)
  BY <1>0, <1>2, GoroutineKinds DEF PeerReads
<1>5. MessageOut(t) /\ MessageOut(t)' /\ ~ EndOut(t) /\ EndOut(t)' /\ HasStream(t)
  <2>1. CASE g = main(t) /\ send[t].main = "simulate"
    <3>1. draft[t].stream = "simulated"
      BY <1>0, <2>1 DEF DraftInv, PlacesInv, MainInv
    <3> QED
      BY <1>2, <2>1, <3>1 DEF MessageOut, EndOut, HasStream
  <2>2. CASE g \in UserGoroutines /\ userAt[g] = "end"
    <3>1. /\ send[t].waiter = "wait" /\ ~ sw[t].done /\ Requested(t)
          /\ \A v \in UserGoroutines : Owner(v) = t /\ userAt[v] = "end" => v = g
      BY <1>0, <2>2 DEF DraftInv, PlacesInv, MainInv, StreamInv, Writing
    <3>2. send[t].main = "wait"
      BY <1>0, <3>1 DEF DraftInv, TypeOK, SendState, PlacesInv, MainInv, PartsDone, Requested
    <3> QED
      BY <1>0, <1>2, <2>2, <3>1, <3>2 DEF MessageOut, EndOut, HasStream, Requested
  <2> QED
    BY <2>1, <2>2
<1>6. DataOut(t)' <=> DataOut(t)
  BY <1>0, <1>2, GoroutineKinds DEF DataOut
<1>7. EndDue(t) /\ ~ EndDue(t)' /\ (DataDue(t)' <=> DataDue(t))
  BY <1>2, <1>5, <1>6 DEF DataDue, EndDue, HasStream
<1>8. /\ message[c] = t /\ ~ rejected /\ stream[c] = "open"
      /\ data[c] = IF DataDue(t) THEN "pending" ELSE "none"
  BY <1>0, <1>2, <1>3, <1>7 DEF DraftInv, PeerInv
<1>9. /\ got' = [got EXCEPT ![t] = Append(@, Peer!Part(t, "end"))]
      /\ message' = [message EXCEPT ![c] = IF DataDue(t) THEN t ELSE NoMessage]
      /\ data' = [data EXCEPT ![c] = IF DataDue(t) THEN "pending" ELSE "none"]
      /\ stream' = [stream EXCEPT ![c] = IF DataDue(t) THEN "done" ELSE "none"]
      /\ ~ rejected' /\ rejected' = rejected
  BY <1>4, <1>8 DEF Peer!EndStream, Peer!maybeEnd, Peer!Give
<1>10. GotTypeOK' /\ BeforeInv'
  BY <1>0, <1>5, <1>9, BeforeFollows DEF Started
<1>11. /\ message'[c] = IF DataDue(t) THEN t ELSE NoMessage
       /\ data'[c] = IF DataDue(t) THEN "pending" ELSE "none"
       /\ stream'[c] = IF DataDue(t) THEN "done" ELSE "none"
  BY <1>3, <1>9 DEF DraftInv, TypeOK
<1>12. TypeOK'
  BY <1>0, <1>1, <1>2, <1>3, <1>9, MessageDraftAssumption DEF DraftInv, TypeOK, Inv
<1>13. PeerInv'
  BY <1>0, <1>2, <1>3, <1>5, <1>7, <1>9, <1>11, PeerFollows
<1>14. Gives(g, "end")
  BY <1>7, <1>9 DEF Gives
<1> QED
  BY <1>1, <1>10, <1>12, <1>13, <1>14 DEF DraftInv

\* The peer is given a part of a message that is due, or nothing.
LEMMA WriterRunsKeeps ==
  ASSUME DraftInv, NEW g \in Goroutines, WriterRuns(g)
  PROVE  /\ DraftInv'
         /\ \/ ~ Written(g) /\ got' = got
            \/ Written(g) /\ \E kind \in {"message", "data", "chunk", "end"} : Gives(g, kind)
<1>1. op[g] # "None" /\ (Continues(g) \/ Obtained(g) \/ Written(g) \/ Failed(g))
  BY OpIsDraftOp, StepOfWriter DEF DraftInv, WriterRuns
<1>2. CASE Written(g)
  <2>1. CASE g = main(Owner(g))
    <3>1. send[Owner(g)].main \in {"fast", "message", "simulate"}
      BY <1>1, <1>2, <2>1, GoroutineKinds DEF Written, DraftInv, OpsInv
    <3> QED
      BY <1>2, <2>1, <3>1, GoroutineKinds, FastWrittenKeeps, MessageWrittenKeeps, EndWrittenKeeps
  <2>2. CASE g = dataOf(Owner(g))
    BY <1>2, <2>2, GoroutineKinds, DataWrittenKeeps
  <2>3. CASE g \in UserGoroutines
    <3>1. userAt[g] \in {"chunk", "end"}
      BY <1>1, <2>3 DEF DraftInv, OpsInv
    <3> QED
      BY <1>2, <2>3, <3>1, ChunkWrittenKeeps, EndWrittenKeeps
  <2> QED
    BY <2>1, <2>2, <2>3, GoroutineKinds
<1>3. CASE ~ Written(g)
  <2>1. got' = got
    BY <1>1, <1>3 DEF WriterRuns, Continues, Obtained, Failed, peerVars
  <2> QED
    BY <1>1, <1>3, <2>1, ContinuesKeeps, ObtainedKeeps, FailedKeeps
<1> QED
  BY <1>2, <1>3

\* The target breaks: from now on nothing is said of what the peer reads.
LEMMA TargetBreaksKeeps ==
  ASSUME DraftInv, TargetBreaks
  PROVE  DraftInv'
<1>1. /\ UNCHANGED <<draft, send, sw, userAt, message, data, stream, got, rejected>>
      /\ UNCHANGED <<pc, op, err, channel>>
      /\ broken'
  BY DEF TargetBreaks, Break, peerVars, callVars
<1>2. Inv'
  BY InvNext DEF DraftInv, TargetBreaks, WriterNext
<1>3. TypeOK' /\ GotTypeOK'
  BY <1>1, <1>2 DEF DraftInv, TypeOK, GotTypeOK, Inv
<1>4. PlacesInv'
  BY <1>1 DEF DraftInv, PlacesInv, MainInv, StreamInv, Writing, PartsDone, Requested, HasStream
<1>5. OpsInv' /\ OwnsInv'
  BY <1>1 DEF DraftInv, OpsInv, OwnsInv
<1>6. NoErrInv' /\ PeerInv'
  BY <1>1 DEF DraftInv, NoErrInv, PeerInv
<1>7. BeforeInv'
  BY <1>1 DEF DraftInv, BeforeInv, Started, MessageOut
<1> QED
  BY <1>2, <1>3, <1>4, <1>5, <1>6, <1>7 DEF DraftInv

LEMMA NothingKeeps ==
  ASSUME DraftInv, UNCHANGED vars
  PROVE  DraftInv'
<1> USE DEF vars, peerVars, writerVars, callVars, wireVars, DraftInv
<1>1. Inv'
  BY InvNext
<1>2. TypeOK' /\ GotTypeOK'
  BY <1>1 DEF TypeOK, GotTypeOK, Inv
<1>3. PlacesInv' /\ OpsInv' /\ OwnsInv' /\ NoErrInv'
  BY DEF PlacesInv, MainInv, StreamInv, Writing, PartsDone, Requested, HasStream, OpsInv,
         OwnsInv, NoErrInv
<1>4. \A t \in Callers : /\ Started(t)' <=> Started(t)
                         /\ MessageOut(t)' <=> MessageOut(t)
                         /\ DataOut(t)' <=> DataOut(t)
                         /\ EndOut(t)' <=> EndOut(t)
  BY DEF Started, MessageOut, DataOut, EndOut
<1>5. PeerInv'
  BY <1>4 DEF PeerInv, DataDue, EndDue, HasStream
<1>6. BeforeInv'
  BY <1>4, HasStays DEF BeforeInv
<1> QED
  BY <1>1, <1>2, <1>3, <1>5, <1>6

LEMMA DraftInit == Init => DraftInv
<1> SUFFICES ASSUME Init
             PROVE  DraftInv
  OBVIOUS
<1> USE GoroutineKinds, MessageDraftAssumption DEF Init, Peer!ParserInit
<1>1. Inv
  BY InvInit
<1>2. /\ draft \in [Callers -> Drafts]
      /\ send \in [Callers -> SendState]
      /\ sw \in [Callers -> StreamWriterState]
      /\ userAt \in [UserGoroutines -> {"open", "chunk", "end", "finished"}]
  <2>1. send \in [Callers -> SendState]
    BY DEF SendState
  <2>2. sw \in [Callers -> StreamWriterState]
    BY DEF StreamWriterState
  <2>3. userAt \in [UserGoroutines -> {"open", "chunk", "end", "finished"}]
    OBVIOUS
  <2> QED
    BY <2>1, <2>2, <2>3
<1>3. TypeOK
  BY <1>1, <1>2 DEF Inv, TypeOK
<1>4. GotTypeOK
  BY DEF GotTypeOK
<1>5. PlacesInv
  BY DEF PlacesInv, MainInv, StreamInv, Writing, PartsDone
<1>6. OpsInv /\ OwnsInv /\ NoErrInv
  BY DEF WriterInit, OpsInv, OwnsInv, NoErrInv
<1>7. PeerInv
  <2>1. \A t \in Callers : channel[t] = NoChannel
    BY DEF WriterInit
  <2> QED
    BY <2>1, NoChannelIsNone DEF PeerInv
<1>8. BeforeInv
  BY DEF BeforeInv, Started, MessageOut, Exchange!Has, Exchange!Contains
<1> QED
  BY <1>1, <1>3, <1>4, <1>5, <1>6, <1>7, <1>8 DEF DraftInv

LEMMA DraftNext == DraftInv /\ [Next]_vars => DraftInv'
<1> SUFFICES ASSUME DraftInv, [Next]_vars
             PROVE  DraftInv'
  OBVIOUS
<1>1. CASE \E t \in Callers : MainStep(t)
  BY <1>1, StartKeeps, FastDoneKeeps, SendMessageKeeps, MessageFailedKeeps, StartPartsKeeps,
     SimulateDoneKeeps, SimulateTestKeeps, SimulateFailedKeeps, WaitPartsKeeps DEF MainStep
<1>2. CASE \E t \in Callers : DataStep(t)
  BY <1>2, DataStartKeeps, DataDoneKeeps, DataTestKeeps, DataFailedKeeps DEF DataStep
<1>3. CASE \E t \in Callers : WaiterStep(t)
  BY <1>3, StreamDoneKeeps, StreamTestKeeps, StreamFailedKeeps DEF WaiterStep
<1>4. CASE \E u \in UserGoroutines : UserStep(u)
  BY <1>4, StreamWriteKeeps, StreamWrittenKeeps, StreamCloseAgainKeeps, StreamCloseKeeps,
     StreamClosedKeeps DEF UserStep
<1>5. CASE \E g \in Goroutines : WriterRuns(g)
  BY <1>5, WriterRunsKeeps
<1>6. CASE TargetBreaks
  BY <1>6, TargetBreaksKeeps
<1>7. CASE Sent \/ UNCHANGED vars
  BY <1>7, NothingKeeps DEF Sent
<1> QED
  BY <1>1, <1>2, <1>3, <1>4, <1>5, <1>6, <1>7 DEF Next

\* The strengthening of the invariants below.
LEMMA DraftInvariant == Spec => []DraftInv
<1>1. Init => DraftInv
  BY DraftInit
<1>2. DraftInv /\ [Next]_vars => DraftInv'
  BY DraftNext
<1> QED
  BY <1>1, <1>2, PTL DEF Spec

-----------------------------------------------------------------------------
(* What follows.                                                           *)

\* Every variable of send, of the stream writers and of the peer keeps its type;
\* in particular a channel of the peer without a message has no data or stream.
THEOREM DraftTypeCorrect == Spec => []TypeOK
<1>1. DraftInv => TypeOK
  BY DEF DraftInv
<1> QED
  BY <1>1, DraftInvariant, PTL

\* send is a lawful caller of the writer, so everything WriterProofs says of
\* lawful callers holds of it: it writes at the channel it owns only, and gives
\* the channel back when none of its goroutines is in a call.
THEOREM SendKeepsWriterContract == Spec => KeepsWriterContract
<1>1. Init => WriterInit
  BY DEF Init
<1>2. DraftInv /\ [Next]_vars => [WriterNext]_writerVars
  <2> SUFFICES ASSUME DraftInv, [Next]_vars
               PROVE  WriterNext \/ UNCHANGED writerVars
    OBVIOUS
  <2>1. CASE \E t \in Callers : MainStep(t)
    BY <2>1, StartKeepsContract, SendMessageKeepsContract, StartPartsKeepsContract,
       WaitPartsKeepsContract
    DEF MainStep, FastDone, MessageFailed, SimulateDone, SimulateTest, SimulateFailed
  <2>2. CASE \E t \in Callers : DataStep(t)
    BY <2>2, DataStartKeepsContract DEF DataStep, DataDone, DataTest, DataFailed
  <2>3. CASE \E t \in Callers : WaiterStep(t)
    BY <2>3 DEF WaiterStep, StreamDone, StreamTest, StreamFailed
  <2>4. CASE \E u \in UserGoroutines : UserStep(u)
    BY <2>4, StreamWriteKeepsContract, StreamCloseKeepsContract
    DEF UserStep, StreamWritten, StreamCloseAgain, StreamClosed
  <2>5. CASE \E g \in Goroutines : WriterRuns(g)
    BY <2>5 DEF WriterRuns, WriterNext
  <2>6. CASE TargetBreaks
    BY <2>6 DEF TargetBreaks, WriterNext
  <2>7. CASE Sent \/ UNCHANGED vars
    BY <2>7 DEF Sent, vars
  <2> QED
    BY <2>1, <2>2, <2>3, <2>4, <2>5, <2>6, <2>7 DEF Next
<1> QED
  BY <1>1, <1>2, DraftInvariant, PTL DEF Spec, WriterSpec, KeepsWriterContract

\* What a channel of the peer is receiving belongs to the message that owns the
\* channel on the sending side, at any time before the target breaks.
THEOREM PeerIsWithOwner == Spec => []PeerFollowsOwner
<1>1. DraftInv => PeerFollowsOwner
  <2> SUFFICES ASSUME DraftInv, ~ broken, NEW c \in ChannelID, message[c] # NoMessage
               PROVE  channel[message[c]] = c
    BY DEF PeerFollowsOwner
  <2>1. PICK t \in Callers : channel[t] = c
    BY DEF DraftInv, PeerInv
  <2>2. message[c] = t
    BY <2>1 DEF DraftInv, PeerInv
  <2> QED
    BY <2>1, <2>2
<1> QED
  BY <1>1, DraftInvariant, PTL

\* No interleaving of the senders makes the peer's parser return an error.
THEOREM PeerAcceptsEverything == Spec => []PeerAccepts
<1>1. DraftInv => PeerAccepts
  BY DEF DraftInv, PeerInv, PeerAccepts
<1> QED
  BY <1>1, DraftInvariant, PTL

-----------------------------------------------------------------------------
(* What is written was given to the peer.                                  *)

\* What a step of the writer does to all that the invariants of this part name.
LEMMA WriterRunsGives ==
  ASSUME DraftInv, NEW g \in Goroutines, WriterRuns(g)
  PROVE  /\ UNCHANGED <<draft, send, sw, userAt, broken>>
         /\ pc[g] # "idle"
         /\ \A h \in Goroutines : h # g => pc'[h] = pc[h] /\ err'[h] = err[h]
         /\ pc'[g] # "idle" => err'[g] = err[g]
         /\ \A x \in Callers, k \in {"message", "data", "end"} :
              Exchange!Has(x, k) => Exchange!Has(x, k)'
         /\ \/ op[g] = "Obtain" \/ pc'[g] # "idle" \/ err'[g]
            \/ \E kind \in {"message", "data", "chunk", "end"} :
                 Gives(g, kind) /\ (kind # "chunk" => Exchange!Has(Owner(g), kind)')
<1>1. /\ pc[g] # "idle" /\ broken' = broken
      /\ \A h \in Goroutines : h # g => pc'[h] = pc[h] /\ err'[h] = err[h]
      /\ Continues(g) \/ Obtained(g) \/ Written(g) \/ Failed(g)
  BY OpIsDraftOp, StepOfWriter DEF DraftInv, WriterRuns
<1>2. UNCHANGED <<draft, send, sw, userAt>>
  BY DEF WriterRuns
<1>3. pc'[g] # "idle" => err'[g] = err[g]
  BY <1>1 DEF Continues, Obtained, Written, Failed
<1>4. CASE Written(g)
  <2>1. PICK kind \in {"message", "data", "chunk", "end"} : Gives(g, kind)
    BY <1>4, WriterRunsKeeps
  <2>2. Owner(g) \in Callers /\ GotTypeOK
    BY GoroutineKinds DEF DraftInv
  <2>3. got' = [got EXCEPT ![Owner(g)] = Append(@, Peer!Part(Owner(g), kind))]
    BY <2>1 DEF Gives
  <2>4. /\ GotTypeOK'
        /\ \A x \in Callers, k \in {"message", "data", "end"} :
             Exchange!Has(x, k)' <=> Exchange!Has(x, k) \/ (x = Owner(g) /\ k = kind)
        /\ \A x \in Callers : x # Owner(g) => got'[x] = got[x]
    BY <2>1, <2>2, <2>3, GotAppend
  <2>5. kind # "chunk" => Exchange!Has(Owner(g), kind)'
    BY <2>2, <2>4
  <2> QED
    BY <1>1, <1>2, <1>3, <2>1, <2>4, <2>5
<1>5. CASE ~ Written(g)
  <2>1. got' = got
    BY <1>5, WriterRunsKeeps
  <2> QED
    BY <1>1, <1>2, <1>3, <1>5, <2>1, HasStays DEF Continues, Obtained, Failed
<1> QED
  BY <1>4, <1>5

\* The steps of send, of the users and of the target leave the peer alone.
LEMMA MessageInvNext ==
  ASSUME DraftInv, MessageInv, [Next]_vars
  PROVE  MessageInv'
<1> USE HasStays, GoroutineKinds DEF MessageInv, peerVars
<1>1. /\ send \in [Callers -> SendState]
      /\ pc \in [Goroutines -> PCs] /\ err \in [Goroutines -> BOOLEAN]
  BY DEF DraftInv, TypeOK, WriterTypeOK
<1>2. ASSUME NEW t \in Callers, MainStep(t)
      PROVE  MessageInv'
  <2> USE <1>1 DEF SendState, MainAt, writerVars, callVars
  <2>1. CASE Start(t)
    BY <2>1 DEF Start, Call
  <2>2. CASE FastDone(t) \/ MessageFailed(t)
    BY <2>2 DEF FastDone, MessageFailed, Return
  <2>3. CASE SendMessage(t)
    BY <2>3 DEF SendMessage, Call
  <2>4. CASE StartParts(t)
    BY <2>4 DEF StartParts, Call
  <2>5. CASE SimulateDone(t) \/ SimulateTest(t) \/ SimulateFailed(t)
    BY <2>5 DEF SimulateDone, SimulateTest, SimulateFailed
  <2>6. CASE WaitParts(t)
    BY <2>6 DEF WaitParts, Return
  <2> QED
    BY <1>2, <2>1, <2>2, <2>3, <2>4, <2>5, <2>6 DEF MainStep
<1>3. ASSUME NEW t \in Callers, DataStep(t) \/ WaiterStep(t)
      PROVE  MessageInv'
  BY <1>1, <1>3 DEF SendState, DataStep, WaiterStep, DataStart, DataDone, DataTest, DataFailed,
      StreamDone, StreamTest, StreamFailed, Call, writerVars, callVars
<1>4. ASSUME NEW u \in UserGoroutines, UserStep(u)
      PROVE  MessageInv'
  BY <1>1, <1>4 DEF UserStep, StreamWrite, StreamWritten, StreamCloseAgain, StreamClose,
              StreamClosed, Call, writerVars, callVars
<1>5. ASSUME NEW g \in Goroutines, WriterRuns(g)
      PROVE  MessageInv'
  BY <1>5, WriterRunsGives DEF Gives, DraftInv, OpsInv
<1>6. CASE TargetBreaks
  BY <1>6 DEF TargetBreaks, Break, callVars
<1>7. CASE Sent \/ UNCHANGED vars
  BY <1>7 DEF Sent, vars, writerVars, callVars
<1> QED
  BY <1>2, <1>3, <1>4, <1>5, <1>6, <1>7 DEF Next

\* Where the target may break, a message has one part at most besides its
\* Message packet; where it may not, there is no error at all.
LEMMA OnePartOrNoError ==
  ASSUME DraftInv, LostInv, NoLostError, NEW t \in Callers
  PROVE  \/ ~ draft[t].data \/ draft[t].stream = "none"
         \/ ~ send[t].err /\ ~ send[t].finalErr /\ ~ sw[t].err
BY DEF DraftInv, TypeOK, LostInv, NoLostError, NoErrInv

\* SuccessMeansSent, at the steps of send that return.
LEMMA ReturnsComplete ==
  ASSUME DraftInv, MessageInv, PartsInv, NEW t \in Callers
  PROVE  /\ FastDone(t) /\ ~ err[main(t)] => Exchange!Complete(t)
         /\ WaitParts(t) /\ ~ send[t].finalErr => Exchange!Complete(t)
<1>1. ASSUME FastDone(t), ~ err[main(t)]
      PROVE  Exchange!Complete(t)
  BY <1>1 DEF FastDone, MainAt, DraftInv, PlacesInv, MainInv, HasStream, MessageInv, Exchange!Complete
<1>2. ASSUME WaitParts(t), ~ send[t].finalErr
      PROVE  Exchange!Complete(t)
  <2>1. Exchange!Has(t, "message") /\ send[t].main = "wait"
    BY <1>2 DEF WaitParts, MainAt, MessageInv
  <2>2. draft[t].data => Exchange!Has(t, "data")
    BY <1>2, <2>1 DEF WaitParts, PartsDone, DraftInv, PlacesInv, MainInv, PartsInv
  <2>3. draft[t].stream = "simulated" => Exchange!Has(t, "end")
    BY <1>2, <2>1 DEF PartsInv
  <2>4. draft[t].stream = "requested" => Exchange!Has(t, "end")
    BY <1>2, <2>1 DEF WaitParts, PartsDone, DraftInv, PlacesInv, MainInv, PartsInv, Requested
  <2>5. draft[t].stream \in {"none", "simulated", "requested"}
    BY MessageDraftAssumption DEF DraftInv, TypeOK, AllDrafts
  <2> QED
    BY <2>1, <2>2, <2>3, <2>4, <2>5 DEF Exchange!Complete
<1> QED
  BY <1>1, <1>2

\* The steps of send return nil for a complete message only.
LEMMA MainStepLoses ==
  ASSUME DraftInv, MessageInv, LostInv, NoLostError, NEW t \in Callers, MainStep(t)
  PROVE  PartsInv' /\ SuccessMeansSent'
<1>1. /\ send \in [Callers -> SendState]
      /\ pc \in [Goroutines -> PCs] /\ err \in [Goroutines -> BOOLEAN]
      /\ sw \in [Callers -> StreamWriterState]
  BY DEF DraftInv, TypeOK, WriterTypeOK
<1>2. got' = got /\ draft' = draft
  BY DEF MainStep, Start, FastDone, SendMessage, MessageFailed, StartParts, SimulateDone,
         SimulateTest, SimulateFailed, WaitParts, peerVars
<1>3. \A x \in Callers : Exchange!Complete(x)' <=> Exchange!Complete(x)
  BY <1>2, HasStays DEF Exchange!Complete
<1>4. \A x \in Callers : ~ x = t => send'[x] = send[x]
  BY <1>1 DEF MainStep, Start, FastDone, SendMessage, MessageFailed, StartParts, SimulateDone,
         SimulateTest, SimulateFailed, WaitParts, Return
<1>5. send'[t].result = "nil" => send[t].result = "nil" \/ Exchange!Complete(t)
  BY <1>1, ReturnsComplete
  DEF LostInv, MainStep, Start, FastDone, SendMessage, MessageFailed, StartParts, SimulateDone,
      SimulateTest, SimulateFailed, WaitParts, Return, SendState
<1>6. SuccessMeansSent'
  BY <1>3, <1>4, <1>5 DEF LostInv, SuccessMeansSent, result
<1>7. PartsInv'
  <2> USE <1>1, <1>2, HasStays, GoroutineKinds
      DEF PartsInv, LostInv, MainAt, SendState, StreamWriterState, writerVars, callVars
  <2>1. CASE Start(t)
    BY <2>1 DEF Start, Call
  <2>2. CASE FastDone(t) \/ MessageFailed(t)
    <3>1. /\ send'[t].main = "returned"
          /\ \A x \in Callers :
               /\ x # t => send'[x] = send[x]
               /\ UNCHANGED <<send[x].data, send[x].waiter, send[x].err, send[x].finalErr>>
          /\ UNCHANGED <<pc, err, sw, userAt>>
      BY <2>2 DEF FastDone, MessageFailed, Return
    <3> QED
      BY <3>1
  <2>3. CASE SendMessage(t)
    BY <2>3 DEF SendMessage, Call
  <2>4. CASE StartParts(t)
    <3>1. /\ send'[t].main \in {"simulate", "wait"}
          /\ send'[t].main = "simulate" <=> draft[t].stream = "simulated"
          /\ send'[t].data \in {"off", "start"} /\ send'[t].waiter \in {"off", "wait"}
          /\ \A x \in Callers : /\ x # t => send'[x] = send[x]
                                /\ sw'[x].done = sw[x].done /\ sw'[x].err = sw[x].err
      BY <2>4 DEF StartParts
    <3>2. /\ UNCHANGED userAt
          /\ send'[t].main = "simulate" => pc'[main(t)] # "idle"
          /\ \A g \in Goroutines : g # main(t) => pc'[g] = pc[g] /\ err'[g] = err[g]
      BY <2>4 DEF StartParts, Call
    <3>3. \A x \in Callers, u \in UserGoroutines :
            /\ pc'[dataOf(x)] = pc[dataOf(x)] /\ err'[dataOf(x)] = err[dataOf(x)]
            /\ x # t => pc'[main(x)] = pc[main(x)] /\ err'[main(x)] = err[main(x)]
            /\ pc'[u] = pc[u] /\ err'[u] = err[u]
      BY <3>2
    <3> QED
      BY <3>1, <3>2, <3>3
  <2>5. CASE SimulateDone(t)
    BY SMTT(60), <2>5, OnePartOrNoError DEF SimulateDone, DraftInv, PlacesInv, MainInv, Requested
  <2>6. CASE SimulateTest(t)
    BY <2>6 DEF SimulateTest, Test
  <2>8. CASE SimulateFailed(t)
    BY <2>8 DEF SimulateFailed
  <2>7. CASE WaitParts(t)
    BY <2>7 DEF WaitParts, Return
  <2> QED
    BY <2>1, <2>2, <2>3, <2>4, <2>5, <2>6, <2>7, <2>8 DEF MainStep
<1> QED
  BY <1>6, <1>7

LEMMA LostInvNext ==
  ASSUME DraftInv, MessageInv, LostInv, NoLostError, [Next]_vars
  PROVE  LostInv'
<1>1. /\ send \in [Callers -> SendState]
      /\ pc \in [Goroutines -> PCs] /\ err \in [Goroutines -> BOOLEAN]
      /\ sw \in [Callers -> StreamWriterState]
  BY DEF DraftInv, TypeOK, WriterTypeOK
<1>2. ~ MayBreak => ~ broken'
  BY ZenonT(60), WriterRunsGives
  DEF LostInv, Next, MainStep, Start, FastDone, SendMessage, MessageFailed, StartParts,
      SimulateDone, SimulateTest, SimulateFailed, WaitParts, DataStep, DataStart, DataDone,
      DataTest, DataFailed, WaiterStep, StreamDone, StreamTest, StreamFailed, UserStep,
      StreamWrite, StreamWritten, StreamCloseAgain, StreamClose, StreamClosed, TargetBreaks,
      Break, Sent, Call, vars, writerVars, wireVars
<1>3. ASSUME NEW t \in Callers, MainStep(t)
      PROVE  PartsInv' /\ SuccessMeansSent'
  BY <1>3, MainStepLoses
<1>4. ASSUME NEW t \in Callers, DataStep(t) \/ WaiterStep(t)
      PROVE  PartsInv' /\ SuccessMeansSent'
  <2>1. got' = got /\ draft' = draft
    BY <1>4 DEF DataStep, DataStart, DataDone, DataTest, DataFailed, WaiterStep, StreamDone,
        StreamTest, StreamFailed, peerVars
  <2>2. \A x \in Callers : send'[x].result = send[x].result
    BY <1>1, <1>4
    DEF SendState, DataStep, DataStart, DataDone, DataTest, DataFailed, WaiterStep, StreamDone,
        StreamTest, StreamFailed
  <2>3. SuccessMeansSent'
    BY <2>1, <2>2, HasStays DEF LostInv, SuccessMeansSent, result, Exchange!Complete
  <2>4. PartsInv'
    <3> USE <1>1, <2>1, HasStays, GoroutineKinds, OnePartOrNoError
        DEF PartsInv, LostInv, SendState, StreamWriterState, writerVars, callVars,
            DraftInv, PlacesInv, MainInv, Requested, Test
    <3>1. CASE DataStart(t)
      BY <3>1 DEF DataStart, Call
    <3>2. CASE DataDone(t)
      BY <3>2 DEF DataDone
    <3>3. CASE DataTest(t)
      BY <3>3 DEF DataTest
    <3>4. CASE StreamDone(t)
      BY <3>4 DEF StreamDone
    <3>5. CASE StreamTest(t)
      BY <3>5 DEF StreamTest
    <3>6. CASE DataFailed(t)
      BY <3>6 DEF DataFailed
    <3>7. CASE StreamFailed(t)
      BY <3>7 DEF StreamFailed
    <3> QED
      BY <1>4, <3>1, <3>2, <3>3, <3>4, <3>5, <3>6, <3>7 DEF DataStep, WaiterStep
  <2> QED
    BY <2>3, <2>4
<1>5. ASSUME NEW u \in UserGoroutines, UserStep(u)
      PROVE  PartsInv' /\ SuccessMeansSent'
  <2>1. UNCHANGED <<got, draft, send>>
    BY <1>5 DEF UserStep, StreamWrite, StreamWritten, StreamCloseAgain, StreamClose, StreamClosed,
        peerVars
  <2>2. SuccessMeansSent'
    BY <2>1, HasStays DEF LostInv, SuccessMeansSent, result, Exchange!Complete
  <2>3. PartsInv'
    <3> USE <1>1, <2>1, HasStays, GoroutineKinds
        DEF PartsInv, LostInv, StreamWriterState, UserGoto, MayUse, writerVars, callVars
    <3>0. userAt \in [UserGoroutines -> {"open", "chunk", "end", "finished"}]
      BY DEF DraftInv, TypeOK
    <3>1. CASE StreamWrite(u)
      BY <3>0, <3>1 DEF StreamWrite, Call
    <3>2. CASE StreamWritten(u)
      BY <3>0, <3>2 DEF StreamWritten
    <3>3. CASE StreamCloseAgain(u)
      BY <3>0, <3>3 DEF StreamCloseAgain
    <3>4. CASE StreamClose(u)
      BY <3>0, <3>4 DEF StreamClose, Call
    <3>5. CASE StreamClosed(u)
      BY <3>0, <3>5 DEF StreamClosed
    <3> QED
      BY <1>5, <3>1, <3>2, <3>3, <3>4, <3>5 DEF UserStep
  <2> QED
    BY <2>2, <2>3
<1>6. ASSUME NEW g \in Goroutines, WriterRuns(g)
      PROVE  PartsInv' /\ SuccessMeansSent'
  <2>1. SuccessMeansSent'
    BY <1>6, WriterRunsGives DEF LostInv, SuccessMeansSent, result, Exchange!Complete
  <2>2. PartsInv'
    BY <1>6, WriterRunsGives, GoroutineKinds DEF LostInv, PartsInv, Gives, DraftInv, OpsInv
  <2> QED
    BY <2>1, <2>2
<1>7. ASSUME UNCHANGED <<pc, err, send, sw, userAt, draft, got>>
      PROVE  PartsInv' /\ SuccessMeansSent'
  BY <1>7, HasStays DEF LostInv, PartsInv, SuccessMeansSent, result, Exchange!Complete
<1>8. PartsInv' /\ SuccessMeansSent'
  <2>1. TargetBreaks \/ Sent \/ UNCHANGED vars => UNCHANGED <<pc, err, send, sw, userAt, draft, got>>
    BY DEF TargetBreaks, Break, Sent, vars, peerVars, writerVars, callVars
  <2> QED
    BY <1>3, <1>4, <1>5, <1>6, <1>7, <2>1 DEF Next
<1> QED
  BY <1>2, <1>8 DEF LostInv

LEMMA LostInit == Init => MessageInv /\ LostInv
BY MessageDraftAssumption, GoroutineKinds
DEF Init, WriterInit, MessageInv, LostInv, PartsInv, SuccessMeansSent, result

LEMMA LostInvariant ==
  ASSUME NoLostError
  PROVE  Spec => [](DraftInv /\ MessageInv /\ LostInv)
<1>1. Init => DraftInv /\ MessageInv /\ LostInv
  BY DraftInit, LostInit
<1>2. DraftInv /\ MessageInv /\ LostInv /\ [Next]_vars => (DraftInv /\ MessageInv /\ LostInv)'
  BY DraftNext, MessageInvNext, LostInvNext
<1> QED
  BY <1>1, <1>2, PTL DEF Spec

\* A send that returns nil left nothing unsent, whenever no error can be
\* overwritten in `err` of send.  (Where one can, MCLostError shows how.)
THEOREM SuccessIsSent ==
  ASSUME NoLostError
  PROVE  Spec => []SuccessMeansSent
<1>1. LostInv => SuccessMeansSent
  BY DEF LostInv
<1> QED
  BY <1>1, LostInvariant, PTL

\* What the peer is given is due: the Message packet first, data and stream only
\* where the draft has them, each once.
LEMMA GivesWhatIsDue ==
  ASSUME DraftInv, MessageInv, NEW g \in Goroutines, WriterRuns(g),
         NEW kind \in {"message", "data", "chunk", "end"}, Gives(g, kind), Written(g)
  PROVE  Exchange!Give(Owner(g), kind)
<1> DEFINE t == Owner(g)
<1>1. t \in Callers
  BY GoroutineKinds
<1>2. /\ UNCHANGED <<draft, send>> /\ ~ broken /\ op[g] # "None"
  BY WrittenFacts
<1>3. got' = [got EXCEPT ![t] = Append(@, Exchange!Part(t, kind))]
  BY DEF Gives, Peer!Part, Exchange!Part
<1>4. UNCHANGED <<draft, result>>
  BY <1>2 DEF result
<1>5. CASE kind = "message"
  <2>1. ~ Started(t)
    BY <1>5 DEF Gives
  <2>2. got[t] = <<>>
    BY <1>1, <2>1 DEF DraftInv, BeforeInv
  <2>3. send[t].result = "none"
    BY <1>1, <2>1 DEF Started, DraftInv, PlacesInv, MainInv
  <2> QED
    BY <1>1, <1>3, <1>4, <1>5, <2>2, <2>3 DEF Exchange!Give, Exchange!Due, result
<1>6. CASE kind # "message"
  <2>1. MessageOut(t) /\ send[t].main # "message"
    BY <1>1, <1>2, <1>6
    DEF Gives, DataDue, EndDue, DraftInv, OpsInv, PlacesInv, MainInv, StreamInv, Writing
  <2>2. Exchange!Has(t, "message") /\ send[t].result = "none"
    BY <1>1, <2>1 DEF MessageOut, MessageInv, DraftInv, PlacesInv, MainInv
  <2>3. kind = "data" => draft[t].data /\ ~ Exchange!Has(t, "data")
    BY <1>1, <1>2 DEF Gives, DataDue, DraftInv, BeforeInv
  <2>4. kind \in {"chunk", "end"} => ~ Exchange!Has(t, "end") /\ draft[t].stream # "none"
    BY <1>1, <1>2 DEF Gives, EndDue, HasStream, DraftInv, BeforeInv
  <2>5. kind = "chunk" => draft[t].stream = "requested"
    BY DEF Gives, Requested
  <2> QED
    BY <1>1, <1>3, <1>4, <1>6, <2>2, <2>3, <2>4, <2>5 DEF Exchange!Give, Exchange!Due, result
<1> QED
  BY <1>5, <1>6

\* send returns.
LEMMA ReturnsAsPromised ==
  ASSUME DraftInv, MessageInv, LostInv, NEW t \in Callers,
         FastDone(t) \/ MessageFailed(t) \/ WaitParts(t)
  PROVE  Exchange!Next
<1>1. PICK e \in BOOLEAN : Return(t, e) /\ (e \/ Exchange!Complete(t))
  <2>1. CASE FastDone(t)
    BY <2>1, ReturnsComplete, GoroutineKinds DEF FastDone, LostInv, DraftInv, TypeOK, WriterTypeOK
  <2>2. CASE MessageFailed(t)
    BY <2>2 DEF MessageFailed
  <2>3. CASE WaitParts(t)
    BY ZenonT(60), <2>3, ReturnsComplete DEF WaitParts, LostInv, DraftInv, TypeOK, SendState
  <2> QED
    BY <2>1, <2>2, <2>3
<1>2. /\ send \in [Callers -> SendState] /\ send[t].result = "none"
      /\ UNCHANGED <<draft, got>>
  BY DEF DraftInv, TypeOK, PlacesInv, MainInv, FastDone, MessageFailed, WaitParts, MainAt, peerVars
<1>3. result' = [result EXCEPT ![t] = IF e THEN "error" ELSE "nil"]
  BY <1>1, <1>2 DEF Return, result, SendState
<1> QED
  BY <1>1, <1>2, <1>3 DEF Exchange!Next, Exchange!Succeed, Exchange!Fail, result

\* Sending messages implements the exchange of messages: every step gives the
\* peer a part that is due, or reports a result that is true, or does nothing a
\* user of the connection could see.
THEOREM SendImplementsExchange ==
  ASSUME NoLostError
  PROVE  Spec => ImplementsExchange
<1>1. Init => Exchange!Init
  BY DEF Init, Peer!ParserInit, Exchange!Init, result
<1>2. DraftInv /\ MessageInv /\ LostInv /\ [Next]_vars => [Exchange!Next]_<<draft, got, result>>
  <2> SUFFICES ASSUME DraftInv, MessageInv, LostInv, [Next]_vars
               PROVE  Exchange!Next \/ UNCHANGED <<draft, got, result>>
    OBVIOUS
  <2>1. send \in [Callers -> SendState]
    BY DEF DraftInv, TypeOK
  <2>2. ASSUME NEW t \in Callers, FastDone(t) \/ MessageFailed(t) \/ WaitParts(t)
        PROVE  Exchange!Next
    BY <2>2, ReturnsAsPromised
  <2>3. ASSUME UNCHANGED <<draft, got>>, \A t \in Callers : send'[t].result = send[t].result
        PROVE  UNCHANGED <<draft, got, result>>
    BY <2>3 DEF result
  <2>4. ASSUME NEW t \in Callers,
               \/ Start(t) \/ SendMessage(t) \/ StartParts(t)
               \/ SimulateDone(t) \/ SimulateTest(t) \/ SimulateFailed(t)
               \/ DataStep(t) \/ WaiterStep(t)
        PROVE  UNCHANGED <<draft, got, result>>
    <3>1. UNCHANGED <<draft, got>>
      BY <2>4 DEF Start, SendMessage, StartParts, SimulateDone, SimulateTest, SimulateFailed,
          DataStep, DataStart, DataDone, DataTest, DataFailed, WaiterStep, StreamDone, StreamTest,
          StreamFailed, peerVars
    <3>2. \A x \in Callers : send'[x].result = send[x].result
      <4>1. CASE Start(t) \/ SendMessage(t)
        BY <2>1, <4>1 DEF SendState, Start, SendMessage
      <4>2. CASE StartParts(t)
        BY <2>1, <4>2 DEF SendState, StartParts
      <4>3. CASE SimulateDone(t) \/ SimulateTest(t) \/ SimulateFailed(t)
        BY <2>1, <4>3 DEF SendState, SimulateDone, SimulateTest, SimulateFailed
      <4>4. CASE DataStep(t)
        BY <2>1, <4>4 DEF SendState, DataStep, DataStart, DataDone, DataTest, DataFailed
      <4>5. CASE WaiterStep(t)
        BY <2>1, <4>5 DEF SendState, WaiterStep, StreamDone, StreamTest, StreamFailed
      <4> QED
        BY <2>4, <4>1, <4>2, <4>3, <4>4, <4>5
    <3> QED
      BY <2>3, <3>1, <3>2
  <2>5. ASSUME NEW u \in UserGoroutines, UserStep(u)
        PROVE  UNCHANGED <<draft, got, result>>
    BY <2>3, <2>5 DEF UserStep, StreamWrite, StreamWritten, StreamCloseAgain, StreamClose,
        StreamClosed, peerVars
  <2>6. ASSUME NEW g \in Goroutines, WriterRuns(g)
        PROVE  Exchange!Next \/ UNCHANGED <<draft, got, result>>
    <3>1. UNCHANGED <<draft, send>>
      BY <2>6 DEF WriterRuns
    <3>2. CASE got' = got
      BY <2>3, <3>1, <3>2
    <3>3. CASE Written(g) /\ \E kind \in {"message", "data", "chunk", "end"} : Gives(g, kind)
      BY <2>6, <3>3, GivesWhatIsDue, GoroutineKinds DEF Exchange!Next
    <3> QED
      BY <2>6, <3>2, <3>3, WriterRunsKeeps
  <2>7. CASE TargetBreaks \/ Sent \/ UNCHANGED vars
    BY <2>3, <2>7 DEF TargetBreaks, Sent, vars, peerVars
  <2> QED
    BY <2>2, <2>4, <2>5, <2>6, <2>7 DEF Next, MainStep
<1> QED
  BY <1>1, <1>2, LostInvariant, PTL DEF Spec, ImplementsExchange, Exchange!Spec

LEMMA ReleasedNext ==
  ASSUME DraftInv, ReleasedInv, [Next]_vars
  PROVE  ReleasedInv'
<1>1. /\ send \in [Callers -> SendState]
      /\ channel \in [Callers -> ChannelID \cup {NoChannel}]
      /\ pc \in [Goroutines -> PCs] /\ err \in [Goroutines -> BOOLEAN]
  BY DEF DraftInv, TypeOK, WriterTypeOK
<1> USE DEF ReleasedInv, ReleasedUnlessMessageFailed
<1>2. ASSUME NEW t \in Callers, MainStep(t)
      PROVE  ReleasedInv'
  <2> USE <1>1, GoroutineKinds DEF SendState, MainAt, writerVars, callVars, peerVars
  <2>0. CASE Start(t)
    BY <2>0 DEF Start, Call
  <2>1. CASE SendMessage(t)
    BY <2>1 DEF SendMessage, Call
  <2>2. CASE FastDone(t)
    BY <2>2 DEF FastDone, Return, DraftInv, OwnsInv
  <2>3. CASE MessageFailed(t)
    BY <2>3 DEF MessageFailed, Return
  <2>4. CASE StartParts(t)
    BY <2>4 DEF StartParts, Call
  <2>5. CASE SimulateDone(t)
    BY <2>5 DEF SimulateDone
  <2>7. CASE SimulateTest(t)
    BY <2>7 DEF SimulateTest
  <2>8. CASE SimulateFailed(t)
    BY <2>8 DEF SimulateFailed
  <2>6. CASE WaitParts(t)
    BY <2>6 DEF WaitParts, Return
  <2> QED
    BY <1>2, <2>0, <2>1, <2>2, <2>3, <2>4, <2>5, <2>6, <2>7, <2>8 DEF MainStep
<1>3. ASSUME NEW t \in Callers, DataStep(t) \/ WaiterStep(t)
      PROVE  ReleasedInv'
  <2>1. UNCHANGED <<got, channel>>
    BY <1>3 DEF DataStep, WaiterStep, DataStart, DataDone, DataTest, DataFailed, StreamDone,
        StreamTest, StreamFailed, Call, writerVars, peerVars
  <2>2. \A x \in Callers : send'[x].main = send[x].main
    <3>1. CASE DataStep(t)
      BY SMTT(60), <1>1, <3>1 DEF SendState, DataStep, DataStart, DataDone, DataTest, DataFailed
    <3>2. CASE WaiterStep(t)
      BY <1>1, <3>2 DEF SendState, WaiterStep, StreamDone, StreamTest, StreamFailed
    <3> QED
      BY <1>3, <3>1, <3>2
  <2>3. \A x \in Callers : err'[main(x)] = err[main(x)]
    BY <1>1, <1>3, GoroutineKinds
    DEF DataStep, WaiterStep, DataStart, DataDone, DataTest, DataFailed, StreamDone, StreamTest,
        StreamFailed, Call, writerVars, callVars
  <2> QED
    BY <2>1, <2>2, <2>3
<1>4. ASSUME NEW u \in UserGoroutines, UserStep(u)
      PROVE  ReleasedInv'
  BY <1>1, <1>4, GoroutineKinds
  DEF UserStep, StreamWrite, StreamWritten, StreamCloseAgain, StreamClose, StreamClosed, Call,
      writerVars, callVars, peerVars
<1>5. ASSUME NEW g \in Goroutines, WriterRuns(g)
      PROVE  ReleasedInv'
  <2>1. /\ UNCHANGED <<draft, send>> /\ pc[g] # "idle" /\ op[g] # "None"
        /\ \A h \in Goroutines : h # g => pc'[h] = pc[h] /\ err'[h] = err[h]
        /\ Continues(g) \/ Obtained(g) \/ Written(g) \/ Failed(g)
    BY <1>5, OpIsDraftOp, StepOfWriter DEF DraftInv, WriterRuns
  <2>0. \A x \in Callers : ~ Written(g) \/ Owner(g) # x => got'[x] = got[x]
    <3>1. CASE ~ Written(g)
      BY <1>5, <3>1, WriterRunsKeeps
    <3>2. CASE Written(g) /\ \E kind \in {"message", "data", "chunk", "end"} : Gives(g, kind)
      <4>1. PICK p : got' = [got EXCEPT ![Owner(g)] = Append(@, p)]
        BY <3>2 DEF Gives
      <4>2. got \in [Callers -> Seq([of : Callers, kind : {"message", "data", "chunk", "end"}])]
        BY DEF DraftInv, GotTypeOK
      <4> QED
        BY <4>1, <4>2, <3>2
    <3> QED
      BY <1>5, <3>1, <3>2, WriterRunsKeeps
  <2>2. ASSUME NEW t \in Callers, send[t].main = "message", err'[main(t)]
        PROVE  got'[t] = <<>>
    <3>1. got[t] = <<>>
      <4>1. CASE g = main(t)
        BY <2>1, <2>2, <4>1 DEF Started, MessageOut, DraftInv, BeforeInv
      <4>2. CASE g # main(t)
        BY <2>1, <2>2, <4>2, GoroutineKinds
      <4> QED
        BY <4>1, <4>2
    <3>2. ~ Written(g) \/ Owner(g) # t
      BY <2>1, <2>2, GoroutineKinds
      DEF Written, DraftInv, OpsInv, PlacesInv, MainInv, StreamInv, Writing
    <3> QED
      BY <2>0, <3>1, <3>2
  <2>3. ASSUME NEW t \in Callers, send[t].main = "returned", channel'[t] # NoChannel
        PROVE  got'[t] = <<>>
    <3>1. Owner(g) # t
      BY <2>1, <2>3, GoroutineKinds
      DEF DraftInv, OpsInv, PlacesInv, MainInv, StreamInv, Writing, PartsDone
    <3>2. channel'[t] = channel[t]
      BY <1>1, <2>1, <3>1 DEF Continues, Obtained, Written, Failed
    <3> QED
      BY <2>0, <2>3, <3>1, <3>2
  <2> QED
    BY <2>1, <2>2, <2>3
<1>6. CASE TargetBreaks \/ Sent \/ UNCHANGED vars
  BY <1>6 DEF TargetBreaks, Break, Sent, vars, writerVars, callVars, peerVars
<1> QED
  BY <1>2, <1>3, <1>4, <1>5, <1>6 DEF Next

\* A send that gave up without its channel is one whose Message packet did not
\* get out: the error paths of the parts all lead to ReleaseChannel.
THEOREM ReleasedOnceStarted == Spec => []ReleasedUnlessMessageFailed
<1>1. Init => DraftInv /\ ReleasedInv
  BY DraftInit DEF Init, ReleasedInv, ReleasedUnlessMessageFailed
<1>2. DraftInv /\ ReleasedInv /\ [Next]_vars => (DraftInv /\ ReleasedInv)'
  BY DraftNext, ReleasedNext
<1>3. ReleasedInv => ReleasedUnlessMessageFailed
  BY DEF ReleasedInv
<1> QED
  BY <1>1, <1>2, <1>3, PTL DEF Spec

-----------------------------------------------------------------------------
(* A search finds a channel.                                               *)

\* A search comes across each channel once.
LEMMA CandidatesDiffer ==
  ASSUME NEW cur \in ChannelID, NEW i \in ChannelID, NEW j \in ChannelID, i # j
  PROVE  (cur + i) % channelsCount # (cur + j) % channelsCount
<1>1. \A k \in ChannelID :
        (cur + k) % channelsCount = IF cur + k < channelsCount THEN cur + k ELSE cur + k - channelsCount
  BY ChannelsCountAssumption DEF ChannelID
<1> QED
  BY <1>1, ChannelsCountAssumption DEF ChannelID

\* Who searches owns no channel.
LEMMA SearcherOwnsNothing ==
  ASSUME DraftInv, NEW g \in Goroutines, pc[g] \in {"lock", "search"},
         ch[g] = NoChannel
  PROVE  channel[Owner(g)] = NoChannel
<1>1. op[g] \in {"Obtain", "Write"}
  BY OpIsDraftOp DEF DraftInv, Inv, CallInv, AtOwnChannel, DraftOps
<1>2. CASE op[g] = "Obtain"
  BY <1>2 DEF DraftInv, Inv, CallInv
<1>3. CASE op[g] = "Write"
  <2>1. g = main(Owner(g)) /\ send[Owner(g)].main = "fast"
    BY <1>3, GoroutineKinds DEF DraftInv, OpsInv
  <2> QED
    BY <2>1, GoroutineKinds DEF DraftInv, OwnsInv
<1> QED
  BY <1>1, <1>2, <1>3

\* What a step can do to a search: begin it, try the next channel, end it, or
\* leave it as it is, maybe with a channel less reserved.
SearchBegins(g) ==
  /\ pc[g] = "lock" /\ ch[g] = NoChannel
  /\ \A h \in Goroutines : pc[h] # "search"
  /\ \A h \in Goroutines : h # g => pc'[h] = pc[h]
  /\ UNCHANGED <<current, scanned, channel>>

SearchTries(g) == pc[g] = "search" /\ TryNext /\ UNCHANGED <<pc, channel>>

SearchFinds(g) ==
  /\ \A h \in Goroutines : pc'[h] # "search"
  /\ scanned' = 0

SearchStays ==
  /\ \A h \in Goroutines : pc'[h] = "search" <=> pc[h] = "search"
  /\ UNCHANGED scanned
  /\ \A t \in Callers : channel'[t] \in {channel[t], NoChannel}
  /\ UNCHANGED current \/ \A h \in Goroutines : pc[h] # "search"

LEMMA SearchSteps ==
  ASSUME DraftInv, [Next]_vars
  PROVE  SearchStays \/ \E g \in Goroutines : SearchBegins(g) \/ SearchTries(g) \/ SearchFinds(g)
<1>1. /\ pc \in [Goroutines -> PCs]
      /\ channel \in [Callers -> ChannelID \cup {NoChannel}]
      /\ \A g, h \in Goroutines : pc[g] \in InChanneled /\ pc[h] \in InChanneled => g = h
      /\ \A g \in Goroutines : pc[g] \in InChanneled => channeledMu = g
      /\ NoGoroutine \notin Goroutines
  BY WriterAssumption DEF DraftInv, TypeOK, WriterTypeOK, Inv, LockInv
<1> USE <1>1 DEF InChanneled
<1>2. ASSUME NEW g \in Goroutines, NEW o, NEW c, Call(g, o, c)
      PROVE  SearchStays
  BY <1>2 DEF Call, SearchStays, channelVars
<1>3. ASSUME NEW t \in Callers, MainStep(t)
      PROVE  SearchStays
  BY <1>2, <1>3, GoroutineKinds
  DEF MainStep, Start, FastDone, SendMessage, MessageFailed, StartParts, SimulateDone,
      SimulateTest, SimulateFailed, WaitParts, Release, SearchStays, writerVars, channelVars, callVars
<1>4. ASSUME NEW t \in Callers, DataStep(t) \/ WaiterStep(t)
      PROVE  SearchStays
  BY <1>2, <1>4, GoroutineKinds
  DEF DataStep, WaiterStep, DataStart, DataDone, DataTest, DataFailed, StreamDone, StreamTest,
      StreamFailed, SearchStays, writerVars, channelVars, callVars
<1>5. ASSUME NEW u \in UserGoroutines, UserStep(u)
      PROVE  SearchStays
  BY <1>2, <1>5, GoroutineKinds
  DEF UserStep, StreamWrite, StreamWritten, StreamCloseAgain, StreamClose, StreamClosed,
      SearchStays, writerVars, channelVars, callVars
<1>6. ASSUME NEW g \in Goroutines, WriterRuns(g)
      PROVE  SearchStays \/ SearchBegins(g) \/ SearchTries(g) \/ SearchFinds(g)
  <2> USE DEF channelVars, callVars, wireVars
  <2>1. CASE LockChanneled(g)
    BY <2>1 DEF LockChanneled, SearchStays, SearchBegins
  <2>2. CASE SearchNext(g)
    BY <2>2 DEF SearchNext, SearchTries
  <2>3. CASE SearchReserve(g)
    BY <2>3 DEF SearchReserve, Reserve, Finish, SearchFinds
  <2>4. CASE SearchFree(g)
    BY <2>4 DEF SearchFree, GetFree, SearchFinds
  <2>5. CASE Select(g)
    BY <2>5 DEF Select, SetCurrent, SearchStays
  <2>6. CASE WriteSwitch(g)
    BY <2>6 DEF WriteSwitch, SearchStays
  <2>7. CASE WritePacket(g) \/ WritePayload(g) \/ WriteFails(g)
    BY <2>7 DEF WritePacket, WritePayload, WriteFails, FinishWrite, Finish, SearchStays
  <2>8. CASE WriteStandalone(g)
    BY <2>8 DEF WriteStandalone, Finish, SearchStays
  <2>9. CASE ReleaseOwn(g)
    BY <2>9 DEF ReleaseOwn, Release, Finish, SearchStays
  <2> QED
    BY <1>6, <2>1, <2>2, <2>3, <2>4, <2>5, <2>6, <2>7, <2>8, <2>9 DEF WriterRuns, WriterStep
<1>7. CASE TargetBreaks \/ Sent \/ UNCHANGED vars
  BY <1>7 DEF TargetBreaks, Break, Sent, vars, writerVars, channelVars, callVars, SearchStays
<1> QED
  BY <1>3, <1>4, <1>5, <1>6, <1>7 DEF Next

LEMMA SearchNextInv ==
  ASSUME IsFiniteSet(Callers), DraftInv, SearchInv, [Next]_vars
  PROVE  SearchInv'
<1>1. /\ current \in ChannelID /\ scanned \in 0..channelsCount
      /\ channel \in [Callers -> ChannelID \cup {NoChannel}]
      /\ channelsCount \in Nat \ {0}
  BY ChannelsCountAssumption DEF DraftInv, TypeOK, WriterTypeOK
<1>2. /\ \A S \in SUBSET Callers : IsFiniteSet(S) /\ Cardinality(S) \in Nat
      /\ \A S \in SUBSET Callers : \A T \in SUBSET S : Cardinality(T) <= Cardinality(S)
      /\ \A S \in SUBSET Callers : \A t \in S : Cardinality(S \ {t}) = Cardinality(S) - 1
  BY FS_Subset, FS_CardinalityType, FS_RemoveElement
<1>3. \A i \in 0..(channelsCount - 1) : Candidate(i) \in ChannelID /\ Candidate(i) # NoChannel
  BY <1>1 DEF Candidate, ChannelID, NoChannel
<1>4. CASE SearchStays
  <2>1. CASE \A g \in Goroutines : pc[g] # "search"
    BY <1>4, <2>1 DEF SearchStays, SearchInv
  <2>2. CASE current' = current /\ \E g \in Goroutines : pc[g] = "search"
    <3>1. Ahead' \subseteq Ahead
      BY <1>1, <1>3, <1>4, <2>2 DEF Ahead, Candidate, SearchStays
    <3>2. Cardinality(Ahead') <= Cardinality(Ahead) /\ Cardinality(Ahead') \in Nat /\ Cardinality(Ahead) \in Nat
      BY <1>2, <3>1 DEF Ahead
    <3>3. Cardinality(Callers) \in Nat
      BY <1>2
    <3> QED
      BY <1>1, <1>4, <2>2, <3>2, <3>3 DEF SearchStays, SearchInv
  <2> QED
    BY <1>4, <2>1, <2>2 DEF SearchStays
<1>5. ASSUME NEW g \in Goroutines, SearchBegins(g)
      PROVE  SearchInv'
  <2>1. scanned' = 0 /\ \A h \in Goroutines : h # g => pc'[h] # "search"
    BY <1>5 DEF SearchBegins, SearchInv
  <2>2. Owner(g) \in Callers /\ channel[Owner(g)] = NoChannel
    BY <1>5, SearcherOwnsNothing, GoroutineKinds DEF SearchBegins
  <2>3. Ahead' \subseteq Callers \ {Owner(g)}
    BY <1>1, <1>3, <1>5, <2>2 DEF Ahead, Candidate, SearchBegins
  <2>4. /\ Cardinality(Ahead') <= Cardinality(Callers \ {Owner(g)})
        /\ Cardinality(Callers \ {Owner(g)}) = Cardinality(Callers) - 1
        /\ Cardinality(Ahead') \in Nat /\ Cardinality(Callers) \in Nat
    BY <1>2, <2>2, <2>3
  <2> QED
    BY <2>1, <2>4 DEF SearchInv
<1>6. ASSUME NEW g \in Goroutines, SearchTries(g)
      PROVE  SearchInv'
  <2>1. /\ scanned < channelsCount /\ scanned \in Nat
        /\ locks[Candidate(scanned)] # 0
        /\ scanned' = scanned + 1 /\ UNCHANGED <<pc, channel, current>>
    BY <1>1, <1>6 DEF SearchTries, TryNext, Searching, isTemporarilyFree
  <2>2. Candidate(scanned) \in ChannelID
    BY <1>1, <1>3, <2>1
  <2>3. PICK t \in Callers : channel[t] = Candidate(scanned)
    BY <2>1, <2>2 DEF DraftInv, TypeOK, WriterTypeOK, Inv, ExclusiveReservation
  <2>4. t \in Ahead
    BY <1>1, <2>1, <2>3 DEF Ahead
  <2>5. \A i \in (scanned + 1)..(channelsCount - 1) : Candidate(i) # Candidate(scanned)
    <3>1. \A i \in (scanned + 1)..(channelsCount - 1) :
            i \in ChannelID /\ scanned \in ChannelID /\ i # scanned
      BY <1>1, <2>1 DEF ChannelID
    <3> QED
      BY <1>1, <3>1, CandidatesDiffer DEF Candidate
  <2>6. Ahead' \subseteq Ahead \ {t}
    BY <1>1, <2>1, <2>3, <2>5 DEF Ahead, Candidate
  <2>7. /\ Cardinality(Ahead') <= Cardinality(Ahead \ {t})
        /\ Cardinality(Ahead \ {t}) = Cardinality(Ahead) - 1
        /\ Cardinality(Ahead') \in Nat /\ Cardinality(Ahead) \in Nat /\ Cardinality(Callers) \in Nat
    BY <1>2, <2>4, <2>6 DEF Ahead
  <2> QED
    BY <1>6, <2>1, <2>7 DEF SearchInv, SearchTries
<1>7. ASSUME NEW g \in Goroutines, SearchFinds(g)
      PROVE  SearchInv'
  BY <1>7 DEF SearchInv, SearchFinds
<1> QED
  BY <1>4, <1>5, <1>6, <1>7, SearchSteps

\* With no more messages in flight than channels, every search finds a channel:
\* the receive from `released`, which would block for good, is never reached.
THEOREM SearchFindsChannel ==
  ASSUME IsFiniteSet(Callers), Cardinality(Callers) <= channelsCount
  PROVE  Spec => []NeverOutOfChannels
<1>1. Init => DraftInv /\ SearchInv
  BY DraftInit DEF Init, WriterInit, ChannelManagerInit, SearchInv
<1>2. DraftInv /\ SearchInv /\ [Next]_vars => (DraftInv /\ SearchInv)'
  BY DraftNext, SearchNextInv
<1>3. DraftInv /\ SearchInv => NeverOutOfChannels
  <2>1. Cardinality(Callers) \in Nat
    BY FS_CardinalityType
  <2>2. ASSUME DraftInv
        PROVE  Cardinality(Ahead) \in Nat /\ scanned \in Nat
    <3>1. IsFiniteSet(Ahead)
      BY FS_Subset DEF Ahead
    <3> QED
      BY <2>2, <3>1, FS_CardinalityType DEF DraftInv, TypeOK, WriterTypeOK
  <2> QED
    BY <2>1, <2>2, ChannelsCountAssumption DEF SearchInv, NeverOutOfChannels, Searching
<1> QED
  BY <1>1, <1>2, <1>3, PTL DEF Spec

=============================================================================
