----------------------------- MODULE MessageDraft ----------------------------
(***************************************************************************)
(* Sending messages: `send` and messageRequest of message_draft.go and the *)
(* messageStreamWriter of message_stream_writer.go, on top of the writer,  *)
(* with the peer's parser reading what they put on the wire.               *)
(*                                                                         *)
(* One caller of the writer is one message being sent, by                  *)
(*   "main"   the goroutine inside Pass, PassTo or Send,                   *)
(*   "data"   the goroutine `send` starts for the data,                    *)
(*   Users    the goroutines of the application that write to and close    *)
(*            the request's stream; they share one messageStreamWriter,    *)
(* and the goroutine of `send` that waits for the stream, which calls no   *)
(* method of the writer and only has a place, in `waiter`.                 *)
(*                                                                         *)
(* `err` of `send` is one variable that all goroutines of a send assign    *)
(* and then test, without a lock.  Assignment and test are two steps.      *)
(***************************************************************************)
EXTENDS Writer, Sequences

CONSTANTS
  Users,         \* roles of the application's goroutines
  Drafts,        \* the kinds of messages that are sent, of AllDrafts
  MaxChunks,     \* bound: chunks all users together write to one stream
  NoMessage

\* A message without data and stream may be passed or requested, it is the
\* same: `send` gets no stream and no channel.  A stream that is not requested
\* has no writer, `send` simulates an empty one (pass with HasStream).
AllDrafts == [data : BOOLEAN, stream : {"none", "simulated", "requested"}]

ASSUME MessageDraftAssumption ==
  /\ Drafts \subseteq AllDrafts
  /\ Roles = {"main", "data"} \cup Users
  /\ {"main", "data"} \cap Users = {}
  /\ MaxChunks \in Nat
  /\ NoMessage \notin Callers

VARIABLES
  draft,         \* what each message consists of, fixed at the start
  send,          \* per message, the places and variables of its send
  sw,            \* per message, the stream writer of its request
  userAt,        \* where each user is
  message, data, stream, got, rejected   \* the peer, see ParserChannel

peerVars == <<message, data, stream, got, rejected>>
vars == <<writerVars, draft, send, sw, userAt, peerVars>>

Peer == INSTANCE ParserChannel WITH Channels <- ChannelID, Messages <- Callers

\* What send has returned to its caller.
result == [t \in Callers |-> send[t].result]

Exchange == INSTANCE MessageExchange WITH Messages <- Callers

main(t) == <<t, "main">>
dataOf(t) == <<t, "data">>
UserGoroutines == Callers \X Users

HasStream(t) == draft[t].stream # "none"
Requested(t) == draft[t].stream = "requested"

\* main, data and waiter are the places of the three goroutines of a send.
SendState ==
  [main : {"new", "fast", "obtain", "message", "simulate", "assigned", "failed", "wait",
          "returned"},
   data : {"off", "start", "writing", "assigned", "failed", "done"},
   waiter : {"off", "wait", "assigned", "failed", "done"},
   err : BOOLEAN, finalErr : BOOLEAN, result : {"none", "nil", "error"}]

\* exists is `initiated` of the request; chunks counts the calls of Write that
\* got as far as the writer.
StreamWriterState ==
  [exists : BOOLEAN, mu : BOOLEAN, done : BOOLEAN, err : BOOLEAN, chunks : 0..MaxChunks]

TypeOK ==
  /\ WriterTypeOK
  /\ draft \in [Callers -> Drafts]
  /\ send \in [Callers -> SendState]
  /\ sw \in [Callers -> StreamWriterState]
  /\ userAt \in [UserGoroutines -> {"open", "chunk", "end", "finished"}]
  /\ message \in [ChannelID -> Callers \cup {NoMessage}]
  /\ data \in [ChannelID -> {"none", "pending"}]
  /\ stream \in [ChannelID -> {"none", "open", "done"}]
  /\ \A c \in ChannelID : message[c] = NoMessage => data[c] = "none" /\ stream[c] = "none"
  /\ rejected \in BOOLEAN

Init ==
  /\ WriterInit
  /\ draft \in [Callers -> Drafts]
  /\ send = [t \in Callers |-> [main |-> "new", data |-> "off", waiter |-> "off",
                                err |-> FALSE, finalErr |-> FALSE, result |-> "none"]]
  /\ sw = [t \in Callers |-> [exists |-> FALSE, mu |-> TRUE, done |-> FALSE,
                              err |-> FALSE, chunks |-> 0]]
  /\ userAt = [u \in UserGoroutines |-> IF Requested(Owner(u)) THEN "open" ELSE "finished"]
  /\ Peer!ParserInit

-----------------------------------------------------------------------------
(* Send and send, the main goroutine.                                      *)

\* The goroutine of t is at this place and not inside a call of the writer.
MainAt(t, place) == send[t].main = place /\ pc[main(t)] = "idle"

Return(t, e) ==
  send' = [send EXCEPT ![t].main = "returned", ![t].result = IF e THEN "error" ELSE "nil"]

\* A message packet alone goes through Write; otherwise a channel is obtained,
\* by Send for a requested stream and by send for everything else.
Start(t) ==
  LET fast == ~ draft[t].data /\ ~ HasStream(t) IN
  /\ MainAt(t, "new")
  /\ Call(main(t), IF fast THEN "Write" ELSE "Obtain", NoChannel)
  /\ send' = [send EXCEPT ![t].main = IF fast THEN "fast" ELSE "obtain"]
  /\ UNCHANGED <<draft, sw, userAt, peerVars>>

FastDone(t) ==
  /\ MainAt(t, "fast")
  /\ Return(t, err[main(t)])
  /\ UNCHANGED <<writerVars, draft, sw, userAt, peerVars>>

\* The stream writer of a request exists, locked, before its message is sent.
SendMessage(t) ==
  /\ MainAt(t, "obtain")
  /\ sw' = [sw EXCEPT ![t].exists = Requested(t)]
  /\ Call(main(t), "WriteAtChannel", channel[t])
  /\ send' = [send EXCEPT ![t].main = "message"]
  /\ UNCHANGED <<draft, userAt, peerVars>>

\* The message packet failed: send returns at once, the channel stays reserved
\* and the stream stays locked.
MessageFailed(t) ==
  /\ MainAt(t, "message")
  /\ err[main(t)]
  /\ Return(t, TRUE)
  /\ UNCHANGED <<writerVars, draft, sw, userAt, peerVars>>

\* The message packet is out: the goroutines for the parts after it are started,
\* a requested stream is opened to its users, any other is ended here.
StartParts(t) ==
  /\ MainAt(t, "message")
  /\ ~ err[main(t)]
  /\ send' = [send EXCEPT
       ![t].main = IF draft[t].stream = "simulated" THEN "simulate" ELSE "wait",
       ![t].data = IF draft[t].data THEN "start" ELSE "off",
       ![t].waiter = IF Requested(t) THEN "wait" ELSE "off"]
  /\ sw' = [sw EXCEPT ![t].mu = ~ Requested(t)]
  /\ IF draft[t].stream = "simulated"
     THEN Call(main(t), "WriteAtChannel", channel[t])
     ELSE UNCHANGED writerVars
  /\ UNCHANGED <<draft, userAt, peerVars>>

SimulateDone(t) ==
  /\ MainAt(t, "simulate")
  /\ send' = [send EXCEPT ![t].err = err[main(t)], ![t].main = "assigned"]
  /\ UNCHANGED <<writerVars, draft, sw, userAt, peerVars>>

\* Mutant: an error is not noticed.
TestIgnoresError(t) == FALSE

\* if err != nil { finalErr = err } reads err twice, and another goroutine of the
\* send may assign it in between.
Test(t) == send[t].err

SimulateTest(t) ==
  /\ MainAt(t, "assigned")
  /\ send' = [send EXCEPT ![t].main = IF Test(t) THEN "failed" ELSE "wait"]
  /\ UNCHANGED <<writerVars, draft, sw, userAt, peerVars>>

SimulateFailed(t) ==
  /\ MainAt(t, "failed")
  /\ send' = [send EXCEPT ![t].finalErr = send[t].err, ![t].main = "wait"]
  /\ UNCHANGED <<writerVars, draft, sw, userAt, peerVars>>

\* Mutant: the goroutine for the data is not in the wait group.
PartsDoneButData(t) == send[t].waiter \in {"off", "done"}

\* Mutant: the goroutine for the stream is not in the wait group.
PartsDoneButStream(t) == send[t].data \in {"off", "done"}

\* Every goroutine that was added to the wait group is through.
PartsDone(t) == send[t].data \in {"off", "done"} /\ send[t].waiter \in {"off", "done"}

\* Mutant: after an error send returns without giving the channel back.
WaitPartsLeaks(t) ==
  /\ MainAt(t, "wait")
  /\ PartsDone(t)
  /\ IF send[t].finalErr
     THEN UNCHANGED <<channelVars, channel>>
     ELSE Release(channel[t]) /\ channel' = [channel EXCEPT ![t] = NoChannel]
  /\ Return(t, send[t].finalErr)
  /\ UNCHANGED <<channeledMu, writeMu, callVars, wireVars, draft, sw, userAt, peerVars>>

\* wg.Wait, then the channel is given back and send returns.
WaitParts(t) ==
  /\ MainAt(t, "wait")
  /\ PartsDone(t)
  /\ Release(channel[t])
  /\ channel' = [channel EXCEPT ![t] = NoChannel]
  /\ Return(t, send[t].finalErr)
  /\ UNCHANGED <<channeledMu, writeMu, callVars, wireVars, draft, sw, userAt, peerVars>>

-----------------------------------------------------------------------------
(* The goroutines of send for the data and for the stream.                 *)

DataStart(t) ==
  /\ send[t].data = "start"
  /\ Call(dataOf(t), "External", channel[t])
  /\ send' = [send EXCEPT ![t].data = "writing"]
  /\ UNCHANGED <<draft, sw, userAt, peerVars>>

DataDone(t) ==
  /\ send[t].data = "writing"
  /\ pc[dataOf(t)] = "idle"
  /\ send' = [send EXCEPT ![t].err = err[dataOf(t)], ![t].data = "assigned"]
  /\ UNCHANGED <<writerVars, draft, sw, userAt, peerVars>>

DataTest(t) ==
  /\ send[t].data = "assigned"
  /\ send' = [send EXCEPT ![t].data = IF Test(t) THEN "failed" ELSE "done"]
  /\ UNCHANGED <<writerVars, draft, sw, userAt, peerVars>>

DataFailed(t) ==
  /\ send[t].data = "failed"
  /\ send' = [send EXCEPT ![t].finalErr = send[t].err, ![t].data = "done"]
  /\ UNCHANGED <<writerVars, draft, sw, userAt, peerVars>>

\* <-stream.Done(), then stream.Err() under mu.
StreamDone(t) ==
  /\ send[t].waiter = "wait"
  /\ sw[t].done
  /\ ~ sw[t].mu
  /\ send' = [send EXCEPT ![t].err = sw[t].err, ![t].waiter = "assigned"]
  /\ UNCHANGED <<writerVars, draft, sw, userAt, peerVars>>

StreamTest(t) ==
  /\ send[t].waiter = "assigned"
  /\ send' = [send EXCEPT ![t].waiter = IF Test(t) THEN "failed" ELSE "done"]
  /\ UNCHANGED <<writerVars, draft, sw, userAt, peerVars>>

StreamFailed(t) ==
  /\ send[t].waiter = "failed"
  /\ send' = [send EXCEPT ![t].finalErr = send[t].err, ![t].waiter = "done"]
  /\ UNCHANGED <<writerVars, draft, sw, userAt, peerVars>>

-----------------------------------------------------------------------------
(* The application's goroutines: Write and Close of messageStreamWriter.   *)

\* User u turns to the stream and gets its mu.
MayUse(u) == userAt[u] = "open" /\ sw[Owner(u)].exists /\ ~ sw[Owner(u)].mu

UserGoto(u, place) == userAt' = [userAt EXCEPT ![u] = place]

\* Mutant: Write does not look at done.
StreamWriteUnchecked(u) ==
  LET t == Owner(u) IN
  /\ MayUse(u)
  /\ channel[t] # NoChannel
  /\ sw[t].chunks < MaxChunks
  /\ sw' = [sw EXCEPT ![t].mu = TRUE, ![t].chunks = @ + 1]
  /\ Call(u, "External", channel[t])
  /\ UserGoto(u, "chunk")
  /\ UNCHANGED <<draft, send, peerVars>>

\* Write: a stream that is done already turns the user away without a step.
StreamWrite(u) ==
  LET t == Owner(u) IN
  /\ MayUse(u)
  /\ ~ sw[t].done
  /\ sw[t].chunks < MaxChunks
  /\ sw' = [sw EXCEPT ![t].mu = TRUE, ![t].chunks = @ + 1]
  /\ Call(u, "External", channel[t])
  /\ UserGoto(u, "chunk")
  /\ UNCHANGED <<draft, send, peerVars>>

\* Mutant: every Write ends the stream.
StreamWrittenEnds(u) ==
  /\ userAt[u] = "chunk"
  /\ pc[u] = "idle"
  /\ sw' = [sw EXCEPT ![Owner(u)].mu = FALSE, ![Owner(u)].err = err[u],
                      ![Owner(u)].done = TRUE]
  /\ UserGoto(u, "open")
  /\ UNCHANGED <<writerVars, draft, send, peerVars>>

\* Write returns; a failed one ends the stream.
StreamWritten(u) ==
  /\ userAt[u] = "chunk"
  /\ pc[u] = "idle"
  /\ sw' = [sw EXCEPT ![Owner(u)].mu = FALSE, ![Owner(u)].err = @ \/ err[u],
                      ![Owner(u)].done = err[u]]
  /\ UserGoto(u, "open")
  /\ UNCHANGED <<writerVars, draft, send, peerVars>>

\* Close of a stream that is done already.
StreamCloseAgain(u) ==
  /\ MayUse(u)
  /\ sw[Owner(u)].done
  /\ UserGoto(u, "finished")
  /\ UNCHANGED <<writerVars, draft, send, sw, peerVars>>

StreamClose(u) ==
  /\ MayUse(u)
  /\ ~ sw[Owner(u)].done
  /\ sw' = [sw EXCEPT ![Owner(u)].mu = TRUE]
  /\ Call(u, "WriteAtChannel", channel[Owner(u)])
  /\ UserGoto(u, "end")
  /\ UNCHANGED <<draft, send, peerVars>>

\* Mutant: Close does not close done.
StreamClosedNeverDone(u) ==
  /\ userAt[u] = "end"
  /\ pc[u] = "idle"
  /\ sw' = [sw EXCEPT ![Owner(u)].mu = FALSE, ![Owner(u)].err = @ \/ err[u]]
  /\ UserGoto(u, "finished")
  /\ UNCHANGED <<writerVars, draft, send, peerVars>>

\* Close returns; a failed one keeps the error but does not end the stream.
StreamClosed(u) ==
  /\ userAt[u] = "end"
  /\ pc[u] = "idle"
  /\ sw' = [sw EXCEPT ![Owner(u)].mu = FALSE, ![Owner(u)].err = @ \/ err[u],
                      ![Owner(u)].done = ~ err[u]]
  /\ UserGoto(u, "finished")
  /\ UNCHANGED <<writerVars, draft, send, peerVars>>

-----------------------------------------------------------------------------
(* Steps of the writer, and the peer reading what they complete.           *)

\* The step of g puts the last byte of a packet on the wire.
Completes(g) ==
  /\ ~ broken
  /\ \/ pc[g] = "packet" /\ op[g] # "External"
     \/ pc[g] = "payload"

\* The packet g is writing: g's place says what it is.
PeerReads(g) ==
  LET t == Owner(g)
      c == wireChannel
  IN  CASE g = main(t) /\ send[t].main \in {"fast", "message"} ->
             Peer!InitMessage(c, t, draft[t].data, HasStream(t))
        [] g = dataOf(t) -> Peer!ProcessData(c, t)
        [] g \in UserGoroutines /\ userAt[g] = "chunk" -> Peer!ProcessStream(c, t)
        [] OTHER -> Peer!EndStream(c, t)

WriterRuns(g) ==
  /\ WriterStep(g)
  /\ IF Completes(g) THEN PeerReads(g) ELSE UNCHANGED peerVars
  /\ UNCHANGED <<draft, send, sw, userAt>>

TargetBreaks == Break /\ UNCHANGED <<draft, send, sw, userAt, peerVars>>

-----------------------------------------------------------------------------
MainStep(t) ==
  \/ Start(t)
  \/ FastDone(t)
  \/ SendMessage(t)
  \/ MessageFailed(t)
  \/ StartParts(t)
  \/ SimulateDone(t)
  \/ SimulateTest(t)
  \/ SimulateFailed(t)
  \/ WaitParts(t)

DataStep(t) == DataStart(t) \/ DataDone(t) \/ DataTest(t) \/ DataFailed(t)

WaiterStep(t) == StreamDone(t) \/ StreamTest(t) \/ StreamFailed(t)

UserStep(u) ==
  \/ StreamWrite(u)
  \/ StreamWritten(u)
  \/ StreamCloseAgain(u)
  \/ StreamClose(u)
  \/ StreamClosed(u)

\* Everything is sent; the only state in which a run may stop.
Sent ==
  /\ \A t \in Callers : send[t].main = "returned"
  /\ \A u \in UserGoroutines : userAt[u] = "finished"
  /\ UNCHANGED vars

Next ==
  \/ \E t \in Callers : MainStep(t) \/ DataStep(t) \/ WaiterStep(t)
  \/ \E u \in UserGoroutines : UserStep(u)
  \/ \E g \in Goroutines : WriterRuns(g)
  \/ TargetBreaks
  \/ Sent

Spec == Init /\ [][Next]_vars

\* Every goroutine that can go on does: the Go scheduler, and mutexes that hand
\* over in order when they are contended (sync.Mutex in starvation mode, the
\* channel of fifo_mutex).  For the users it says that an application that has
\* requested a stream goes on to close it.
Fairness ==
  /\ \A t \in Callers : /\ WF_vars(MainStep(t))
                         /\ WF_vars(DataStep(t))
                         /\ WF_vars(WaiterStep(t))
  /\ \A u \in UserGoroutines : WF_vars(UserStep(u))
  /\ \A g \in Goroutines : WF_vars(WriterRuns(g))

FairSpec == Spec /\ Fairness

-----------------------------------------------------------------------------
(* Properties.                                                             *)

\* What a channel of the peer is receiving belongs to the message that owns
\* the channel on this side.  So a channel is given back only when the peer's
\* parser is idle on it, and the next Message packet there is not turned away
\* with "channel is already processing", whoever reserves the channel next.
PeerFollowsOwner ==
  \A c \in ChannelID :
    message[c] # NoMessage /\ ~ broken => channel[message[c]] = c

\* No sequence of packets that the senders produce is refused by the peer's
\* parser (the errors of parser_channel.go, on which conn.handle panics).
PeerAccepts == ~ rejected

\* Without more messages in flight than channels, a search for a channel always
\* has one to try: Reserve and GetFree never reach the receive from `released`,
\* which would block for good.
NeverOutOfChannels ==
  \A g \in Goroutines : pc[g] = "search" => Searching

\* A send that returned nil left nothing unsent: "Wait for all parts sent and
\* notify" (message_draft.go:160).
SuccessMeansSent ==
  \A t \in Callers : result[t] = "nil" => Exchange!Complete(t)

\* send keeps the contract of the writer: the drafts do nothing a lawful caller
\* of Writer may not do, and never release a channel under a goroutine that is
\* still writing at it.
KeepsWriterContract == WriterSpec

\* Sending messages implements the exchange of messages: the parts of each
\* message reach the peer as its own, once and in order, and send returns nil
\* only for a complete message.
ImplementsExchange == Exchange!Spec

\* A send that gave up on its channel without releasing it is one whose Message
\* packet did not get out (the early return of send); everything later in send
\* gives the channel back, errors or not.
ReleasedUnlessMessageFailed ==
  \A t \in Callers :
    send[t].main = "returned" /\ channel[t] # NoChannel => got[t] = <<>>

\* With at least one channel per message in flight and a target that works,
\* every send returns, with success.
EverySendSucceeds == \A t \in Callers : <>(result[t] = "nil")

\* When the target fails, every send still returns, except where Close of the
\* stream writer failed: it keeps the error and never closes done, which send
\* waits for.
ReturnsUnlessCloseFailed ==
  \A t \in Callers : <>(result[t] # "none" \/ (sw[t].err /\ ~ sw[t].done))

\* A goroutine that finds no free channel gets one that is released later:
\* "Otherwise, wait until some channel will be released and try to reserve it"
\* (channel_manager.go:69).  It does not hold, `released` is never made.
SearchEnds == \A g \in Goroutines : pc[g] = "search" ~> pc[g] # "search"
=============================================================================
