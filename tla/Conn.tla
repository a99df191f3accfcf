-------------------------------- MODULE Conn --------------------------------
(***************************************************************************)
(* The life of a connection in conn.go: NewConn, which exchanges headers   *)
(* and starts two goroutines; `handle`, which reads packets and hands      *)
(* messages to the application; `watchEnd`, which waits for the end of the *)
(* context; and calls of Close.  The last three between them run           *)
(* markReadAsDone, markConnectionAsClosed and markAsDone in any            *)
(* interleaving.                                                           *)
(*                                                                         *)
(* What these three do is kept as a list of atomic actions each goroutine  *)
(* still has before it, `todo`.  A DoneSignal (done_signal.go) is fired by *)
(* one swap, and only the goroutine that fired it goes on.                 *)
(*                                                                         *)
(* A panic in any goroutine ends the program: nothing moves after it.      *)
(***************************************************************************)
EXTENDS Naturals, Sequences

CONSTANTS
  Closers,      \* goroutines of the application that call Close, once each
  Buffers,      \* values of BufferedMessages: capacities of the channel of messages
  MaxReads,     \* bound: items the parser reads before the transport fails
  MayBreak      \* whether a read may fail with an error handle does not know

ASSUME ConnAssumption ==
  /\ Buffers \subseteq Nat
  /\ MaxReads \in Nat
  /\ MayBreak \in BOOLEAN
  /\ {"watchEnd", "handle"} \cap Closers = {}

VARIABLES
  ctxDone,         \* the context is cancelled; before the connection has its
                   \* own, the parent's
  transport,       \* "open", or "closed" by Close
  header,          \* the peer has sent its header
  peer,            \* "sending", "gone" (EOF) or "broken" (any other error)
  readDone, closed, done,     \* the DoneSignals
  messagesClosed,  \* the channels of messages, responses, fast replies are closed
  buffered,        \* capacity of the channel of messages, fixed at the start
  queue,           \* messages in the channel's buffer
  reads,           \* items read so far
  at,              \* where NewConn, and after it handle, is
  todo,            \* what each goroutine still has to do to end the connection
  panicked         \* "no", or what the program has died of

signals == <<readDone, closed, done>>
ending == <<ctxDone, transport, signals, messagesClosed>>
outside == <<header, peer, buffered>>
vars == <<ending, outside, queue, reads, at, todo, panicked>>

Threads == {"watchEnd", "handle"} \cup Closers

\* Mutant: Close leaves the transport open.
CloseOnlyCancels == <<"cancel">>

\* Steps of Close, markConnectionAsClosed, markReadAsDone and markAsDone.
Close == <<"cancel", "shut">>
markConnectionAsClosed == Close \o <<"closed">>
markReadAsDone == <<"readDone">>

\* What handle does once the context is cancelled.
ContextEnded == markConnectionAsClosed \o markReadAsDone

\* Mutant: the end of the context only closes the transport.
watchEndCloses == <<"wait">> \o Close

\* The same, for which watchEnd waits.
watchEnd == <<"wait">> \o ContextEnded

\* Mutant: the end of the input does not close the connection.
InputEndedReads == markReadAsDone

\* What handle does at the end of the input.
InputEnded == markReadAsDone \o markConnectionAsClosed

\* NewConn has not returned.
NewConnAt == {"writeHeader", "readHeader"}

\* The connection exists, and its goroutines run.
Established == at \notin NewConnAt \cup {"failed"}

TypeOK ==
  /\ ctxDone \in BOOLEAN
  /\ transport \in {"open", "closed"}
  /\ header \in BOOLEAN
  /\ peer \in {"sending", "gone", "broken"}
  /\ readDone \in BOOLEAN /\ closed \in BOOLEAN /\ done \in BOOLEAN
  /\ messagesClosed \in BOOLEAN
  /\ buffered \in Buffers
  /\ queue \in 0..buffered
  /\ reads \in 0..MaxReads
  /\ at \in NewConnAt \cup {"failed", "select", "read", "check", "deliver", "ending"}
  /\ \A g \in Threads : Len(todo[g]) <= 5
  /\ panicked \in {"no", "read error", "send on closed channel", "close of closed channel"}

Init ==
  /\ ctxDone = FALSE
  /\ transport = "open"
  /\ header = FALSE
  /\ peer = "sending"
  /\ readDone = FALSE /\ closed = FALSE /\ done = FALSE
  /\ messagesClosed = FALSE
  /\ buffered \in Buffers
  /\ queue = 0
  /\ reads = 0
  /\ at = "writeHeader"
  /\ todo = [g \in Threads |-> <<>>]
  /\ panicked = "no"

-----------------------------------------------------------------------------
(* NewConn.  It does not look at the context, and when it fails nobody     *)
(* closes the transport: neither its caller in server.go nor dial.go does. *)

\* The header has three bytes at most, which a socket takes without waiting for the
\* peer to read (a net.Pipe would wait).
WriteHeader ==
  /\ at = "writeHeader"
  /\ \/ at' = "readHeader"
     \/ peer # "sending" /\ at' = "failed"
  /\ UNCHANGED <<ending, outside, queue, reads, todo, panicked>>

\* The header may have come although the peer is gone by now.  With the
\* connection made, the goroutines start and Close can be called.
ReadHeader ==
  /\ at = "readHeader"
  /\ header
  /\ at' = "select"
  /\ todo' = [g \in Threads |-> CASE g \in Closers -> Close
                                 [] g = "watchEnd" -> watchEnd
                                 [] g = "handle" -> <<>>]
  /\ UNCHANGED <<ending, outside, queue, reads, panicked>>

\* Mutant: the exchange of headers begins again after a failure.
ReadHeaderRetries ==
  /\ at = "readHeader"
  /\ (peer = "gone" /\ ~ header) \/ peer = "broken"
  /\ at' = "writeHeader"
  /\ UNCHANGED <<ending, outside, queue, reads, todo, panicked>>

\* A transport that breaks may lose the header that was sent.
ReadHeaderFails ==
  /\ at = "readHeader"
  /\ (peer = "gone" /\ ~ header) \/ peer = "broken"
  /\ at' = "failed"
  /\ UNCHANGED <<ending, outside, queue, reads, todo, panicked>>

NewConn == WriteHeader \/ ReadHeader \/ ReadHeaderFails

-----------------------------------------------------------------------------
(* Ending the connection.                                                  *)

\* The first thing g has to do; the rest is what comes after it.
Do(g, what) == todo[g] # <<>> /\ Head(todo[g]) = what
Then(g, more) == todo' = [todo EXCEPT ![g] = more \o Tail(@)]

\* <-c.ctx.Done()
Wait(g) ==
  /\ Do(g, "wait")
  /\ ctxDone
  /\ Then(g, <<>>)
  /\ UNCHANGED <<ending, outside, queue, reads, at, panicked>>

Cancel(g) ==
  /\ Do(g, "cancel")
  /\ ctxDone' = TRUE
  /\ Then(g, <<>>)
  /\ UNCHANGED <<transport, signals, messagesClosed, outside, queue, reads, at, panicked>>

Shut(g) ==
  /\ Do(g, "shut")
  /\ transport' = "closed"
  /\ Then(g, <<>>)
  /\ UNCHANGED <<ctxDone, signals, messagesClosed, outside, queue, reads, at, panicked>>

\* closed.Close() && closed.Load(): the second holds whenever the first does.
FireClosed(g) ==
  /\ Do(g, "closed")
  /\ closed' = TRUE
  /\ Then(g, IF closed THEN <<>> ELSE <<"done">>)
  /\ UNCHANGED <<ctxDone, transport, readDone, done, messagesClosed,
                 outside, queue, reads, at, panicked>>

\* Mutant: the connection counts as done once it is read, closed or not.
FireReadDoneAlone(g) ==
  /\ Do(g, "readDone")
  /\ readDone' = TRUE
  /\ Then(g, IF readDone THEN <<>> ELSE <<"done">>)
  /\ UNCHANGED <<ctxDone, transport, closed, done, messagesClosed,
                 outside, queue, reads, at, panicked>>

\* readDone.Close(), and for who fired it, closed.Load() afterwards.
FireReadDone(g) ==
  /\ Do(g, "readDone")
  /\ readDone' = TRUE
  /\ Then(g, IF readDone THEN <<>> ELSE <<"ifClosed">>)
  /\ UNCHANGED <<ctxDone, transport, closed, done, messagesClosed,
                 outside, queue, reads, at, panicked>>

IfClosed(g) ==
  /\ Do(g, "ifClosed")
  /\ Then(g, IF closed THEN <<"done">> ELSE <<>>)
  /\ UNCHANGED <<ending, outside, queue, reads, at, panicked>>

\* markAsDone up to its ctxCancel: only who fires done closes the channels.
FireDone(g) ==
  /\ Do(g, "done")
  /\ done' = TRUE
  /\ ctxDone' = (ctxDone \/ ~ done)
  /\ Then(g, IF done THEN <<>> ELSE <<"channels">>)
  /\ UNCHANGED <<transport, readDone, closed, messagesClosed, outside, queue, reads, at, panicked>>

\* Three channels are closed, one after the other.  Nothing is ever sent on those of
\* responses and fast replies, so only messages can be told apart from the others.
CloseChannels(g) ==
  /\ Do(g, "channels")
  /\ IF messagesClosed
     THEN panicked' = "close of closed channel" /\ UNCHANGED messagesClosed
     ELSE messagesClosed' = TRUE /\ UNCHANGED panicked
  /\ Then(g, <<>>)
  /\ UNCHANGED <<ctxDone, transport, signals, outside, queue, reads, at>>

EndStep(g) ==
  \/ Wait(g)
  \/ Cancel(g)
  \/ Shut(g)
  \/ FireClosed(g)
  \/ FireReadDone(g)
  \/ IfClosed(g)
  \/ FireDone(g)
  \/ CloseChannels(g)

-----------------------------------------------------------------------------
(* handle: one round of its loop.                                          *)

\* handle leaves its loop and does the rest.
End(rest) ==
  /\ at' = "ending"
  /\ todo' = [todo EXCEPT !["handle"] = rest]

Select ==
  /\ at = "select"
  /\ IF ctxDone
     THEN End(ContextEnded)
     ELSE at' = "read" /\ UNCHANGED todo
  /\ UNCHANGED <<ending, outside, queue, reads, panicked>>

\* The parser returns a message, or nothing yet.  What is in its buffer it
\* returns after the transport was closed, too.
ReadItem ==
  /\ at = "read"
  /\ reads < MaxReads
  /\ reads' = reads + 1
  /\ at' \in {"check", "select"}
  /\ at' = "select" => ~ done
  /\ UNCHANGED <<ending, outside, queue, todo, panicked>>

\* io.EOF, or the error of a transport closed on this side.
ReadEnd ==
  /\ at = "read"
  /\ peer = "gone" \/ transport = "closed"
  /\ End(InputEnded)
  /\ UNCHANGED <<ending, outside, queue, reads, panicked>>

\* Any other error: panic(err).
ReadFails ==
  /\ at = "read"
  /\ peer = "broken"
  /\ panicked' = "read error"
  /\ UNCHANGED <<ending, outside, queue, reads, at, todo>>

\* if c.done.Load() { return }; the message is dropped.
Check ==
  /\ at = "check"
  /\ IF done THEN End(<<>>) ELSE at' = "deliver" /\ UNCHANGED todo
  /\ UNCHANGED <<ending, outside, queue, reads, panicked>>

\* Mutant: the channel is made with room for one message more.
DeliverOneMore ==
  /\ at = "deliver"
  /\ ~ messagesClosed
  /\ queue <= buffered
  /\ queue' = queue + 1
  /\ at' = "select"
  /\ UNCHANGED <<ending, outside, reads, todo, panicked>>

\* c.messages <- item, into the buffer.
Deliver ==
  /\ at = "deliver"
  /\ ~ messagesClosed
  /\ queue < buffered
  /\ queue' = queue + 1
  /\ at' = "select"
  /\ UNCHANGED <<ending, outside, reads, todo, panicked>>

\* A send on a closed channel panics, also when it has been waiting for long.
DeliverPanics ==
  /\ at = "deliver"
  /\ messagesClosed
  /\ panicked' = "send on closed channel"
  /\ UNCHANGED <<ending, outside, queue, reads, at, todo>>

handle ==
  \/ Select
  \/ ReadItem
  \/ ReadEnd
  \/ ReadFails
  \/ Check
  \/ Deliver
  \/ DeliverPanics

-----------------------------------------------------------------------------
(* The surroundings.                                                       *)

\* The application receives a message, from the buffer or from handle itself.
Receive ==
  /\ \/ queue > 0 /\ queue' = queue - 1 /\ UNCHANGED at
     \/ buffered = 0 /\ ~ messagesClosed /\ at = "deliver" /\ at' = "select" /\ UNCHANGED queue
  /\ UNCHANGED <<ending, outside, reads, todo, panicked>>

ParentCancels ==
  /\ ~ ctxDone
  /\ ctxDone' = TRUE
  /\ UNCHANGED <<transport, signals, messagesClosed, outside, queue, reads, at, todo, panicked>>

\* It may, or stay silent.
PeerSendsHeader ==
  /\ peer = "sending"
  /\ ~ header
  /\ header' = TRUE
  /\ UNCHANGED <<ending, peer, buffered, queue, reads, at, todo, panicked>>

PeerEnds ==
  /\ peer = "sending"
  /\ peer' \in (IF MayBreak THEN {"gone", "broken"} ELSE {"gone"})
  /\ UNCHANGED <<ending, header, buffered, queue, reads, at, todo, panicked>>

\* NewConn has failed, the connection is over and its goroutines have
\* returned, or the program died.
Over ==
  /\ \/ panicked # "no"
     \/ at = "failed"
     \/ messagesClosed /\ at = "ending" /\ queue = 0 /\ \A g \in Threads : todo[g] = <<>>
  /\ UNCHANGED vars

Next ==
  \/ /\ panicked = "no"
     /\ \/ NewConn
        \/ \E g \in Threads : EndStep(g)
        \/ handle
        \/ Receive
        \/ ParentCancels
        \/ PeerSendsHeader
        \/ PeerEnds
  \/ Over

Spec == Init /\ [][Next]_vars

\* What the program does on its own goes on: NewConn, the goroutines of the
\* connection, and a Close that was called.  Whether anybody calls Close, cancels
\* the context, sends its header or hangs up is open.
Running(A) == panicked = "no" /\ A
Fairness ==
  /\ WF_vars(Running(NewConn))
  /\ WF_vars(Running(EndStep("watchEnd")))
  /\ WF_vars(Running(EndStep("handle")))
  /\ WF_vars(Running(handle))
  /\ \A g \in Closers : WF_vars(Running(Shut(g)))

FairSpec == Spec /\ Fairness

-----------------------------------------------------------------------------
(* Properties.                                                             *)

\* The channels of the application are closed once only, and not before the
\* connection is: whoever of watchEnd and handle comes first, and whatever else
\* has run Close in between.
ChannelsCloseLast ==
  /\ messagesClosed => done /\ closed /\ ctxDone /\ transport = "closed"
  /\ panicked # "close of closed channel"

\* NewConn returns when the peer sends its header or hangs up, whatever comes
\* first and whatever comes after it.  Nothing else ends it, which is what the
\* loop of a server waits for.
NewConnReturns == (header \/ peer # "sending") ~> at \notin NewConnAt

\* After the context is cancelled, by whomever and also while NewConn is at work,
\* a connection that exists ends: Done fires and the application's channels are
\* closed, also when handle is stuck with a message that nobody receives.
ContextEndsConnection == (ctxDone /\ Established) ~> (messagesClosed \/ panicked # "no")

\* handle does not outlive its connection: it leaves its loop, or dies trying.
HandleEnds == done ~> (at = "ending" \/ panicked # "no")

\* An application that keeps receiving, as the examples and benchmarks do with
\* `for m := range c.Messages()`.
KeepsReceiving == WF_vars(Running(Receive))

\* When the peer hangs up and the application keeps receiving, the connection
\* ends by itself, unless there never is one.
PeerEndsConnection ==
  KeepsReceiving => (peer = "gone" ~> (messagesClosed \/ at = "failed" \/ panicked # "no"))

\* "When context has been terminated, cancel all actions." (conn.go:191).  It
\* does not hold: a message that handle is about to deliver is sent on the
\* channel that markAsDone has closed, which panics.
CancelledWithoutPanic == ctxDone => panicked # "send on closed channel"
=============================================================================
