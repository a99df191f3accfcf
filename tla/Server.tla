------------------------------- MODULE Server -------------------------------
(***************************************************************************)
(* The server of server.go: goroutines of the application listen, close    *)
(* and accept; every listening has a goroutine acceptConnections, which    *)
(* hands connections over through connCh, and a goroutine handleClose,     *)
(* which closes that channel when the context ends.                        *)
(*                                                                         *)
(* listenerMu orders ListenContext and Close only.  All others read the    *)
(* fields listener, ctx and connCh whenever they come to it, so each of    *)
(* these reads, and each of the writes, is a step of its own.              *)
(*                                                                         *)
(* The n-th ListenContext makes listener n, context n and channel n.       *)
(* Channel 0 is the closed one of NewServer; 0 is nil in the other fields. *)
(***************************************************************************)
EXTENDS Naturals

CONSTANTS
  Operators,     \* goroutines that call ListenContext and Close
  Acceptors,     \* goroutines that call Accept
  MaxListens,    \* bound: calls of ListenContext that get past its check
  MaxConns,      \* bound: clients that connect
  Nobody         \* listenerMu is not locked

ASSUME ServerAssumption ==
  /\ MaxListens \in Nat /\ MaxConns \in Nat
  /\ Nobody \notin Operators

VARIABLES
  listener, ctx, connCh,  \* the fields of the server
  listenerMu,
  listens,       \* calls of ListenContext so far
  open,          \* listeners that are open
  cancelled,     \* contexts that are cancelled
  chClosed,      \* channels that are closed
  operator,      \* where each operator is
  loop,          \* acceptConnections of each listening
  watcher,       \* handleClose of each listening
  call,          \* the call of Accept of each acceptor
  conns,         \* clients that have connected
  panicked       \* "no", or what the program has died of

fields == <<listener, ctx, connCh>>
lives == <<listens, open, cancelled>>
goroutines == <<operator, loop, watcher, call>>
vars == <<fields, listenerMu, lives, chClosed, goroutines, conns, panicked>>

Listening == 1..MaxListens
Ref == 0..MaxListens        \* a listening, or nil

\* n is the listening the operator is to start.
OperatorState ==
  [at : {"idle", "channel", "open", "store", "watch", "serve", "cancel", "forget"}, n : Ref]

\* Both goroutines were given a context.  l is the listener a loop has loaded, ch
\* the channel it sends on, 0 when they are out of scope.
LoopState ==
  [at : {"off", "check", "load", "conn", "done"}, ctx : Ref, l : {0}, ch : {0}]
    \cup [at : {"accept"}, ctx : Listening, l : Listening, ch : {0}]
    \cup [at : {"send"}, ctx : Listening, l : {0}, ch : Listening]
\* ch is the channel that handleClose has loaded, once it has.
WatcherState ==
  [at : {"off", "wait"}, ctx : Ref, ch : {0}]
    \cup [at : {"close", "done"}, ctx : Ref, ch : Listening]

\* done is the context whose Done the call waits for, 0 for the closed channel
\* that Done makes up; got is what the last call has returned.
CallState ==
  [at : {"idle", "ctx", "next", "select"}, done : Ref, ch : Ref,
   got : {"none", "conn", "closed", "nothing"}]

TypeOK ==
  /\ listener \in Ref /\ ctx \in Ref /\ connCh \in Ref
  /\ listenerMu \in Operators \cup {Nobody}
  /\ listens \in Ref
  /\ open \subseteq Listening /\ cancelled \subseteq Listening
  /\ chClosed \subseteq Ref
  /\ operator \in [Operators -> OperatorState]
  /\ loop \in [Listening -> LoopState]
  /\ watcher \in [Listening -> WatcherState]
  /\ call \in [Acceptors -> CallState]
  /\ conns \in 0..MaxConns
  /\ panicked \in {"no", "nil dereference", "send on closed channel", "close of closed channel"}

Init ==
  /\ listener = 0 /\ ctx = 0 /\ connCh = 0
  /\ listenerMu = Nobody
  /\ listens = 0 /\ open = {} /\ cancelled = {}
  /\ chClosed = {0}
  /\ operator = [o \in Operators |-> [at |-> "idle", n |-> 0]]
  /\ loop = [n \in Listening |-> [at |-> "off", ctx |-> 0, l |-> 0, ch |-> 0]]
  /\ watcher = [n \in Listening |-> [at |-> "off", ctx |-> 0, ch |-> 0]]
  /\ call = [a \in Acceptors |-> [at |-> "idle", done |-> 0, ch |-> 0, got |-> "none"]]
  /\ conns = 0
  /\ panicked = "no"

-----------------------------------------------------------------------------
(* ListenContext.                                                          *)

At(o, place) == operator[o].at = place
Goto(o, place) == operator' = [operator EXCEPT ![o].at = place]

\* Mutant: it is not looked at whether the server is listening.
ListenUnchecked(o) ==
  /\ At(o, "idle")
  /\ listenerMu = Nobody
  /\ listens < MaxListens
  /\ listenerMu' = o
  /\ listens' = listens + 1
  /\ ctx' = listens'
  /\ operator' = [operator EXCEPT ![o] = [at |-> "channel", n |-> listens']]
  /\ UNCHANGED <<listener, connCh, open, cancelled, chClosed, loop, watcher, call, conns, panicked>>

\* Up to the new context.  A server that is listening turns the call away
\* without a step.
Listen(o) ==
  /\ At(o, "idle")
  /\ listenerMu = Nobody
  /\ listener = 0
  /\ listens < MaxListens
  /\ listenerMu' = o
  /\ listens' = listens + 1
  /\ ctx' = listens'
  /\ operator' = [operator EXCEPT ![o] = [at |-> "channel", n |-> listens']]
  /\ UNCHANGED <<listener, connCh, open, cancelled, chClosed, loop, watcher, call, conns, panicked>>

\* Mutant: the channel of a new server is used, and never replaced.
ListenKeepsChannel(o) ==
  /\ At(o, "channel")
  /\ Goto(o, "open")
  /\ UNCHANGED <<fields, listenerMu, lives, chClosed, loop, watcher, call, conns, panicked>>

\* s.connCh = make(chan Conn)
ListenChannel(o) ==
  /\ At(o, "channel")
  /\ connCh' = operator[o].n
  /\ Goto(o, "open")
  /\ UNCHANGED <<listener, ctx, listenerMu, lives, chClosed, loop, watcher, call, conns, panicked>>

\* lc.Listen fails: the context is not cancelled and the channel stays.
ListenFails(o) ==
  /\ At(o, "open")
  /\ listenerMu' = Nobody
  /\ Goto(o, "idle")
  /\ UNCHANGED <<fields, lives, chClosed, loop, watcher, call, conns, panicked>>

\* lc.Listen succeeds: clients may connect from now on.
ListenOpens(o) ==
  /\ At(o, "open")
  /\ open' = open \cup {operator[o].n}
  /\ Goto(o, "store")
  /\ UNCHANGED <<fields, listenerMu, listens, cancelled, chClosed, loop, watcher, call, conns, panicked>>

\* s.listener.Store(&listener), and listenerMu is given up.
ListenStores(o) ==
  /\ At(o, "store")
  /\ listener' = operator[o].n
  /\ listenerMu' = Nobody
  /\ Goto(o, "watch")
  /\ UNCHANGED <<ctx, connCh, lives, chClosed, loop, watcher, call, conns, panicked>>

\* go s.handleClose(s.ctx), after listenerMu was given up.
StartWatcher(o) ==
  /\ At(o, "watch")
  /\ watcher' = [watcher EXCEPT ![operator[o].n] = [at |-> "wait", ctx |-> ctx, ch |-> 0]]
  /\ Goto(o, "serve")
  /\ UNCHANGED <<fields, listenerMu, lives, chClosed, loop, call, conns, panicked>>

\* go s.acceptConnections(s.ctx)
StartLoop(o) ==
  /\ At(o, "serve")
  /\ loop' = [loop EXCEPT ![operator[o].n].at = "check", ![operator[o].n].ctx = ctx]
  /\ Goto(o, "idle")
  /\ UNCHANGED <<fields, listenerMu, lives, chClosed, watcher, call, conns, panicked>>

-----------------------------------------------------------------------------
(* Close.                                                                  *)

\* Mutant: the listener is dropped without closing it.
CloseKeepsListener(o) ==
  /\ At(o, "idle")
  /\ listenerMu = Nobody
  /\ IF listener = 0
     THEN panicked' = "nil dereference" /\ UNCHANGED <<listenerMu, operator>>
     ELSE listenerMu' = o /\ Goto(o, "cancel") /\ UNCHANGED panicked
  /\ UNCHANGED <<fields, listens, open, cancelled, chClosed, loop, watcher, call, conns>>

\* The pointer to the listener is dereferenced before it is compared to nil.
CloseListener(o) ==
  /\ At(o, "idle")
  /\ listenerMu = Nobody
  /\ IF listener = 0
     THEN panicked' = "nil dereference" /\ UNCHANGED <<listenerMu, open, operator>>
     ELSE /\ listenerMu' = o
          /\ open' = open \ {listener}
          /\ Goto(o, "cancel")
          /\ UNCHANGED panicked
  /\ UNCHANGED <<fields, listens, cancelled, chClosed, loop, watcher, call, conns>>

\* s.ctxCancel()
CloseContext(o) ==
  /\ At(o, "cancel")
  /\ cancelled' = cancelled \cup {ctx}
  /\ Goto(o, "forget")
  /\ UNCHANGED <<fields, listenerMu, listens, open, chClosed, loop, watcher, call, conns, panicked>>

\* s.listener.Store(nil), and listenerMu is given up.
CloseForgets(o) ==
  /\ At(o, "forget")
  /\ listener' = 0
  /\ listenerMu' = Nobody
  /\ Goto(o, "idle")
  /\ UNCHANGED <<ctx, connCh, lives, chClosed, loop, watcher, call, conns, panicked>>

\* What an operator that has begun goes on with.
OperatorStep(o) ==
  \/ ListenChannel(o)
  \/ ListenFails(o)
  \/ ListenOpens(o)
  \/ ListenStores(o)
  \/ StartWatcher(o)
  \/ StartLoop(o)
  \/ CloseContext(o)
  \/ CloseForgets(o)

-----------------------------------------------------------------------------
(* handleClose.                                                            *)

\* Mutant: it does not wait for the context.
WatcherWakesAtOnce(n) ==
  /\ watcher[n].at = "wait"
  /\ watcher' = [watcher EXCEPT ![n].at = "close", ![n].ch = connCh]
  /\ UNCHANGED <<fields, listenerMu, lives, chClosed, operator, loop, call, conns, panicked>>

\* The context has ended: it loads the channel that is in the field by then.
WatcherWakes(n) ==
  /\ watcher[n].at = "wait"
  /\ watcher[n].ctx \in cancelled
  /\ watcher' = [watcher EXCEPT ![n].at = "close", ![n].ch = connCh]
  /\ UNCHANGED <<fields, listenerMu, lives, chClosed, operator, loop, call, conns, panicked>>

WatcherCloses(n) ==
  /\ watcher[n].at = "close"
  /\ watcher' = [watcher EXCEPT ![n].at = "done"]
  /\ IF watcher[n].ch \in chClosed
     THEN panicked' = "close of closed channel" /\ UNCHANGED chClosed
     ELSE chClosed' = chClosed \cup {watcher[n].ch} /\ UNCHANGED panicked
  /\ UNCHANGED <<fields, listenerMu, lives, operator, loop, call, conns>>

handleClose(n) == WatcherWakes(n) \/ WatcherCloses(n)

-----------------------------------------------------------------------------
(* acceptConnections.                                                      *)

LoopUnchanged ==
  UNCHANGED <<fields, listenerMu, lives, chClosed, operator, watcher, call>>

LoopCheck(n) ==
  /\ loop[n].at = "check"
  /\ loop' = [loop EXCEPT ![n].at = IF loop[n].ctx \in cancelled THEN "done" ELSE "load"]
  /\ LoopUnchanged /\ UNCHANGED <<conns, panicked>>

\* Mutant: a listener that Close has taken away is used.
LoopLoadUnchecked(n) ==
  /\ loop[n].at = "load"
  /\ loop' = [loop EXCEPT ![n].l = listener, ![n].at = "accept"]
  /\ LoopUnchanged /\ UNCHANGED <<conns, panicked>>

LoopLoad(n) ==
  /\ loop[n].at = "load"
  /\ loop' = [loop EXCEPT ![n].l = listener, ![n].at = IF listener = 0 THEN "done" ELSE "accept"]
  /\ LoopUnchanged /\ UNCHANGED <<conns, panicked>>

\* listener.Accept fails because the listener was closed.
LoopEnds(n) ==
  /\ loop[n].at = "accept"
  /\ loop[n].l \notin open
  /\ loop' = [loop EXCEPT ![n].at = "done", ![n].l = 0]
  /\ LoopUnchanged /\ UNCHANGED <<conns, panicked>>

\* Any other error of listener.Accept ends the loop as well.
LoopFails(n) ==
  /\ loop[n].at = "accept"
  /\ loop' = [loop EXCEPT ![n].at = "done", ![n].l = 0]
  /\ LoopUnchanged /\ UNCHANGED <<conns, panicked>>

LoopAccepts(n) ==
  /\ loop[n].at = "accept"
  /\ loop[n].l \in open
  /\ conns < MaxConns
  /\ conns' = conns + 1
  /\ loop' = [loop EXCEPT ![n].at = "conn", ![n].l = 0]
  /\ LoopUnchanged /\ UNCHANGED panicked

\* NewConn, in the same goroutine, returns with an error or without; then
\* handleConnection reads the field connCh.  A client that stays silent keeps the
\* loop in NewConn.
LoopConnects(n) ==
  /\ loop[n].at = "conn"
  /\ \/ loop' = [loop EXCEPT ![n].at = "check"]
     \/ loop' = [loop EXCEPT ![n].at = "send", ![n].ch = connCh]
  /\ LoopUnchanged /\ UNCHANGED <<conns, panicked>>

\* A send on a closed channel, also when it has been waiting for long.
LoopPanics(n) ==
  /\ loop[n].at = "send"
  /\ loop[n].ch \in chClosed
  /\ panicked' = "send on closed channel"
  /\ LoopUnchanged /\ UNCHANGED <<loop, conns>>

LoopStep(n) ==
  \/ LoopCheck(n)
  \/ LoopLoad(n)
  \/ LoopEnds(n)
  \/ LoopPanics(n)

-----------------------------------------------------------------------------
(* Accept.                                                                 *)

CallUnchanged ==
  UNCHANGED <<fields, listenerMu, lives, chClosed, operator, watcher, conns, panicked>>

\* Done looks at the listener first.
Accept(a) ==
  /\ call[a].at = "idle"
  /\ call' = [call EXCEPT ![a] =
       [at |-> IF listener = 0 THEN "next" ELSE "ctx", done |-> 0, ch |-> 0, got |-> "none"]]
  /\ CallUnchanged /\ UNCHANGED loop

AcceptDone(a) ==
  /\ call[a].at = "ctx"
  /\ call' = [call EXCEPT ![a].done = ctx, ![a].at = "next"]
  /\ CallUnchanged /\ UNCHANGED loop

AcceptNext(a) ==
  /\ call[a].at = "next"
  /\ call' = [call EXCEPT ![a].ch = connCh, ![a].at = "select"]
  /\ CallUnchanged /\ UNCHANGED loop

AcceptReturns(a, what) ==
  /\ call[a].at = "select"
  /\ call' = [call EXCEPT ![a] = [at |-> "idle", done |-> 0, ch |-> 0, got |-> what]]
  /\ CallUnchanged

\* ErrServerClosed
AcceptClosed(a) ==
  /\ call[a].done = 0 \/ call[a].done \in cancelled
  /\ AcceptReturns(a, "closed")
  /\ UNCHANGED loop

\* The channel is closed: neither a connection nor an error.
AcceptNothing(a) ==
  /\ call[a].ch \in chClosed
  /\ AcceptReturns(a, "nothing")
  /\ UNCHANGED loop

AcceptConn(a) ==
  /\ call[a].ch \notin chClosed
  /\ AcceptReturns(a, "conn")
  /\ \E n \in Listening :
       /\ loop[n].at = "send"
       /\ loop[n].ch = call[a].ch
       /\ loop' = [loop EXCEPT ![n].at = "check", ![n].ch = 0]

AcceptStep(a) ==
  \/ AcceptDone(a)
  \/ AcceptNext(a)
  \/ AcceptClosed(a)
  \/ AcceptNothing(a)
  \/ AcceptConn(a)

-----------------------------------------------------------------------------
\* The context that ListenContext was given may be cancelled.
ParentCancels(n) ==
  /\ n <= listens
  /\ n \notin cancelled
  /\ cancelled' = cancelled \cup {n}
  /\ UNCHANGED <<fields, listenerMu, listens, open, chClosed, goroutines, conns, panicked>>

Next ==
  \/ /\ panicked = "no"
     /\ \/ \E o \in Operators : Listen(o) \/ CloseListener(o) \/ OperatorStep(o)
        \/ \E n \in Listening : \/ handleClose(n)
                                \/ LoopStep(n)
                                \/ LoopAccepts(n)
                                \/ LoopConnects(n)
                                \/ LoopFails(n)
                                \/ ParentCancels(n)
        \/ \E a \in Acceptors : Accept(a) \/ AcceptStep(a)
  \/ panicked # "no" /\ UNCHANGED vars

Spec == Init /\ [][Next]_vars

\* What was begun goes on.  Nobody has to connect, to call or to cancel, and a client
\* that has connected need not answer (LoopConnects).
Running(A) == panicked = "no" /\ A
FairSpec ==
  /\ Spec
  /\ \A o \in Operators : WF_vars(Running(OperatorStep(o)))
  /\ \A n \in Listening : WF_vars(Running(handleClose(n))) /\ WF_vars(Running(LoopStep(n)))
  /\ \A a \in Acceptors : WF_vars(Running(AcceptStep(a)))

-----------------------------------------------------------------------------
(* Properties.                                                             *)

\* There is one open listener at most.  It is the stored one, but for the moment
\* when whoever holds listenerMu has opened it and not stored it yet.  The context
\* and the channel in the fields are those of the stored listener, although nobody
\* who reads them takes listenerMu.
ListeningIsWhole ==
  /\ \A m, n \in open : m = n
  /\ \A n \in open :
       n = listener \/ \E o \in Operators : At(o, "store") /\ operator[o].n = n /\ listenerMu = o
  /\ listener # 0 => ctx = listener /\ connCh = listener

\* Listening w has ended, and its handleClose is through with channel n.
ClosedBy(w, n) == watcher[w].at = "done" /\ watcher[w].ch = n /\ w \in cancelled

\* However often the server listens, a channel is closed only by the handleClose of
\* a listening that has ended, its own or an earlier one; and one is closed twice
\* only when the handleClose of an earlier listening, which closes whatever channel
\* is in the field when it gets there, came for the channel of a later one.
ChannelsClosedByEnded ==
  /\ \A n \in chClosed \ {0} : \E w \in 1..n : ClosedBy(w, n)
  /\ panicked = "close of closed channel" =>
       \E v, w \in Listening : v < w /\ ClosedBy(v, watcher[w].ch) /\ ClosedBy(w, watcher[w].ch)

\* Accept returns neither a connection nor an error only to somebody who has
\* found the server closed, or whose very channel was closed by the handleClose of
\* an ended listening, the channel's own or an earlier one.
NothingOnlyAtTheEnd ==
  [][\A a \in Acceptors :
       call[a].at = "select" /\ call'[a].got = "nothing" =>
         call[a].done = 0 \/ \E w \in 1..call[a].ch : ClosedBy(w, call[a].ch)]_vars

\* When the server stays closed, its loops end and no Accept waits for ever, listens
\* that fail included, with these exceptions: a client that stays silent keeps the
\* loop in NewConn; a loop may be left sending on a channel that its own listening
\* did not close, because it failed or because its handleClose closed a later
\* channel; and an Accept may wait for the context of a listen that failed.
ClosedComesToRest ==
  <>[](listener = 0) =>
    /\ \A n \in Listening :
         <>[](\/ panicked # "no"
              \/ loop[n].at \in {"off", "done", "conn"}
              \/ loop[n].at = "send" /\ watcher[loop[n].ch].ch # loop[n].ch)
    /\ \A a \in Acceptors :
         \/ []<>(panicked # "no" \/ call[a].at = "idle")
         \/ <>[](/\ call[a].at = "select" /\ call[a].done # 0
                 /\ watcher[call[a].done].at = "off")
=============================================================================
