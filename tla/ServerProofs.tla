----------------------------- MODULE ServerProofs -----------------------------
(***************************************************************************)
(* What holds of the server for every number of goroutines that listen,    *)
(* close and accept, and of listenings and clients.                        *)
(*                                                                         *)
(* ServerInv is inductive.  MuInv and FieldsInv are what listenerMu is     *)
(* worth: which places are inside it, and what the fields are there.       *)
(* NumbersInv, MadeInv, StartingInv and GivenInv say that each listening   *)
(* has a context, a channel and a watcher of its own.  EndedInv says that  *)
(* a watcher which has woken is one of a listening that has ended, and     *)
(* LaterInv that the channel it finds is its own or a later one;           *)
(* ChannelsInv relates the closed channels to the watchers, and CallsInv   *)
(* is what an Accept has loaded so far.                                    *)
(***************************************************************************)
EXTENDS Server, TLAPS

\* The places of an operator that starts a listening, and those inside listenerMu.
Starting == {"channel", "open", "store", "watch", "serve"}
InMu == {"channel", "open", "store", "cancel", "forget"}

MuInv == \A o \in Operators : operator[o].at \in InMu <=> listenerMu = o

FieldsInv ==
  /\ ListeningIsWhole
  /\ \A o \in Operators :
       /\ At(o, "channel") \/ At(o, "open") \/ At(o, "store") =>
            listener = 0 /\ ctx = operator[o].n
       /\ At(o, "open") \/ At(o, "store") => connCh = operator[o].n
       /\ At(o, "cancel") \/ At(o, "forget") => listener # 0 /\ open = {}

\* Somebody needs a channel that was made by ListenContext.
ChannelNeeded ==
  \/ \E o \in Operators : operator[o].at \in {"open", "store", "watch", "serve"}
  \/ \E n \in Listening : loop[n].at # "off" \/ watcher[n].at # "off"
  \/ \E a \in Acceptors : call[a].at = "ctx" \/ (call[a].at = "next" /\ call[a].done # 0)

NumbersInv == ctx = listens /\ connCh <= listens

MadeInv == ChannelNeeded => connCh # 0

\* Every listening is started by one operator, with one watcher and
\* one loop.
StartingInv ==
  \A o \in Operators : operator[o].at \in Starting =>
    /\ operator[o].n \in 1..listens
    /\ \A p \in Operators : p # o /\ operator[p].at \in Starting => operator[p].n # operator[o].n
    /\ operator[o].at # "serve" => watcher[operator[o].n].at = "off"
    /\ loop[operator[o].n].at = "off"

GivenInv ==
  \A n \in Listening :
    /\ watcher[n].at # "off" => n <= listens /\ watcher[n].ctx \in 1..listens
    /\ loop[n].at # "off" => n <= listens /\ loop[n].ctx # 0

\* A listening that is over, or that a Close has got to, is cancelled.
EndedInv ==
  /\ \A o \in Operators :
       /\ At(o, "forget") => listener \in cancelled
       /\ At(o, "watch") => operator[o].n = listener \/ operator[o].n \in cancelled
  /\ \A n \in Listening :
       /\ watcher[n].at # "off" => watcher[n].ctx = n \/ n \in cancelled
       /\ watcher[n].at \in {"close", "done"} => n \in cancelled

\* The channel in the field is never an earlier one than that of a listening that
\* has made its own.
LaterInv ==
  /\ \A o \in Operators :
       operator[o].at \in {"open", "store", "watch"} => operator[o].n <= connCh
  /\ \A n \in Listening :
       /\ watcher[n].at # "off" => n <= connCh
       /\ watcher[n].at \in {"close", "done"} => n <= watcher[n].ch

ChannelsInv == 0 \in chClosed /\ ChannelsClosedByEnded

CallsInv ==
  \A a \in Acceptors :
    /\ call[a].at # "idle" => call[a].got = "none"
    /\ call[a].at = "select" /\ call[a].done # 0 => call[a].ch # 0

ServerInv ==
  /\ TypeOK
  /\ MuInv /\ FieldsInv
  /\ NumbersInv /\ MadeInv /\ StartingInv /\ GivenInv
  /\ EndedInv /\ LaterInv
  /\ ChannelsInv
  /\ CallsInv

-----------------------------------------------------------------------------
(* The steps, by what they may change.                                     *)

\* Loops and calls of Accept change nothing the operators or watchers rely on.
LoopActs(n) == LoopStep(n) \/ LoopAccepts(n) \/ LoopConnects(n) \/ LoopFails(n)
CallActs(a) == Accept(a) \/ AcceptStep(a)

LEMMA NumbersAreTyped ==
  TypeOK => /\ MaxListens \in Nat
            /\ \A k : k \in Ref <=> k \in Nat /\ k <= MaxListens
            /\ \A k : k \in Listening <=> k \in Nat /\ 1 <= k /\ k <= MaxListens
            /\ {listener, ctx, connCh, listens} \subseteq Ref
<1>1. MaxListens \in Nat
  BY ServerAssumption
<1>2. \A k : k \in Ref <=> k \in Nat /\ k <= MaxListens
  BY <1>1 DEF Ref
<1>3. \A k : k \in Listening <=> k \in Nat /\ 1 <= k /\ k <= MaxListens
  BY <1>1 DEF Listening
<1>4. TypeOK => {listener, ctx, connCh, listens} \subseteq Ref
  BY DEF TypeOK
<1> QED
  BY <1>1, <1>2, <1>3, <1>4

LEMMA GotoFacts ==
  ASSUME TypeOK, NEW o \in Operators,
         NEW place \in {"idle", "channel", "open", "store", "watch", "serve", "cancel", "forget"},
         Goto(o, place)
  PROVE  /\ operator' \in [Operators -> OperatorState]
         /\ operator'[o].at = place /\ operator'[o].n = operator[o].n
         /\ \A p \in Operators : p # o => operator'[p] = operator[p]
BY DEF TypeOK, OperatorState, Goto

LEMMA ListenFacts ==
  ASSUME TypeOK, NEW o \in Operators, Listen(o)
  PROVE  /\ listens' = listens + 1 /\ listens' \in Listening /\ ctx' = listens'
         /\ operator' \in [Operators -> OperatorState]
         /\ operator'[o].at = "channel" /\ operator'[o].n = listens'
         /\ \A p \in Operators : p # o => operator'[p] = operator[p]
<1> DEFINE r == [at |-> "channel", n |-> listens']
<1>1. listens' = listens + 1 /\ listens' \in Listening /\ listens' \in Ref /\ ctx' = listens'
  BY NumbersAreTyped DEF Listen
<1>2. operator' = [operator EXCEPT ![o] = r] /\ r \in OperatorState
  BY <1>1 DEF Listen, OperatorState
<1> QED
  BY <1>1, <1>2 DEF TypeOK

LEMMA StartWatcherFacts ==
  ASSUME TypeOK, NEW o \in Operators, StartWatcher(o), operator[o].n \in Listening
  PROVE  /\ watcher' \in [Listening -> WatcherState]
         /\ watcher'[operator[o].n].at = "wait" /\ watcher'[operator[o].n].ctx = ctx
         /\ \A m \in Listening : m # operator[o].n => watcher'[m] = watcher[m]
<1> DEFINE w == [at |-> "wait", ctx |-> ctx, ch |-> 0]
<1>1. watcher' = [watcher EXCEPT ![operator[o].n] = w] /\ w \in WatcherState
  BY DEF StartWatcher, TypeOK, WatcherState
<1> QED
  BY <1>1 DEF TypeOK

LEMMA StartLoopFacts ==
  ASSUME TypeOK, NEW o \in Operators, StartLoop(o), operator[o].n \in Listening,
         loop[operator[o].n].at = "off"
  PROVE  /\ loop' \in [Listening -> LoopState]
         /\ loop'[operator[o].n].at = "check" /\ loop'[operator[o].n].ctx = ctx
         /\ \A m \in Listening : m # operator[o].n => loop'[m] = loop[m]
<1> DEFINE n == operator[o].n
           s == [loop[n] EXCEPT !.at = "check", !.ctx = ctx]
<1>1. loop' = [loop EXCEPT ![n] = s]
  BY DEF StartLoop
<1>2. s \in LoopState /\ s.at = "check" /\ s.ctx = ctx
  BY DEF LoopState, TypeOK
<1> QED
  BY <1>1, <1>2 DEF TypeOK

LEMMA handleCloseFacts ==
  ASSUME TypeOK, MadeInv, NEW n \in Listening, handleClose(n)
  PROVE  /\ watcher' \in [Listening -> WatcherState]
         /\ watcher[n].at \in {"wait", "close"} /\ watcher'[n].at # "off"
         /\ watcher'[n].ctx = watcher[n].ctx
         /\ \A m \in Listening : m # n => watcher'[m] = watcher[m]
         /\ WatcherWakes(n) => watcher'[n].at = "close" /\ watcher'[n].ch = connCh
         /\ WatcherCloses(n) => watcher'[n].at = "done" /\ watcher'[n].ch = watcher[n].ch
<1>1. watcher[n] \in WatcherState /\ connCh \in Listening
  <2>1. connCh # 0
    BY DEF MadeInv, ChannelNeeded, handleClose, WatcherWakes, WatcherCloses
  <2>2. connCh \in Ref /\ \A k \in Ref : k # 0 => k \in Listening
    BY NumbersAreTyped
  <2> QED
    BY <2>1, <2>2 DEF TypeOK
<1>2. CASE WatcherWakes(n)
  <2> DEFINE w == [watcher[n] EXCEPT !.at = "close", !.ch = connCh]
  <2>1. watcher' = [watcher EXCEPT ![n] = w] /\ watcher[n].at = "wait"
    BY <1>2 DEF WatcherWakes
  <2>2. w \in WatcherState /\ w.at = "close" /\ w.ctx = watcher[n].ctx /\ w.ch = connCh
    BY <1>1, <2>1 DEF WatcherState
  <2>3. ~ WatcherCloses(n)
    BY <2>1 DEF WatcherCloses
  <2> QED
    BY <2>1, <2>2, <2>3 DEF TypeOK
<1>3. CASE WatcherCloses(n)
  <2> DEFINE w == [watcher[n] EXCEPT !.at = "done"]
  <2>1. watcher' = [watcher EXCEPT ![n] = w] /\ watcher[n].at = "close"
    BY <1>3 DEF WatcherCloses
  <2>2. w \in WatcherState /\ w.at = "done" /\ w.ctx = watcher[n].ctx /\ w.ch = watcher[n].ch
    BY <1>1, <2>1 DEF WatcherState
  <2>3. ~ WatcherWakes(n)
    BY <2>1 DEF WatcherWakes
  <2> QED
    BY <2>1, <2>2, <2>3 DEF TypeOK
<1> QED
  BY <1>2, <1>3 DEF handleClose

LEMMA LoopFacts ==
  ASSUME TypeOK, NEW n \in Listening, LoopActs(n), connCh # 0, loop[n].ctx # 0
  PROVE  /\ LoopUnchanged
         /\ panicked' = panicked \/ panicked' = "send on closed channel"
         /\ conns' \in 0..MaxConns
         /\ loop' \in [Listening -> LoopState]
         /\ loop[n].at # "off" /\ loop'[n].at # "off" /\ loop'[n].ctx = loop[n].ctx
         /\ \A m \in Listening : m # n => loop'[m] = loop[m]
<1>0. /\ \A k : k \in Ref <=> k \in Nat /\ k <= MaxListens
      /\ \A k : k \in Listening <=> k \in Nat /\ 1 <= k /\ k <= MaxListens
      /\ {listener, ctx, connCh, listens} \subseteq Ref /\ MaxListens \in Nat
  BY NumbersAreTyped
<1>1. /\ LoopUnchanged
      /\ panicked' = panicked \/ panicked' = "send on closed channel"
      /\ loop[n].at # "off"
  BY DEF LoopActs, LoopStep, LoopCheck, LoopLoad, LoopEnds, LoopConnects, LoopPanics, LoopAccepts,
         LoopFails
<1>2. conns' = conns \/ (conns < MaxConns /\ conns' = conns + 1)
  BY DEF LoopActs, LoopStep, LoopCheck, LoopLoad, LoopEnds, LoopConnects, LoopPanics, LoopAccepts,
         LoopFails
<1>3. conns' \in 0..MaxConns
  <2>1. conns \in 0..MaxConns /\ MaxConns \in Nat
    BY ServerAssumption DEF TypeOK
  <2> QED
    BY <1>2, <2>1
<1>4. /\ loop[n] \in LoopState /\ 0 \in Ref /\ connCh \in Listening
      /\ listener # 0 => listener \in Listening
      /\ loop[n].ctx \in Ref => loop[n].ctx \in Listening
  <2>1. loop[n] \in LoopState
    BY DEF TypeOK
  <2>2. 0 \in Ref /\ connCh \in Listening /\ (listener # 0 => listener \in Listening)
        /\ (loop[n].ctx \in Ref => loop[n].ctx \in Listening)
    BY <1>0
  <2> QED
    BY <2>1, <2>2
<1>5. loop[n].ctx \in Listening /\ loop[n].ctx \in Ref
  <2>1. loop[n].ctx \in Ref \/ loop[n].ctx \in Listening
    BY <1>4 DEF LoopState
  <2> QED
    BY <1>0, <2>1
<1> DEFINE Typed(s) == s \in LoopState /\ s.at # "off" /\ s.ctx = loop[n].ctx
<1>6. \E s : loop' = [loop EXCEPT ![n] = s] /\ Typed(s)
  <2>1. CASE LoopCheck(n)
    <3> DEFINE s == [loop[n] EXCEPT !.at = IF loop[n].ctx \in cancelled THEN "done" ELSE "load"]
    <3>1. loop' = [loop EXCEPT ![n] = s] /\ Typed(s)
      BY <1>4, <1>5, <2>1 DEF LoopCheck, LoopState
    <3> QED
      BY <3>1
  <2>2. CASE LoopLoad(n)
    <3> DEFINE s == [loop[n] EXCEPT !.l = listener, !.at = IF listener = 0 THEN "done" ELSE "accept"]
    <3>1. loop' = [loop EXCEPT ![n] = s]
      BY <2>2 DEF LoopLoad
    <3>2. CASE listener = 0
      <4> DEFINE r == [loop[n] EXCEPT !.l = 0, !.at = "done"]
      <4>1. loop' = [loop EXCEPT ![n] = r]
        BY <3>1, <3>2
      <4>2. Typed(r)
        BY <1>4, <1>5, <2>2 DEF LoopLoad, LoopState
      <4> QED
        BY <4>1, <4>2
    <3>3. CASE listener # 0
      <4> DEFINE r == [loop[n] EXCEPT !.l = listener, !.at = "accept"]
      <4>1. loop' = [loop EXCEPT ![n] = r]
        BY <3>1, <3>3
      <4>2. Typed(r)
        BY <1>4, <1>5, <2>2, <3>3 DEF LoopLoad, LoopState
      <4> QED
        BY <4>1, <4>2
    <3> QED
      BY <3>2, <3>3
  <2>3. CASE LoopEnds(n) \/ LoopFails(n)
    <3> DEFINE s == [loop[n] EXCEPT !.at = "done", !.l = 0]
    <3>1. loop' = [loop EXCEPT ![n] = s] /\ Typed(s)
      BY <1>4, <1>5, <2>3 DEF LoopEnds, LoopFails, LoopState
    <3> QED
      BY <3>1
  <2>4. CASE LoopAccepts(n)
    <3> DEFINE s == [loop[n] EXCEPT !.at = "conn", !.l = 0]
    <3>1. loop' = [loop EXCEPT ![n] = s] /\ Typed(s)
      BY <1>4, <1>5, <2>4 DEF LoopAccepts, LoopState
    <3> QED
      BY <3>1
  <2>5. CASE LoopConnects(n)
    <3> DEFINE s == [loop[n] EXCEPT !.at = "check"]
               r == [loop[n] EXCEPT !.at = "send", !.ch = connCh]
    <3>1. loop' = [loop EXCEPT ![n] = s] \/ loop' = [loop EXCEPT ![n] = r]
      BY <2>5 DEF LoopConnects
    <3>2. Typed(s) /\ Typed(r)
      BY <1>4, <1>5, <2>5 DEF LoopConnects, LoopState
    <3> QED
      BY <3>1, <3>2
  <2>6. CASE LoopPanics(n)
    <3>1. loop' = [loop EXCEPT ![n] = loop[n]]
      BY <2>6 DEF LoopPanics, TypeOK
    <3> QED
      BY <1>1, <1>4, <3>1
  <2> QED
    BY <2>1, <2>2, <2>3, <2>4, <2>5, <2>6 DEF LoopActs, LoopStep
<1>7. PICK s : loop' = [loop EXCEPT ![n] = s] /\ Typed(s)
  BY <1>6
<1>8. /\ loop' \in [Listening -> LoopState]
      /\ loop'[n] = s
      /\ \A m \in Listening : m # n => loop'[m] = loop[m]
  BY <1>7 DEF TypeOK
<1> QED
  BY <1>1, <1>3, <1>7, <1>8

\* A call of Accept that gets a connection sends its loop back to the start.
LEMMA CallFacts ==
  ASSUME TypeOK, NEW a \in Acceptors, CallActs(a)
  PROVE  /\ CallUnchanged
         /\ call' \in [Acceptors -> CallState]
         /\ \A b \in Acceptors : b # a => call'[b] = call[b]
         /\ loop' \in [Listening -> LoopState]
         /\ \A n \in Listening : /\ loop'[n].at = "off" <=> loop[n].at = "off"
                                 /\ loop'[n].ctx = loop[n].ctx
<1>1. CallUnchanged
  BY DEF CallActs, AcceptStep, Accept, AcceptDone, AcceptNext, AcceptClosed, AcceptNothing,
         AcceptConn, AcceptReturns
<1>2. call[a] \in CallState /\ {ctx, connCh, 0} \subseteq Ref
  <2>1. call[a] \in CallState
    BY DEF TypeOK
  <2>2. {ctx, connCh, 0} \subseteq Ref
    BY NumbersAreTyped
  <2> QED
    BY <2>1, <2>2
<1>3. \E s \in CallState : call' = [call EXCEPT ![a] = s]
  <2>1. CASE Accept(a)
    <3> DEFINE s == [at |-> IF listener = 0 THEN "next" ELSE "ctx", done |-> 0, ch |-> 0, got |-> "none"]
    <3>1. call' = [call EXCEPT ![a] = s] /\ s \in CallState
      BY <1>2, <2>1 DEF Accept, CallState
    <3> QED
      BY <3>1
  <2>2. CASE AcceptDone(a)
    <3> DEFINE s == [call[a] EXCEPT !.done = ctx, !.at = "next"]
    <3>1. call' = [call EXCEPT ![a] = s] /\ s \in CallState
      BY <1>2, <2>2 DEF AcceptDone, CallState
    <3> QED
      BY <3>1
  <2>3. CASE AcceptNext(a)
    <3> DEFINE s == [call[a] EXCEPT !.ch = connCh, !.at = "select"]
    <3>1. call' = [call EXCEPT ![a] = s] /\ s \in CallState
      BY <1>2, <2>3 DEF AcceptNext, CallState
    <3> QED
      BY <3>1
  <2>4. CASE AcceptClosed(a) \/ AcceptNothing(a) \/ AcceptConn(a)
    <3>1. PICK what \in {"closed", "nothing", "conn"} : AcceptReturns(a, what)
      BY <2>4 DEF AcceptClosed, AcceptNothing, AcceptConn
    <3> DEFINE s == [at |-> "idle", done |-> 0, ch |-> 0, got |-> what]
    <3>2. call' = [call EXCEPT ![a] = s] /\ s \in CallState
      BY <1>2, <3>1 DEF AcceptReturns, CallState
    <3> QED
      BY <3>2
  <2> QED
    BY <2>1, <2>2, <2>3, <2>4 DEF CallActs, AcceptStep
<1>4. call' \in [Acceptors -> CallState] /\ \A b \in Acceptors : b # a => call'[b] = call[b]
  BY <1>3 DEF TypeOK
<1>5. CASE AcceptConn(a)
  <2>1. PICK n \in Listening : loop[n].at = "send" /\ loop' = [loop EXCEPT ![n].at = "check", ![n].ch = 0]
    BY <1>5 DEF AcceptConn
  <2> DEFINE s == [loop[n] EXCEPT !.at = "check", !.ch = 0]
  <2>2. loop' = [loop EXCEPT ![n] = s] /\ loop[n] \in LoopState /\ \A k \in Listening : k \in Ref
    BY <2>1, NumbersAreTyped DEF TypeOK
  <2>3. s \in LoopState /\ s.at = "check" /\ s.ctx = loop[n].ctx
    BY <2>1, <2>2 DEF LoopState
  <2>4. /\ loop' \in [Listening -> LoopState]
        /\ loop'[n] = s
        /\ \A m \in Listening : m # n => loop'[m] = loop[m]
    BY <2>2, <2>3 DEF TypeOK
  <2> QED
    BY <1>1, <1>4, <2>1, <2>3, <2>4
<1>6. CASE loop' = loop
  BY <1>1, <1>4, <1>6 DEF TypeOK
<1> QED
  BY <1>5, <1>6 DEF CallActs, AcceptStep, Accept, AcceptDone, AcceptNext, AcceptClosed, AcceptNothing

\* Where a call goes and what it has loaded then.
LEMMA CallPlaces ==
  ASSUME TypeOK, NEW a \in Acceptors, CallActs(a)
  PROVE  /\ call'[a].at = "ctx" => call[a].at = "idle" /\ listener # 0
         /\ call'[a].at = "next" /\ call'[a].done # 0 => call[a].at = "ctx"
         /\ call'[a].at = "select" =>
              /\ call[a].at = "next"
              /\ call'[a].ch = connCh /\ call'[a].done = call[a].done
         /\ call'[a].at \in {"next", "select"} /\ call[a].at # "idle" => call'[a].got = call[a].got
         /\ call'[a].at # "idle" /\ call[a].at = "idle" => call'[a].got = "none"
<1>1. DOMAIN call = Acceptors /\ call[a] \in CallState
  BY DEF TypeOK
<1>2. CASE Accept(a)
  BY <1>1, <1>2 DEF Accept
<1>3. CASE AcceptDone(a)
  <2> DEFINE s == [call[a] EXCEPT !.done = ctx, !.at = "next"]
  <2>1. call'[a] = s /\ call[a].at = "ctx"
    BY <1>1, <1>3 DEF AcceptDone
  <2>2. s.at = "next" /\ s.got = call[a].got
    BY <1>1 DEF CallState
  <2> QED
    BY <2>1, <2>2
<1>4. CASE AcceptNext(a)
  <2> DEFINE s == [call[a] EXCEPT !.ch = connCh, !.at = "select"]
  <2>1. call'[a] = s /\ call[a].at = "next"
    BY <1>1, <1>4 DEF AcceptNext
  <2>2. s.at = "select" /\ s.got = call[a].got /\ s.ch = connCh /\ s.done = call[a].done
    BY <1>1 DEF CallState
  <2> QED
    BY <2>1, <2>2
<1>5. CASE AcceptClosed(a) \/ AcceptNothing(a) \/ AcceptConn(a)
  <2>1. call'[a].at = "idle"
    BY <1>1, <1>5 DEF AcceptClosed, AcceptNothing, AcceptConn, AcceptReturns
  <2> QED
    BY <2>1
<1> QED
  BY <1>2, <1>3, <1>4, <1>5 DEF CallActs, AcceptStep

\* An operator has gone from one place to another.
Moves(o, from, to) ==
  /\ operator' \in [Operators -> OperatorState]
  /\ operator[o].at = from
  /\ operator'[o].at = to /\ operator'[o].n = operator[o].n
  /\ \A p \in Operators : p # o => operator'[p] = operator[p]

LEMMA StepMoves ==
  ASSUME TypeOK, NEW o \in Operators
  PROVE  /\ ListenChannel(o) => Moves(o, "channel", "open")
         /\ ListenFails(o) => Moves(o, "open", "idle")
         /\ ListenOpens(o) => Moves(o, "open", "store")
         /\ ListenStores(o) => Moves(o, "store", "watch")
         /\ StartWatcher(o) => Moves(o, "watch", "serve")
         /\ StartLoop(o) => Moves(o, "serve", "idle")
         /\ CloseListener(o) /\ listener = 0 => UNCHANGED <<operator, listenerMu, open>>
         /\ CloseListener(o) /\ listener # 0 => Moves(o, "idle", "cancel") /\ listenerMu' = o
         /\ CloseContext(o) => Moves(o, "cancel", "forget")
         /\ CloseForgets(o) => Moves(o, "forget", "idle")
<1>1. ListenChannel(o) => Moves(o, "channel", "open")
  BY GotoFacts DEF ListenChannel, Moves, At
<1>2. ListenFails(o) => Moves(o, "open", "idle")
  BY GotoFacts DEF ListenFails, Moves, At
<1>3. ListenOpens(o) => Moves(o, "open", "store")
  BY GotoFacts DEF ListenOpens, Moves, At
<1>9. ListenStores(o) => Moves(o, "store", "watch")
  BY GotoFacts DEF ListenStores, Moves, At
<1>4. StartWatcher(o) => Moves(o, "watch", "serve")
  BY GotoFacts DEF StartWatcher, Moves, At
<1>5. StartLoop(o) => Moves(o, "serve", "idle")
  BY GotoFacts DEF StartLoop, Moves, At
<1>6. /\ CloseListener(o) /\ listener = 0 => UNCHANGED <<operator, listenerMu, open>>
      /\ CloseListener(o) /\ listener # 0 => Moves(o, "idle", "cancel") /\ listenerMu' = o
  BY GotoFacts DEF CloseListener, Moves, At
<1>7. CloseContext(o) => Moves(o, "cancel", "forget")
  BY GotoFacts DEF CloseContext, Moves, At
<1>8. CloseForgets(o) => Moves(o, "forget", "idle")
  BY GotoFacts DEF CloseForgets, Moves, At
<1> QED
  BY <1>1, <1>2, <1>3, <1>4, <1>5, <1>6, <1>7, <1>8, <1>9

\* What an operator does, and the steps that leave the operators where they are.
OperatorActs(o) == Listen(o) \/ CloseListener(o) \/ OperatorStep(o)
OtherActs ==
  \/ \E n \in Listening : handleClose(n) \/ LoopActs(n) \/ ParentCancels(n)
  \/ \E a \in Acceptors : CallActs(a)
  \/ UNCHANGED vars

LEMMA StepsAreThese ==
  [Next]_vars => (\E o \in Operators : OperatorActs(o)) \/ OtherActs
BY DEF Next, OperatorActs, OtherActs, LoopActs, CallActs

LEMMA OthersLeave ==
  OtherActs => UNCHANGED <<listener, ctx, connCh, listenerMu, listens, open, operator>>
<1>1. ASSUME NEW n \in Listening, handleClose(n) \/ LoopActs(n) \/ ParentCancels(n)
      PROVE  UNCHANGED <<listener, ctx, connCh, listenerMu, listens, open, operator>>
  BY <1>1 DEF LoopActs, LoopStep, LoopCheck, LoopLoad, LoopEnds, LoopConnects, LoopPanics,
      LoopAccepts, LoopFails, LoopUnchanged, handleClose, WatcherWakes, WatcherCloses,
      ParentCancels, fields, lives, goroutines
<1>2. ASSUME NEW a \in Acceptors, CallActs(a)
      PROVE  UNCHANGED <<listener, ctx, connCh, listenerMu, listens, open, operator>>
  BY <1>2 DEF CallActs, AcceptStep, Accept, AcceptDone, AcceptNext, AcceptClosed, AcceptNothing,
              AcceptConn, AcceptReturns, CallUnchanged, fields, lives
<1>3. UNCHANGED vars => UNCHANGED <<listener, ctx, connCh, listenerMu, listens, open, operator>>
  BY DEF vars, fields, lives, goroutines
<1> QED
  BY <1>1, <1>2, <1>3 DEF OtherActs

LEMMA StartedFacts ==
  ASSUME TypeOK, StartingInv, NEW o \in Operators, operator[o].at \in Starting
  PROVE  /\ operator[o].n \in 1..listens /\ operator[o].n \in Listening
         /\ listens \in 1..listens /\ operator[o].n # 0
<1>1. operator[o].n \in 1..listens
  BY DEF StartingInv
<1>2. listens \in Nat /\ listens <= MaxListens
      /\ \A k : k \in Listening <=> k \in Nat /\ 1 <= k /\ k <= MaxListens
  BY NumbersAreTyped
<1> QED
  BY <1>1, <1>2, ServerAssumption

-----------------------------------------------------------------------------
(* listenerMu and the fields.                                              *)

LEMMA MuKeeps == TypeOK /\ MuInv /\ [Next]_vars => MuInv'
<1> SUFFICES ASSUME TypeOK, MuInv, [Next]_vars PROVE MuInv'
  OBVIOUS
<1>0. \A o \in Operators : o # Nobody
  BY ServerAssumption
<1>1. ASSUME NEW o \in Operators, OperatorActs(o) PROVE MuInv'
  <2>1. CASE Listen(o)
    BY <1>0, <2>1, ListenFacts DEF MuInv, InMu, Listen
  <2>2. CASE CloseListener(o)
    <3>1. CASE listener = 0
      BY <2>2, <3>1, StepMoves DEF MuInv
    <3>2. CASE listener # 0
      <4>1. Moves(o, "idle", "cancel") /\ listenerMu' = o /\ listenerMu = Nobody
        BY <2>2, <3>2, StepMoves DEF CloseListener
      <4> QED
        BY <1>0, <4>1 DEF MuInv, InMu, Moves
    <3> QED
      BY <3>1, <3>2
  <2>3. CASE ListenChannel(o)
    BY <1>0, <2>3, StepMoves DEF MuInv, InMu, ListenChannel, Moves
  <2>4. CASE ListenFails(o)
    BY <1>0, <2>4, StepMoves DEF MuInv, InMu, ListenFails, Moves
  <2>5. CASE ListenOpens(o)
    BY <1>0, <2>5, StepMoves DEF MuInv, InMu, ListenOpens, Moves, fields
  <2>10. CASE ListenStores(o)
    BY <1>0, <2>10, StepMoves DEF MuInv, InMu, ListenStores, Moves
  <2>6. CASE StartWatcher(o)
    BY <1>0, <2>6, StepMoves DEF MuInv, InMu, StartWatcher, Moves
  <2>7. CASE StartLoop(o)
    BY <1>0, <2>7, StepMoves DEF MuInv, InMu, StartLoop, Moves
  <2>8. CASE CloseContext(o)
    BY <1>0, <2>8, StepMoves DEF MuInv, InMu, CloseContext, Moves
  <2>9. CASE CloseForgets(o)
    BY <1>0, <2>9, StepMoves DEF MuInv, InMu, CloseForgets, Moves
  <2> QED
    BY <1>1, <2>1, <2>2, <2>3, <2>4, <2>5, <2>6, <2>7, <2>8, <2>9, <2>10
    DEF OperatorActs, OperatorStep
<1>2. OtherActs => MuInv'
  BY OthersLeave DEF MuInv
<1> QED
  BY <1>1, <1>2, StepsAreThese

LEMMA FieldsKeep == TypeOK /\ MuInv /\ FieldsInv /\ [Next]_vars => FieldsInv'
<1> SUFFICES ASSUME TypeOK, MuInv, FieldsInv, [Next]_vars PROVE FieldsInv'
  OBVIOUS
<1> USE DEF FieldsInv, ListeningIsWhole, At
<1>0. /\ 0 \notin Listening /\ open \subseteq Listening
      /\ \A o \in Operators : o # Nobody
      /\ \A o, p \in Operators : operator[o].at \in InMu /\ operator[p].at \in InMu => p = o
      /\ listenerMu = Nobody => \A o \in Operators : operator[o].at \notin InMu
  <2>1. 0 \notin Listening
    BY NumbersAreTyped
  <2>2. open \subseteq Listening
    BY DEF TypeOK
  <2> QED
    BY <2>1, <2>2, ServerAssumption DEF MuInv
<1>1. ASSUME NEW o \in Operators, OperatorActs(o) PROVE FieldsInv'
  <2>1. CASE Listen(o)
    BY <1>0, <2>1, ListenFacts DEF InMu, Listen
  <2>2. CASE CloseListener(o)
    <3>1. CASE listener = 0
      <4>1. UNCHANGED <<listener, ctx, connCh, listenerMu, open, operator>>
        BY <2>2, <3>1 DEF CloseListener, fields
      <4> QED
        BY <4>1 DEF InMu
    <3>2. CASE listener # 0
      <4>1. /\ operator'[o].at = "cancel"
            /\ \A p \in Operators : p # o => operator'[p] = operator[p]
            /\ UNCHANGED <<listener, ctx, connCh>>
            /\ listenerMu = Nobody
            /\ open' = open \ {listener}
        BY <2>2, <3>2, StepMoves DEF CloseListener, Moves, fields
      <4>2. \A p \in Operators : operator[p].at \notin InMu
        BY <1>0, <4>1
      <4> QED
        BY <3>2, <4>1, <4>2 DEF InMu
    <3> QED
      BY <3>1, <3>2
  <2>3. CASE ListenChannel(o)
    BY <1>0, <2>3, StepMoves DEF InMu, ListenChannel, Moves, lives
  <2>4. CASE ListenFails(o)
    BY <1>0, <2>4, StepMoves DEF InMu, ListenFails, Moves, fields, lives
  <2>5. CASE ListenOpens(o)
    <3>1. /\ operator[o].at = "open" /\ operator'[o].at = "store" /\ operator'[o].n = operator[o].n
          /\ \A p \in Operators : p # o => operator'[p] = operator[p]
          /\ UNCHANGED <<listener, ctx, connCh, listenerMu>>
          /\ open' = open \cup {operator[o].n}
      BY <2>5, StepMoves DEF ListenOpens, Moves, fields
    <3>2. /\ listener = 0 /\ ctx = operator[o].n /\ connCh = operator[o].n /\ listenerMu = o
          /\ \A p \in Operators : p # o => operator[p].at \notin InMu
      BY <1>0, <3>1 DEF InMu, MuInv
    <3>3. open = {}
      BY <1>0, <3>1, <3>2
    <3> QED
      BY <3>1, <3>2, <3>3 DEF InMu
  <2>10. CASE ListenStores(o)
    BY <1>0, <2>10, StepMoves DEF InMu, ListenStores, Moves, lives
  <2>6. CASE StartWatcher(o)
    <3>1. /\ UNCHANGED <<listener, ctx, connCh, listenerMu, open>>
          /\ \A p \in Operators : \A place \in InMu :
               operator'[p].at = place <=> operator[p].at = place
          /\ \A p \in Operators : operator[p].at \in InMu => operator'[p] = operator[p]
      BY <2>6, StepMoves DEF InMu, StartWatcher, Moves, fields, lives
    <3> QED
      BY <3>1 DEF InMu
  <2>7. CASE StartLoop(o)
    <3>1. /\ UNCHANGED <<listener, ctx, connCh, listenerMu, open>>
          /\ \A p \in Operators : \A place \in InMu :
               operator'[p].at = place <=> operator[p].at = place
          /\ \A p \in Operators : operator[p].at \in InMu => operator'[p] = operator[p]
      BY <2>7, StepMoves DEF InMu, StartLoop, Moves, fields, lives
    <3> QED
      BY <3>1 DEF InMu
  <2>8. CASE CloseContext(o)
    BY <1>0, <2>8, StepMoves DEF InMu, CloseContext, Moves, fields
  <2>9. CASE CloseForgets(o)
    BY <1>0, <2>9, StepMoves DEF InMu, CloseForgets, Moves, lives
  <2> QED
    BY <1>1, <2>1, <2>2, <2>3, <2>4, <2>5, <2>6, <2>7, <2>8, <2>9, <2>10
    DEF OperatorActs, OperatorStep
<1>2. OtherActs => FieldsInv'
  BY OthersLeave
<1> QED
  BY <1>1, <1>2, StepsAreThese

-----------------------------------------------------------------------------
(* The listenings.                                                         *)

LEMMA NumbersKeep == TypeOK /\ StartingInv /\ NumbersInv /\ [Next]_vars => NumbersInv'
<1> SUFFICES ASSUME TypeOK, StartingInv, NumbersInv, [Next]_vars PROVE NumbersInv'
  OBVIOUS
<1>0. listens \in Nat /\ connCh \in Nat
  BY NumbersAreTyped
<1>1. ASSUME NEW o \in Operators, OperatorActs(o) PROVE NumbersInv'
  <2>1. CASE Listen(o)
    BY <1>0, <2>1 DEF NumbersInv, Listen
  <2>2. CASE ListenChannel(o)
    <3>1. operator[o].n \in 1..listens
      BY <2>2, StartedFacts DEF ListenChannel, At, Starting
    <3> QED
      BY <1>0, <2>2, <3>1 DEF NumbersInv, ListenChannel, lives
  <2>3. CASE ~ (Listen(o) \/ ListenChannel(o))
    <3>1. UNCHANGED <<ctx, listens, connCh>>
      BY <1>1, <2>3 DEF OperatorActs, OperatorStep, CloseListener, ListenFails, ListenOpens,
          ListenStores, StartWatcher, StartLoop, CloseContext, CloseForgets, fields, lives
    <3> QED
      BY <3>1 DEF NumbersInv
  <2> QED
    BY <2>1, <2>2, <2>3
<1>2. OtherActs => NumbersInv'
  BY OthersLeave DEF NumbersInv
<1> QED
  BY <1>1, <1>2, StepsAreThese

LEMMA MadeKeeps ==
  TypeOK /\ FieldsInv /\ StartingInv /\ GivenInv /\ MadeInv /\ [Next]_vars => MadeInv'
<1> SUFFICES ASSUME TypeOK, FieldsInv, StartingInv, GivenInv, MadeInv, [Next]_vars
             PROVE  MadeInv'
  OBVIOUS
<1>1. ASSUME NEW o \in Operators, OperatorActs(o) PROVE MadeInv'
  <2>1. CASE ListenChannel(o)
    BY <2>1, StartedFacts DEF MadeInv, ListenChannel, At, Starting
  <2>2. CASE Listen(o)
    BY <2>2, ListenFacts DEF MadeInv, ChannelNeeded, Listen
  <2>3. CASE CloseListener(o)
    BY <2>3, StepMoves DEF MadeInv, ChannelNeeded, CloseListener, Moves, fields
  <2>4. CASE ListenFails(o)
    BY <2>4, StepMoves DEF MadeInv, ChannelNeeded, ListenFails, Moves, fields
  <2>5. CASE ListenOpens(o)
    BY <2>5, StepMoves DEF MadeInv, ChannelNeeded, ListenOpens, Moves, fields
  <2>10. CASE ListenStores(o)
    BY <2>10, StepMoves DEF MadeInv, ChannelNeeded, ListenStores, Moves, lives
  <2>6. CASE StartWatcher(o)
    <3>1. ChannelNeeded
      BY <2>6 DEF ChannelNeeded, StartWatcher, At
    <3> QED
      BY <2>6, <3>1 DEF MadeInv, StartWatcher, fields
  <2>7. CASE StartLoop(o)
    <3>1. ChannelNeeded
      BY <2>7 DEF ChannelNeeded, StartLoop, At
    <3> QED
      BY <2>7, <3>1 DEF MadeInv, StartLoop, fields
  <2>8. CASE CloseContext(o)
    BY <2>8, StepMoves DEF MadeInv, ChannelNeeded, CloseContext, Moves, fields
  <2>9. CASE CloseForgets(o)
    BY <2>9, StepMoves DEF MadeInv, ChannelNeeded, CloseForgets, Moves
  <2> QED
    BY <1>1, <2>1, <2>2, <2>3, <2>4, <2>5, <2>6, <2>7, <2>8, <2>9, <2>10
    DEF OperatorActs, OperatorStep
<1>2. ASSUME NEW n \in Listening, handleClose(n) \/ LoopActs(n) PROVE MadeInv'
  <2>1. ChannelNeeded
    BY <1>2 DEF ChannelNeeded, handleClose, WatcherWakes, WatcherCloses, LoopActs, LoopStep,
        LoopCheck, LoopLoad, LoopEnds, LoopConnects, LoopPanics, LoopAccepts, LoopFails
  <2>2. connCh' = connCh
    BY <1>2, OthersLeave DEF OtherActs
  <2> QED
    BY <2>1, <2>2 DEF MadeInv
<1>3. ASSUME NEW n \in Listening, ParentCancels(n) PROVE MadeInv'
  BY <1>3 DEF MadeInv, ChannelNeeded, ParentCancels, fields, goroutines
<1>4. ASSUME NEW a \in Acceptors, CallActs(a) PROVE MadeInv'
  <2>1. /\ UNCHANGED <<connCh, operator, watcher>>
        /\ \A n \in Listening : loop'[n].at = "off" <=> loop[n].at = "off"
        /\ \A b \in Acceptors : b # a => call'[b] = call[b]
    BY <1>4, CallFacts DEF CallUnchanged, fields
  <2>2. call'[a].at = "ctx" => connCh # 0
    <3>1. call'[a].at = "ctx" => listener # 0
      BY <1>4, CallPlaces
    <3> QED
      BY <3>1 DEF FieldsInv, ListeningIsWhole
  <2>3. call'[a].at = "next" /\ call'[a].done # 0 => connCh # 0
    <3>1. call'[a].at = "next" /\ call'[a].done # 0 => call[a].at = "ctx"
      BY <1>4, CallPlaces
    <3> QED
      BY <3>1 DEF MadeInv, ChannelNeeded
  <2> QED
    BY <2>1, <2>2, <2>3 DEF MadeInv, ChannelNeeded
<1>5. UNCHANGED vars => MadeInv'
  BY DEF MadeInv, ChannelNeeded, vars, fields, goroutines
<1> QED
  BY <1>1, <1>2, <1>3, <1>4, <1>5, StepsAreThese DEF OtherActs

\* Nobody else is to start the listening that an operator starts, and what it is to
\* start is off until then.
LEMMA StartingKeeps ==
  TypeOK /\ MadeInv /\ GivenInv /\ StartingInv /\ [Next]_vars => StartingInv'
<1> SUFFICES ASSUME TypeOK, MadeInv, GivenInv, StartingInv, [Next]_vars PROVE StartingInv'
  OBVIOUS
<1>0. listens \in Nat
  BY NumbersAreTyped
<1>a. \A o \in Operators : operator[o].at \in Starting => operator[o].n \in Listening
  BY StartedFacts
<1>1. ASSUME NEW o \in Operators, OperatorActs(o) PROVE StartingInv'
  <2>1. CASE Listen(o)
    <3>1. UNCHANGED <<watcher, loop>> /\ listens' = listens + 1 /\ listens' \in Listening
      BY <2>1, ListenFacts DEF Listen
    <3>2. watcher[listens'].at = "off" /\ loop[listens'].at = "off"
      BY <1>0, <3>1 DEF GivenInv
    <3> QED
      BY <1>0, <2>1, <3>1, <3>2, ListenFacts DEF StartingInv
  <2>2. CASE ListenChannel(o)
    BY <2>2, StepMoves DEF StartingInv, Starting, Moves, ListenChannel, lives
  <2>3. CASE CloseListener(o)
    <3>1. UNCHANGED <<listens, watcher, loop>>
      BY <2>3 DEF CloseListener
    <3> QED
      BY <2>3, <3>1, StepMoves DEF StartingInv, Starting, Moves
  <2>4. CASE ListenFails(o)
    BY <2>4, StepMoves DEF StartingInv, Starting, Moves, ListenFails, lives
  <2>5. CASE ListenOpens(o)
    BY <2>5, StepMoves DEF StartingInv, Starting, Moves, ListenOpens
  <2>10. CASE ListenStores(o)
    BY <2>10, StepMoves DEF StartingInv, Starting, Moves, ListenStores, lives
  <2>6. CASE StartWatcher(o)
    <3>1. /\ Moves(o, "watch", "serve")
          /\ UNCHANGED <<listens, loop>>
      BY <2>6, StepMoves DEF StartWatcher, lives
    <3>2. operator[o].at \in Starting
      BY <3>1 DEF Moves, Starting
    <3>3. \A m \in Listening : m # operator[o].n => watcher'[m] = watcher[m]
      BY <1>a, <2>6, <3>2, StartWatcherFacts
    <3> QED
      BY <1>a, <3>1, <3>2, <3>3 DEF StartingInv, Starting, Moves
  <2>7. CASE StartLoop(o)
    <3>1. /\ Moves(o, "serve", "idle")
          /\ UNCHANGED <<listens, watcher>>
      BY <2>7, StepMoves DEF StartLoop, lives
    <3>2. operator[o].at \in Starting
      BY <3>1 DEF Moves, Starting
    <3>3. \A m \in Listening : m # operator[o].n => loop'[m] = loop[m]
      BY <1>a, <2>7, <3>2, StartLoopFacts DEF StartingInv
    <3> QED
      BY <1>a, <3>1, <3>2, <3>3 DEF StartingInv, Starting, Moves
  <2>8. CASE CloseContext(o)
    BY <2>8, StepMoves DEF StartingInv, Starting, Moves, CloseContext
  <2>9. CASE CloseForgets(o)
    BY <2>9, StepMoves DEF StartingInv, Starting, Moves, CloseForgets, lives
  <2> QED
    BY <1>1, <2>1, <2>2, <2>3, <2>4, <2>5, <2>6, <2>7, <2>8, <2>9, <2>10
    DEF OperatorActs, OperatorStep
<1>2. ASSUME NEW n \in Listening, handleClose(n) PROVE StartingInv'
  <2>1. UNCHANGED <<operator, listens, loop>> /\ watcher[n].at # "off"
    BY <1>2 DEF handleClose, WatcherWakes, WatcherCloses, lives
  <2> QED
    BY <1>2, <1>a, <2>1, handleCloseFacts DEF StartingInv
<1>3. ASSUME NEW n \in Listening, LoopActs(n) PROVE StartingInv'
  <2>1. /\ UNCHANGED <<operator, listens, watcher>>
        /\ loop[n].at # "off" /\ loop[n].ctx # 0
    BY <1>3 DEF GivenInv, LoopActs, LoopStep, LoopCheck, LoopLoad, LoopEnds, LoopConnects, LoopPanics,
                LoopAccepts, LoopFails, LoopUnchanged, lives
  <2>2. \A m \in Listening : m # n => loop'[m] = loop[m]
    BY <1>3 DEF LoopActs, LoopStep, LoopCheck, LoopLoad, LoopEnds, LoopConnects, LoopPanics,
                LoopAccepts, LoopFails, TypeOK
  <2> QED
    BY <1>a, <2>1, <2>2 DEF StartingInv
<1>4. ASSUME NEW n \in Listening, ParentCancels(n) PROVE StartingInv'
  BY <1>4 DEF StartingInv, ParentCancels, goroutines
<1>5. ASSUME NEW a \in Acceptors, CallActs(a) PROVE StartingInv'
  BY <1>5, <1>a, CallFacts DEF StartingInv, CallUnchanged, lives
<1>6. UNCHANGED vars => StartingInv'
  BY DEF StartingInv, vars, lives, goroutines
<1> QED
  BY <1>1, <1>2, <1>3, <1>4, <1>5, <1>6, StepsAreThese DEF OtherActs

\* A watcher or a loop that runs was given a context.
LEMMA GivenKeeps ==
  TypeOK /\ NumbersInv /\ MadeInv /\ StartingInv /\ GivenInv /\ [Next]_vars => GivenInv'
<1> SUFFICES ASSUME TypeOK, NumbersInv, MadeInv, StartingInv, GivenInv, [Next]_vars PROVE GivenInv'
  OBVIOUS
<1>0. listens \in Nat /\ \A n \in Listening : n \in Nat
  BY NumbersAreTyped
<1>1. ASSUME NEW o \in Operators, OperatorActs(o) PROVE GivenInv'
  <2>1. CASE Listen(o)
    <3>1. UNCHANGED <<watcher, loop>> /\ listens' = listens + 1
      BY <2>1 DEF Listen
    <3> QED
      BY <1>0, <3>1 DEF GivenInv
  <2>2. CASE StartWatcher(o)
    <3>1. operator[o].at \in Starting /\ UNCHANGED <<loop, listens>>
      BY <2>2 DEF StartWatcher, At, Starting, lives
    <3>2. /\ operator[o].n \in 1..listens /\ operator[o].n \in Listening
          /\ ctx \in 1..listens
      BY <3>1, StartedFacts DEF NumbersInv
    <3> QED
      BY <1>0, <2>2, <3>1, <3>2, StartWatcherFacts DEF GivenInv
  <2>3. CASE StartLoop(o)
    <3>1. operator[o].at \in Starting /\ UNCHANGED <<watcher, listens>>
      BY <2>3 DEF StartLoop, At, Starting, lives
    <3>2. /\ operator[o].n \in 1..listens /\ operator[o].n \in Listening
          /\ ctx \in 1..listens /\ loop[operator[o].n].at = "off"
      BY <3>1, StartedFacts DEF NumbersInv, StartingInv
    <3> QED
      BY <1>0, <2>3, <3>1, <3>2, StartLoopFacts DEF GivenInv
  <2>4. CASE ~ (Listen(o) \/ StartWatcher(o) \/ StartLoop(o))
    <3>1. UNCHANGED <<watcher, loop, listens>>
      BY <1>1, <2>4 DEF OperatorActs, OperatorStep, CloseListener, ListenChannel, ListenFails,
          ListenOpens, ListenStores, CloseContext, CloseForgets, lives
    <3> QED
      BY <3>1 DEF GivenInv
  <2> QED
    BY <2>1, <2>2, <2>3, <2>4
<1>2. ASSUME NEW n \in Listening, handleClose(n) PROVE GivenInv'
  <2>1. UNCHANGED <<listens, loop>> /\ watcher[n].at # "off"
    BY <1>2 DEF handleClose, WatcherWakes, WatcherCloses, lives
  <2> QED
    BY <1>2, <2>1, handleCloseFacts DEF GivenInv
<1>3. ASSUME NEW n \in Listening, LoopActs(n) PROVE GivenInv'
  <2>1. loop[n].at # "off"
    BY <1>3 DEF LoopActs, LoopStep, LoopCheck, LoopLoad, LoopEnds, LoopConnects, LoopPanics,
                LoopAccepts, LoopFails
  <2>2. loop[n].ctx # 0 /\ connCh # 0
    BY <2>1 DEF GivenInv, MadeInv, ChannelNeeded
  <2> QED
    BY <1>3, <2>1, <2>2, LoopFacts DEF GivenInv, LoopUnchanged, lives
<1>4. ASSUME NEW n \in Listening, ParentCancels(n) PROVE GivenInv'
  BY <1>4 DEF GivenInv, ParentCancels, goroutines
<1>5. ASSUME NEW a \in Acceptors, CallActs(a) PROVE GivenInv'
  BY <1>5, CallFacts DEF GivenInv, CallUnchanged, lives
<1>6. UNCHANGED vars => GivenInv'
  BY DEF GivenInv, vars, lives, goroutines
<1> QED
  BY <1>1, <1>2, <1>3, <1>4, <1>5, <1>6, StepsAreThese DEF OtherActs

-----------------------------------------------------------------------------
(* The ends of the listenings and the closed channels.                     *)

\* Contexts stay cancelled.
LEMMA CancelledStays == [Next]_vars => cancelled \subseteq cancelled'
<1> SUFFICES ASSUME [Next]_vars PROVE cancelled \subseteq cancelled'
  OBVIOUS
<1>1. ASSUME NEW o \in Operators, OperatorActs(o) PROVE cancelled \subseteq cancelled'
  BY <1>1 DEF OperatorActs, OperatorStep, Listen, CloseListener, ListenChannel, ListenFails,
              ListenOpens, ListenStores, StartWatcher, StartLoop, CloseContext, CloseForgets, lives
<1>2. ASSUME NEW n \in Listening, handleClose(n) \/ LoopActs(n) \/ ParentCancels(n)
      PROVE  cancelled \subseteq cancelled'
  BY <1>2 DEF handleClose, WatcherWakes, WatcherCloses, ParentCancels, LoopActs, LoopStep,
      LoopCheck, LoopLoad, LoopEnds, LoopConnects, LoopPanics, LoopAccepts, LoopFails,
      LoopUnchanged, lives
<1>3. ASSUME NEW a \in Acceptors, CallActs(a) PROVE cancelled \subseteq cancelled'
  BY <1>3 DEF CallActs, AcceptStep, Accept, AcceptDone, AcceptNext, AcceptClosed, AcceptNothing,
              AcceptConn, AcceptReturns, CallUnchanged, lives
<1>4. UNCHANGED vars => cancelled \subseteq cancelled'
  BY DEF vars, lives
<1> QED
  BY <1>1, <1>2, <1>3, <1>4, StepsAreThese DEF OtherActs

\* Only StartWatcher and handleClose change a watcher.
LEMMA WatchersStay ==
  [Next]_vars =>
    \/ \E o \in Operators : StartWatcher(o)
    \/ \E n \in Listening : handleClose(n)
    \/ UNCHANGED <<watcher, chClosed>> /\ (panicked' = "close of closed channel" => panicked = panicked')
<1> SUFFICES ASSUME [Next]_vars,
                    ~ \E o \in Operators : StartWatcher(o),
                    ~ \E n \in Listening : handleClose(n)
             PROVE  /\ UNCHANGED <<watcher, chClosed>>
                    /\ panicked' = "close of closed channel" => panicked = panicked'
  OBVIOUS
<1> DEFINE Stay == /\ UNCHANGED <<watcher, chClosed>>
                   /\ panicked' = "close of closed channel" => panicked = panicked'
<1>1. ASSUME NEW o \in Operators, OperatorActs(o) PROVE Stay
  BY <1>1 DEF OperatorActs, OperatorStep, Listen, CloseListener, ListenChannel, ListenFails,
              ListenOpens, ListenStores, StartLoop, CloseContext, CloseForgets
<1>2. ASSUME NEW n \in Listening, LoopActs(n) \/ ParentCancels(n) PROVE Stay
  BY <1>2 DEF ParentCancels, goroutines, LoopActs, LoopStep, LoopCheck, LoopLoad, LoopEnds,
      LoopConnects, LoopPanics, LoopAccepts, LoopFails, LoopUnchanged
<1>3. ASSUME NEW a \in Acceptors, CallActs(a) PROVE Stay
  BY <1>3 DEF CallActs, AcceptStep, Accept, AcceptDone, AcceptNext, AcceptClosed, AcceptNothing,
              AcceptConn, AcceptReturns, CallUnchanged
<1>4. UNCHANGED vars => Stay
  BY DEF vars, goroutines
<1> QED
  BY <1>1, <1>2, <1>3, <1>4, StepsAreThese DEF OtherActs

\* The operator that starts a watcher: which one, and that it was off.
LEMMA WatcherStarts ==
  ASSUME TypeOK, StartingInv, NEW o \in Operators, StartWatcher(o)
  PROVE  /\ operator[o].at = "watch" /\ operator[o].n \in Listening
         /\ watcher[operator[o].n].at = "off"
         /\ watcher'[operator[o].n].at = "wait" /\ watcher'[operator[o].n].ctx = ctx
         /\ \A m \in Listening : m # operator[o].n => watcher'[m] = watcher[m]
         /\ UNCHANGED <<listener, connCh, cancelled, chClosed, panicked>>
<1>1. operator[o].at = "watch" /\ operator[o].at \in Starting
  BY DEF StartWatcher, At, Starting
<1>2. operator[o].n \in Listening
  BY <1>1, StartedFacts
<1>3. UNCHANGED <<listener, connCh, cancelled, chClosed, panicked>>
  BY DEF StartWatcher, fields, lives
<1> QED
  BY <1>1, <1>2, <1>3, StartWatcherFacts DEF StartingInv

LEMMA EndedKeeps ==
  TypeOK /\ MuInv /\ FieldsInv /\ MadeInv /\ StartingInv /\ EndedInv /\ [Next]_vars => EndedInv'
<1> SUFFICES ASSUME TypeOK, MuInv, FieldsInv, MadeInv, StartingInv, EndedInv, [Next]_vars
             PROVE  EndedInv'
  OBVIOUS
<1>0. cancelled \subseteq cancelled'
  BY CancelledStays
<1>a. \A o \in Operators : operator[o].at \in Starting => operator[o].n \in Listening /\ operator[o].n # 0
  BY StartedFacts
<1>b. \A o, p \in Operators : operator[o].at \in InMu /\ operator[p].at \in InMu => p = o
  BY DEF MuInv
<1>c. listener # 0 => ctx = listener
  BY DEF FieldsInv, ListeningIsWhole
<1> DEFINE OperatorsEnded ==
      \A o \in Operators :
        /\ At(o, "forget") => listener \in cancelled
        /\ At(o, "watch") => operator[o].n = listener \/ operator[o].n \in cancelled
<1>1. OperatorsEnded'
  <2>0. OperatorsEnded
    BY DEF EndedInv
  <2>1. ASSUME NEW o \in Operators, OperatorActs(o) PROVE OperatorsEnded'
    <3>1. CASE Listen(o)
      BY <1>0, <1>b, <2>0, <3>1, ListenFacts DEF At, Listen
    <3>2. CASE CloseListener(o)
      BY <1>0, <2>0, <3>2, StepMoves DEF At, CloseListener, Moves, fields
    <3>3. CASE ListenChannel(o)
      BY <1>0, <2>0, <3>3, StepMoves DEF At, ListenChannel, Moves
    <3>4. CASE ListenFails(o)
      BY <1>0, <2>0, <3>4, StepMoves DEF At, ListenFails, Moves, fields
    <3>5. CASE ListenOpens(o)
      BY <1>0, <2>0, <3>5, StepMoves DEF At, ListenOpens, Moves, fields
    <3>6. CASE ListenStores(o)
      <4>1. listener = 0 /\ operator[o].at \in InMu /\ listener' = operator[o].n
        BY <3>6 DEF FieldsInv, ListenStores, At, InMu
      <4>2. ASSUME NEW p \in Operators, p # o, At(p, "watch") PROVE operator[p].n \in cancelled
        BY <1>a, <2>0, <4>1, <4>2 DEF At, Starting
      <4>3. ASSUME NEW p \in Operators, p # o PROVE ~ At(p, "forget")
        BY <1>b, <4>1, <4>3 DEF At, InMu
      <4> QED
        BY <1>0, <3>6, <4>1, <4>2, <4>3, StepMoves DEF At, Moves
    <3>7. CASE StartWatcher(o)
      BY <1>0, <2>0, <3>7, StepMoves DEF At, StartWatcher, Moves, fields
    <3>8. CASE StartLoop(o)
      BY <1>0, <2>0, <3>8, StepMoves DEF At, StartLoop, Moves, fields
    <3>9. CASE CloseContext(o)
      <4>1. listener \in cancelled' /\ UNCHANGED listener
        BY <1>c, <3>9 DEF FieldsInv, CloseContext, fields
      <4> QED
        BY <1>0, <2>0, <3>9, <4>1, StepMoves DEF At, Moves
    <3>10. CASE CloseForgets(o)
      <4>1. listener \in cancelled
        BY <2>0, <3>10 DEF CloseForgets
      <4>2. ASSUME NEW p \in Operators, p # o PROVE ~ At(p, "forget")
        BY <1>b, <3>10, <4>2 DEF CloseForgets, At, InMu
      <4> QED
        BY <1>0, <2>0, <3>10, <4>1, <4>2, StepMoves DEF At, Moves
    <3> QED
      BY <2>1, <3>1, <3>2, <3>3, <3>4, <3>5, <3>6, <3>7, <3>8, <3>9, <3>10
      DEF OperatorActs, OperatorStep
  <2>2. OtherActs => OperatorsEnded'
    BY <1>0, <2>0, OthersLeave DEF At
  <2> QED
    BY <2>1, <2>2, StepsAreThese
<1> DEFINE WatcherEnded(n) ==
      /\ watcher[n].at # "off" => watcher[n].ctx = n \/ n \in cancelled
      /\ watcher[n].at \in {"close", "done"} => n \in cancelled
<1>2. \A n \in Listening : WatcherEnded(n)'
  <2>0. \A n \in Listening : WatcherEnded(n)
    BY DEF EndedInv
  <2>1. ASSUME NEW o \in Operators, StartWatcher(o) PROVE \A n \in Listening : WatcherEnded(n)'
    <3> DEFINE k == operator[o].n
    <3>1. /\ k \in Listening /\ watcher'[k].at = "wait" /\ watcher'[k].ctx = ctx
          /\ \A m \in Listening : m # k => watcher'[m] = watcher[m]
          /\ k = listener \/ k \in cancelled
      BY <2>1, WatcherStarts DEF EndedInv, At
    <3>2. ctx = k \/ k \in cancelled
      BY <1>a, <1>c, <2>1, <3>1, WatcherStarts DEF Starting
    <3> HIDE DEF k
    <3> QED
      BY <1>0, <2>0, <3>1, <3>2
  <2>2. ASSUME NEW n \in Listening, handleClose(n) PROVE \A m \in Listening : WatcherEnded(m)'
    <3>1. watcher[n].at = "wait" => watcher[n].ctx \in cancelled
      BY <2>2 DEF handleClose, WatcherWakes, WatcherCloses
    <3>2. n \in cancelled
      BY <2>0, <2>2, <3>1, handleCloseFacts
    <3> QED
      BY <1>0, <2>0, <2>2, <3>2, handleCloseFacts
  <2>3. ASSUME UNCHANGED watcher PROVE \A n \in Listening : WatcherEnded(n)'
    BY <1>0, <2>0, <2>3
  <2> QED
    BY <2>1, <2>2, <2>3, WatchersStay
<1> QED
  BY <1>1, <1>2 DEF EndedInv

\* The channel in the field is never replaced by an earlier one.
LEMMA ChannelGrows ==
  TypeOK /\ FieldsInv /\ NumbersInv /\ [Next]_vars => connCh \in Nat /\ connCh' \in Nat /\ connCh <= connCh'
<1> SUFFICES ASSUME TypeOK, FieldsInv, NumbersInv, [Next]_vars
             PROVE  connCh \in Nat /\ connCh' \in Nat /\ connCh <= connCh'
  OBVIOUS
<1>0. connCh \in Nat /\ listens \in Nat
  BY NumbersAreTyped
<1>1. ASSUME NEW o \in Operators, ListenChannel(o) PROVE connCh' = listens
  BY <1>1 DEF FieldsInv, NumbersInv, ListenChannel
<1>2. ASSUME NEW o \in Operators, OperatorActs(o), ~ ListenChannel(o) PROVE UNCHANGED connCh
  BY <1>2 DEF OperatorActs, OperatorStep, Listen, CloseListener, ListenFails, ListenOpens,
      ListenStores, StartWatcher, StartLoop, CloseContext, CloseForgets, fields
<1>3. connCh' = connCh \/ connCh' = listens
  BY <1>1, <1>2, StepsAreThese, OthersLeave
<1> QED
  BY <1>0, <1>3 DEF NumbersInv

LEMMA LaterKeeps ==
  /\ TypeOK /\ FieldsInv /\ NumbersInv /\ MadeInv /\ StartingInv /\ LaterInv /\ [Next]_vars
  => LaterInv'
<1> SUFFICES ASSUME TypeOK, FieldsInv, NumbersInv, MadeInv, StartingInv, LaterInv, [Next]_vars
             PROVE  LaterInv'
  OBVIOUS
<1>0. connCh \in Nat /\ connCh' \in Nat /\ connCh <= connCh'
  BY ChannelGrows
<1>a. \A n \in Listening : n \in Nat
  BY NumbersAreTyped
<1> DEFINE Made == {"open", "store", "watch"}
<1>1. \A o \in Operators : operator'[o].at \in Made => operator'[o].n <= connCh'
  <2>1. ASSUME NEW o \in Operators, ListenChannel(o), NEW p \in Operators, operator'[p].at \in Made
        PROVE  operator'[p].n <= connCh'
    <3>1. CASE p = o
      <4>1. operator'[p].n = connCh'
        BY <2>1, <3>1, StepMoves DEF Moves, ListenChannel
      <4> QED
        BY <1>0, <4>1
    <3>2. CASE p # o
      <4>1. operator'[p] = operator[p]
        BY <2>1, <3>2, StepMoves DEF Moves
      <4>2. operator[p].n <= connCh /\ operator[p].n \in Nat
        <5>1. operator[p].at \in Starting
          BY <2>1, <4>1 DEF Starting
        <5> QED
          BY <1>a, <2>1, <4>1, <5>1, StartedFacts DEF LaterInv
      <4> QED
        BY <1>0, <4>1, <4>2
    <3> QED
      BY <3>1, <3>2
  <2>2. ASSUME NEW o \in Operators, OperatorActs(o), ~ ListenChannel(o)
        PROVE  /\ UNCHANGED connCh
               /\ \A p \in Operators : operator'[p].at \in Made =>
                    operator[p].at \in Made /\ operator'[p].n = operator[p].n
    <3>1. UNCHANGED connCh
      BY <2>2 DEF OperatorActs, OperatorStep, Listen, CloseListener, ListenFails, ListenOpens,
          ListenStores, StartWatcher, StartLoop, CloseContext, CloseForgets, fields
    <3>2. CASE Listen(o)
      BY <3>1, <3>2, ListenFacts
    <3>3. CASE ~ Listen(o)
      BY <2>2, <3>1, <3>3, StepMoves DEF OperatorActs, OperatorStep, Moves
    <3> QED
      BY <3>2, <3>3
  <2> QED
    BY <2>1, <2>2, StepsAreThese, OthersLeave DEF LaterInv
<1> DEFINE WatcherLater(n) ==
      /\ watcher[n].at # "off" => n <= connCh
      /\ watcher[n].at \in {"close", "done"} => n <= watcher[n].ch
<1>2. \A n \in Listening : WatcherLater(n)'
  <2>0. \A n \in Listening : WatcherLater(n)
    BY DEF LaterInv
  <2>1. \A n \in Listening : n <= connCh => n <= connCh'
    BY <1>0, <1>a
  <2>2. ASSUME NEW o \in Operators, StartWatcher(o) PROVE \A n \in Listening : WatcherLater(n)'
    <3>1. operator[o].n <= connCh
      BY <2>2, WatcherStarts DEF LaterInv
    <3> QED
      BY <2>0, <2>1, <2>2, <3>1, WatcherStarts
  <2>3. ASSUME NEW n \in Listening, handleClose(n) PROVE \A m \in Listening : WatcherLater(m)'
    <3>1. watcher[n].at # "off" /\ n <= connCh
      BY <2>0, <2>3, handleCloseFacts
    <3>2. WatcherLater(n)'
      <4>1. CASE WatcherWakes(n)
        BY <2>1, <2>3, <3>1, <4>1, handleCloseFacts
      <4>2. CASE WatcherCloses(n)
        BY <2>0, <2>1, <2>3, <3>1, <4>2, handleCloseFacts DEF WatcherCloses
      <4> QED
        BY <2>3, <4>1, <4>2 DEF handleClose
    <3> QED
      BY <2>0, <2>1, <2>3, <3>2, handleCloseFacts
  <2>4. ASSUME UNCHANGED watcher PROVE \A n \in Listening : WatcherLater(n)'
    BY <2>0, <2>1, <2>4
  <2> QED
    BY <2>2, <2>3, <2>4, WatchersStay
<1> QED
  BY <1>1, <1>2 DEF LaterInv

\* handleClose is the only one that closes a channel, and it stays known who did.
LEMMA ChannelsKeep ==
  /\ TypeOK /\ MadeInv /\ StartingInv /\ EndedInv /\ LaterInv /\ ChannelsInv /\ [Next]_vars
  => ChannelsInv'
<1> SUFFICES ASSUME TypeOK, MadeInv, StartingInv, EndedInv, LaterInv, ChannelsInv, [Next]_vars
             PROVE  ChannelsInv'
  OBVIOUS
<1> DEFINE Accounted(c) == \E w \in 1..c : ClosedBy(w, c)
           Twice == \E v, w \in Listening :
                      v < w /\ ClosedBy(v, watcher[w].ch) /\ ClosedBy(w, watcher[w].ch)
<1>0. /\ 0 \in chClosed /\ \A c \in chClosed \ {0} : Accounted(c)
      /\ panicked = "close of closed channel" => Twice
  BY DEF ChannelsInv, ChannelsClosedByEnded
<1>a. \A c \in Listening : \A w \in 1..c : w \in Listening
  BY ServerAssumption DEF Listening
<1>b. \A n \in Listening : n \in Nat /\ n >= 1 /\ n # 0
  BY NumbersAreTyped
<1>c. chClosed \subseteq Ref /\ \A c \in Ref : c # 0 => c \in Listening
  <2>1. chClosed \subseteq Ref
    BY DEF TypeOK
  <2> QED
    BY <2>1, NumbersAreTyped
<1>d. cancelled \subseteq cancelled'
  BY CancelledStays
<1>1. \A w \in Listening : watcher[w].at = "done" => watcher'[w] = watcher[w]
  <2>1. ASSUME NEW o \in Operators, StartWatcher(o), NEW w \in Listening, watcher[w].at = "done"
        PROVE  watcher'[w] = watcher[w]
    BY <2>1, WatcherStarts
  <2>2. ASSUME NEW n \in Listening, handleClose(n), NEW w \in Listening, watcher[w].at = "done"
        PROVE  watcher'[w] = watcher[w]
    BY <2>2, handleCloseFacts
  <2> QED
    BY <2>1, <2>2, WatchersStay
<1>2. \A w \in Listening : \A c : ClosedBy(w, c) => ClosedBy(w, c)'
  BY <1>1, <1>d DEF ClosedBy
<1>3. ASSUME NEW c \in chClosed \ {0} PROVE Accounted(c)'
  <2>1. PICK w \in 1..c : ClosedBy(w, c)
    BY <1>0
  <2>2. w \in Listening
    BY <1>a, <1>c
  <2> QED
    BY <1>2, <2>1, <2>2
<1>4. Twice => Twice'
  <2> SUFFICES ASSUME NEW v \in Listening, NEW w \in Listening, v < w,
                      ClosedBy(v, watcher[w].ch), ClosedBy(w, watcher[w].ch)
               PROVE  Twice'
    OBVIOUS
  <2>1. watcher'[w].ch = watcher[w].ch
    BY <1>1 DEF ClosedBy
  <2>2. ClosedBy(v, watcher[w].ch)' /\ ClosedBy(w, watcher[w].ch)'
    BY <1>1, <1>d, <2>1 DEF ClosedBy
  <2> QED
    BY <2>2
<1>5. ASSUME NEW n \in Listening, WatcherCloses(n)
      PROVE  /\ 0 \in chClosed' /\ \A c \in chClosed' \ {0} : Accounted(c)'
             /\ panicked' = "close of closed channel" => Twice'
  <2>1. watcher[n].at = "close" /\ watcher[n].ch \in Listening /\ n \in cancelled
    <3>1. watcher[n].at = "close" /\ watcher[n] \in WatcherState
      BY <1>5 DEF WatcherCloses, TypeOK
    <3> QED
      BY <3>1 DEF WatcherState, EndedInv
  <2>2. PICK c \in Listening : c = watcher[n].ch
    BY <2>1
  <2>3. n <= c
    BY <2>1, <2>2 DEF LaterInv
  <2>4. watcher'[n].at = "done" /\ watcher'[n].ch = c
    BY <1>5, <2>2, handleCloseFacts DEF handleClose
  <2>5. ClosedBy(n, c)'
    BY <1>d, <2>1, <2>4 DEF ClosedBy
  <2>6. /\ chClosed' = chClosed \cup {c}
        /\ panicked' = "close of closed channel" => panicked = panicked' \/ c \in chClosed
    BY <1>5, <2>2 DEF WatcherCloses
  <2>7. Accounted(c)'
    <3>1. n \in 1..c
      BY <1>b, <2>3
    <3> QED
      BY <2>5, <3>1
  <2>8. ASSUME c \in chClosed PROVE Twice'
    <3>1. PICK v \in 1..c : ClosedBy(v, c)
      BY <1>0, <1>b, <2>8
    <3>2. v \in Listening /\ v # n
      BY <1>a, <2>1, <3>1 DEF ClosedBy
    <3>3. ClosedBy(v, c)' /\ watcher'[v].ch = c
      BY <1>1, <1>2, <3>1, <3>2 DEF ClosedBy
    <3>4. v < n \/ n < v
      <4>1. v \in Nat /\ n \in Nat
        BY <1>b, <3>2
      <4> QED
        BY <3>2, <4>1
    <3> QED
      BY <2>4, <2>5, <3>2, <3>3, <3>4
  <2>9. ASSUME NEW d \in chClosed' \ {0} PROVE Accounted(d)'
    BY <1>3, <2>6, <2>7
  <2> QED
    BY <1>0, <1>4, <2>6, <2>8, <2>9
<1>6. ASSUME UNCHANGED chClosed, panicked' = "close of closed channel" => panicked = panicked'
      PROVE  /\ 0 \in chClosed' /\ \A c \in chClosed' \ {0} : Accounted(c)'
             /\ panicked' = "close of closed channel" => Twice'
  BY <1>0, <1>3, <1>4, <1>6
<1>7. ASSUME NEW n \in Listening, WatcherWakes(n)
      PROVE  UNCHANGED chClosed /\ panicked' = panicked
  BY <1>7 DEF WatcherWakes
<1>8. ASSUME NEW o \in Operators, StartWatcher(o) PROVE UNCHANGED chClosed /\ panicked' = panicked
  BY <1>8, WatcherStarts
<1>9. /\ 0 \in chClosed' /\ \A c \in chClosed' \ {0} : Accounted(c)'
      /\ panicked' = "close of closed channel" => Twice'
  BY <1>5, <1>6, <1>7, <1>8, WatchersStay DEF handleClose
<1> QED
  BY <1>9 DEF ChannelsInv, ChannelsClosedByEnded

LEMMA CallsKeep ==
  TypeOK /\ MadeInv /\ CallsInv /\ [Next]_vars => CallsInv'
<1> SUFFICES ASSUME TypeOK, MadeInv, CallsInv, [Next]_vars PROVE CallsInv'
  OBVIOUS
<1>1. ASSUME NEW a \in Acceptors, CallActs(a) PROVE CallsInv'
  <2>1. \A b \in Acceptors : b # a => call'[b] = call[b]
    BY <1>1, CallFacts
  <2>2. call'[a].at # "idle" => call'[a].got = "none"
    <3>1. call'[a].at \in {"idle", "ctx", "next", "select"}
      BY <1>1, CallFacts DEF CallState
    <3> QED
      BY <1>1, <3>1, CallPlaces DEF CallsInv
  <2>3. call'[a].at = "select" /\ call'[a].done # 0 => call'[a].ch # 0
    <3>1. ASSUME call'[a].at = "select", call'[a].done # 0 PROVE connCh # 0 /\ call'[a].ch = connCh
      <4>1. /\ call[a].at = "next" /\ call[a].done # 0
            /\ call'[a].ch = connCh
        BY <1>1, <3>1, CallPlaces
      <4> QED
        BY <4>1 DEF MadeInv, ChannelNeeded
    <3> QED
      BY <3>1
  <2> QED
    BY <2>1, <2>2, <2>3 DEF CallsInv
<1>2. ASSUME NEW o \in Operators, OperatorActs(o) PROVE UNCHANGED call
  BY <1>2 DEF OperatorActs, OperatorStep, Listen, CloseListener, ListenChannel, ListenFails,
      ListenOpens, ListenStores, StartWatcher, StartLoop, CloseContext, CloseForgets
<1>3. ASSUME NEW n \in Listening, handleClose(n) \/ LoopActs(n) \/ ParentCancels(n) PROVE UNCHANGED call
  BY <1>3 DEF handleClose, WatcherWakes, WatcherCloses, ParentCancels, goroutines, LoopActs,
      LoopStep, LoopCheck, LoopLoad, LoopEnds, LoopConnects, LoopPanics, LoopAccepts, LoopFails,
      LoopUnchanged
<1>4. UNCHANGED vars => UNCHANGED call
  BY DEF vars, goroutines
<1>5. UNCHANGED call => CallsInv'
  BY DEF CallsInv
<1> QED
  BY <1>1, <1>2, <1>3, <1>4, <1>5, StepsAreThese DEF OtherActs

-----------------------------------------------------------------------------
(* The types.                                                              *)

\* The types of the fields, of the lives and of what else has no parts.
FlatOK ==
  /\ listener \in Ref /\ ctx \in Ref /\ connCh \in Ref
  /\ listenerMu \in Operators \cup {Nobody}
  /\ listens \in Ref
  /\ open \subseteq Listening /\ cancelled \subseteq Listening
  /\ chClosed \subseteq Ref
  /\ conns \in 0..MaxConns
  /\ panicked \in {"no", "nil dereference", "send on closed channel", "close of closed channel"}

\* The types of the goroutines.
GoroutinesOK ==
  /\ operator \in [Operators -> OperatorState]
  /\ loop \in [Listening -> LoopState]
  /\ watcher \in [Listening -> WatcherState]
  /\ call \in [Acceptors -> CallState]

LEMMA TypeParts == TypeOK <=> FlatOK /\ GoroutinesOK
BY DEF TypeOK, FlatOK, GoroutinesOK

LEMMA FlatKeeps ==
  TypeOK /\ FieldsInv /\ StartingInv /\ [Next]_vars => FlatOK'
<1> SUFFICES ASSUME TypeOK, FieldsInv, StartingInv, [Next]_vars PROVE FlatOK'
  OBVIOUS
<1>0. /\ FlatOK
      /\ 0 \in Ref /\ \A k \in Listening : k \in Ref
      /\ \A k \in Ref : k # 0 => k \in Listening
  BY TypeParts, NumbersAreTyped
<1>1. ASSUME NEW o \in Operators, OperatorActs(o) PROVE FlatOK'
  <2>0. operator[o].at \in Starting => operator[o].n \in Listening /\ operator[o].n \in Ref
    BY <1>0, StartedFacts
  <2>1. CASE Listen(o)
    <3>1. listens' \in Ref /\ ctx' \in Ref
      BY <1>0, <2>1, ListenFacts
    <3> QED
      BY <1>0, <2>1, <3>1 DEF FlatOK, Listen
  <2>2. CASE CloseListener(o)
    BY <1>0, <2>2 DEF FlatOK, CloseListener, fields
  <2>3. CASE ListenChannel(o)
    BY <1>0, <2>0, <2>3 DEF FlatOK, ListenChannel, At, Starting, lives
  <2>4. CASE ListenFails(o)
    BY <1>0, <2>4 DEF FlatOK, ListenFails, fields, lives
  <2>5. CASE ListenOpens(o)
    BY <1>0, <2>0, <2>5 DEF FlatOK, ListenOpens, At, Starting, fields
  <2>10. CASE ListenStores(o)
    BY <1>0, <2>0, <2>10 DEF FlatOK, ListenStores, At, Starting, lives
  <2>6. CASE StartWatcher(o)
    BY <1>0, <2>6 DEF FlatOK, StartWatcher, fields, lives
  <2>7. CASE StartLoop(o)
    BY <1>0, <2>7 DEF FlatOK, StartLoop, fields, lives
  <2>8. CASE CloseContext(o)
    <3>1. ctx \in Listening
      BY <1>0, <2>8 DEF FieldsInv, ListeningIsWhole, CloseContext, At, FlatOK
    <3> QED
      BY <1>0, <2>8, <3>1 DEF FlatOK, CloseContext, fields
  <2>9. CASE CloseForgets(o)
    BY <1>0, <2>9 DEF FlatOK, CloseForgets, lives
  <2> QED
    BY <1>1, <2>1, <2>2, <2>3, <2>4, <2>5, <2>6, <2>7, <2>8, <2>9, <2>10
    DEF OperatorActs, OperatorStep
<1>2. ASSUME NEW n \in Listening, handleClose(n) PROVE FlatOK'
  <2>1. watcher[n].at = "close" => watcher[n].ch \in Ref
    BY <1>0 DEF TypeOK, WatcherState
  <2> QED
    BY <1>0, <1>2, <2>1 DEF FlatOK, handleClose, WatcherWakes, WatcherCloses, fields, lives
<1>3. ASSUME NEW n \in Listening, LoopActs(n) PROVE FlatOK'
  <2>1. /\ LoopUnchanged
        /\ panicked' = panicked \/ panicked' = "send on closed channel"
        /\ conns' = conns \/ (conns < MaxConns /\ conns' = conns + 1)
    BY <1>3 DEF LoopActs, LoopStep, LoopCheck, LoopLoad, LoopEnds, LoopConnects, LoopPanics,
        LoopAccepts, LoopFails
  <2>2. conns' \in 0..MaxConns
    <3>1. conns \in 0..MaxConns /\ MaxConns \in Nat
      BY <1>0, ServerAssumption DEF FlatOK
    <3> QED
      <4>1. conns' = conns \/ (conns < MaxConns /\ conns' = conns + 1)
        BY <2>1
      <4> QED
        BY <3>1, <4>1
  <2> QED
    BY <1>0, <2>1, <2>2 DEF FlatOK, LoopUnchanged, fields, lives
<1>4. ASSUME NEW n \in Listening, ParentCancels(n) PROVE FlatOK'
  BY <1>0, <1>4 DEF FlatOK, ParentCancels, fields
<1>5. ASSUME NEW a \in Acceptors, CallActs(a) PROVE FlatOK'
  <2>1. CallUnchanged
    BY <1>5, CallFacts
  <2> QED
    BY <1>0, <2>1 DEF FlatOK, CallUnchanged, fields, lives
<1>6. UNCHANGED vars => FlatOK'
  BY <1>0 DEF FlatOK, vars, fields, lives
<1> QED
  BY <1>1, <1>2, <1>3, <1>4, <1>5, <1>6, StepsAreThese DEF OtherActs

LEMMA GoroutinesKeep ==
  TypeOK /\ MadeInv /\ StartingInv /\ GivenInv /\ [Next]_vars => GoroutinesOK'
<1> SUFFICES ASSUME TypeOK, MadeInv, StartingInv, GivenInv, [Next]_vars PROVE GoroutinesOK'
  OBVIOUS
<1>0. GoroutinesOK
  BY TypeParts
<1>1. ASSUME NEW o \in Operators, OperatorActs(o) PROVE GoroutinesOK'
  <2>1. CASE StartWatcher(o)
    <3>1. operator[o].n \in Listening
      BY <2>1, StartedFacts DEF StartWatcher, At, Starting
    <3> QED
      BY <1>0, <2>1, <3>1, StartWatcherFacts, StepMoves DEF GoroutinesOK, Moves, StartWatcher
  <2>2. CASE StartLoop(o)
    <3>1. operator[o].n \in Listening /\ loop[operator[o].n].at = "off"
      BY <2>2, StartedFacts DEF StartLoop, At, Starting, StartingInv
    <3> QED
      BY <1>0, <2>2, <3>1, StartLoopFacts, StepMoves DEF GoroutinesOK, Moves, StartLoop
  <2>3. CASE ~ (StartWatcher(o) \/ StartLoop(o))
    <3>1. UNCHANGED <<watcher, loop, call>>
      BY <1>1, <2>3 DEF OperatorActs, OperatorStep, Listen, CloseListener, ListenChannel, ListenFails,
                        ListenOpens, ListenStores, CloseContext, CloseForgets
    <3>2. operator' = operator \/ operator' \in [Operators -> OperatorState]
      BY <1>1, <2>3, ListenFacts, StepMoves DEF OperatorActs, OperatorStep, Moves
    <3> QED
      BY <1>0, <3>1, <3>2 DEF GoroutinesOK
  <2> QED
    BY <2>1, <2>2, <2>3
<1>2. ASSUME NEW n \in Listening, handleClose(n) PROVE GoroutinesOK'
  BY <1>0, <1>2, handleCloseFacts DEF GoroutinesOK, handleClose, WatcherWakes, WatcherCloses
<1>3. ASSUME NEW n \in Listening, LoopActs(n) PROVE GoroutinesOK'
  <2>1. loop[n].at # "off"
    BY <1>3 DEF LoopActs, LoopStep, LoopCheck, LoopLoad, LoopEnds, LoopConnects, LoopPanics,
                LoopAccepts, LoopFails
  <2>2. loop[n].ctx # 0 /\ connCh # 0
    BY <2>1 DEF GivenInv, MadeInv, ChannelNeeded
  <2> QED
    BY <1>0, <1>3, <2>2, LoopFacts DEF GoroutinesOK, LoopUnchanged
<1>4. ASSUME NEW n \in Listening, ParentCancels(n) PROVE GoroutinesOK'
  BY <1>0, <1>4 DEF GoroutinesOK, ParentCancels, goroutines
<1>5. ASSUME NEW a \in Acceptors, CallActs(a) PROVE GoroutinesOK'
  BY <1>0, <1>5, CallFacts DEF GoroutinesOK, CallUnchanged
<1>6. UNCHANGED vars => GoroutinesOK'
  BY <1>0 DEF GoroutinesOK, vars, goroutines
<1> QED
  BY <1>1, <1>2, <1>3, <1>4, <1>5, <1>6, StepsAreThese DEF OtherActs

-----------------------------------------------------------------------------
(* The invariant and the properties.                                       *)

LEMMA ServerInit == Init => ServerInv
<1> SUFFICES ASSUME Init PROVE ServerInv
  OBVIOUS
<1>0. /\ 0 \in Ref /\ 0 \in 0..MaxConns /\ 0 \notin Listening
  BY ServerAssumption DEF Ref, Listening
<1>1. TypeOK
  <2>1. /\ [at |-> "idle", n |-> 0] \in OperatorState
        /\ [at |-> "off", ctx |-> 0, l |-> 0, ch |-> 0] \in LoopState
        /\ [at |-> "off", ctx |-> 0, ch |-> 0] \in WatcherState
        /\ [at |-> "idle", done |-> 0, ch |-> 0, got |-> "none"] \in CallState
    BY <1>0 DEF OperatorState, LoopState, WatcherState, CallState
  <2>2. GoroutinesOK
    BY <2>1 DEF Init, GoroutinesOK
  <2>3. FlatOK
    BY <1>0 DEF Init, FlatOK
  <2> QED
    BY <2>2, <2>3, TypeParts
<1>2. MuInv /\ FieldsInv
  BY ServerAssumption DEF Init, MuInv, InMu, FieldsInv, ListeningIsWhole, At
<1>3. MadeInv /\ StartingInv /\ GivenInv /\ CallsInv
  BY DEF Init, MadeInv, ChannelNeeded, StartingInv, Starting, GivenInv, CallsInv
<1>5. EndedInv /\ LaterInv
  BY DEF Init, EndedInv, LaterInv, At
<1>4. NumbersInv /\ ChannelsInv
  BY DEF Init, NumbersInv, ChannelsInv, ChannelsClosedByEnded
<1> QED
  BY <1>1, <1>2, <1>3, <1>4, <1>5 DEF ServerInv

LEMMA ServerNext == ServerInv /\ [Next]_vars => ServerInv'
<1> SUFFICES ASSUME ServerInv, [Next]_vars PROVE ServerInv'
  OBVIOUS
<1>1. /\ TypeOK /\ MuInv /\ FieldsInv /\ NumbersInv /\ MadeInv /\ StartingInv /\ GivenInv
      /\ EndedInv /\ LaterInv /\ ChannelsInv /\ CallsInv
  BY DEF ServerInv
<1>2. TypeOK'
  <2>1. FlatOK' /\ GoroutinesOK'
    BY <1>1, FlatKeeps, GoroutinesKeep
  <2> QED
    BY <2>1 DEF TypeOK, FlatOK, GoroutinesOK
<1> QED
  BY <1>1, <1>2, MuKeeps, FieldsKeep, NumbersKeep, MadeKeeps, StartingKeeps, GivenKeeps, EndedKeeps,
     LaterKeeps, ChannelsKeep, CallsKeep DEF ServerInv

LEMMA ServerInvariant == Spec => []ServerInv
BY ServerInit, ServerNext, PTL DEF Spec

\* Every variable keeps its type; a loop that waits in listener.Accept has a
\* listener, one that hands a connection over has a channel that was made.
THEOREM ServerTypeCorrect == Spec => []TypeOK
<1>1. ServerInv => TypeOK
  BY DEF ServerInv
<1> QED
  BY <1>1, ServerInvariant, PTL

\* However ListenContext, Close and the goroutines interleave, a server that is
\* listening has its one listener open, with its context and its channel in the fields.
THEOREM ListeningStaysWhole == Spec => []ListeningIsWhole
<1>1. ServerInv => ListeningIsWhole
  BY DEF ServerInv, FieldsInv
<1> QED
  BY <1>1, ServerInvariant, PTL

\* For any number of listenings: a channel is closed by the handleClose of an ended
\* listening, its own or an earlier one, and closed twice only by those of two.
THEOREM ChannelsStayWithEnded == Spec => []ChannelsClosedByEnded
<1>1. ServerInv => ChannelsClosedByEnded
  BY DEF ServerInv, ChannelsInv
<1> QED
  BY <1>1, ServerInvariant, PTL

\* Accept comes back with neither a connection nor an error only when it found the
\* server closed, or when the handleClose of an ended listening closed its channel.
THEOREM NothingOnlyWhenClosed == Spec => NothingOnlyAtTheEnd
<1> DEFINE EndSeen ==
      \A a \in Acceptors :
        call[a].at = "select" /\ call'[a].got = "nothing" =>
          call[a].done = 0 \/ \E w \in 1..call[a].ch : ClosedBy(w, call[a].ch)
<1>1. ASSUME ServerInv, [Next]_vars PROVE EndSeen
  <2> SUFFICES ASSUME NEW a \in Acceptors, call[a].at = "select", call'[a].got = "nothing",
                      call[a].done # 0
               PROVE  \E w \in 1..call[a].ch : ClosedBy(w, call[a].ch)
    OBVIOUS
  <2>0. TypeOK /\ ChannelsInv /\ CallsInv
    BY <1>1 DEF ServerInv
  <2>1. call[a].got = "none" /\ call[a].ch # 0
    BY <2>0 DEF CallsInv
  <2>2. call' # call
    BY <2>1
  <2>3. PICK b \in Acceptors : CallActs(b)
    <3>1. ASSUME NEW o \in Operators, OperatorActs(o) PROVE UNCHANGED call
      BY <3>1 DEF OperatorActs, OperatorStep, Listen, CloseListener, ListenChannel, ListenFails,
                  ListenOpens, ListenStores, StartWatcher, StartLoop, CloseContext, CloseForgets
    <3>2. ASSUME NEW n \in Listening, handleClose(n) \/ LoopActs(n) \/ ParentCancels(n)
          PROVE  UNCHANGED call
      BY <3>2 DEF handleClose, WatcherWakes, WatcherCloses, ParentCancels, goroutines, LoopActs,
          LoopStep, LoopCheck, LoopLoad, LoopEnds, LoopConnects, LoopPanics, LoopAccepts,
          LoopFails, LoopUnchanged
    <3>3. UNCHANGED vars => UNCHANGED call
      BY DEF vars, goroutines
    <3> QED
      BY <1>1, <2>2, <3>1, <3>2, <3>3, StepsAreThese DEF OtherActs
  <2>4. b = a
    BY <2>0, <2>1, <2>3, CallFacts
  <2>5. AcceptNothing(a)
    <3>1. DOMAIN call = Acceptors
      BY <2>0 DEF TypeOK
    <3> QED
      BY <2>1, <2>3, <2>4, <3>1 DEF CallActs, AcceptStep, Accept, AcceptDone, AcceptNext,
          AcceptClosed, AcceptConn, AcceptReturns
  <2>6. call[a].ch \in chClosed
    BY <2>5 DEF AcceptNothing
  <2> QED
    BY <2>0, <2>1, <2>6 DEF ChannelsInv, ChannelsClosedByEnded
<1>2. ServerInv /\ [Next]_vars => [EndSeen]_vars
  BY <1>1
<1> QED
  BY <1>2, ServerInvariant, PTL DEF Spec, NothingOnlyAtTheEnd

===============================================================================
