------------------------------ MODULE ConnProofs ------------------------------
(***************************************************************************)
(* What holds of a connection for every number of goroutines that close    *)
(* it, every capacity of its channel and every number of messages read.    *)
(*                                                                         *)
(* ConnInv is inductive.  ListInv says in which order a goroutine that     *)
(* ends the connection does things: it cancels before it shuts the         *)
(* transport, and shuts it before it fires `closed`; SignalsInv says what  *)
(* the signals that have fired stand for, and that one goroutine at most   *)
(* is about to close the channels.                                         *)
(***************************************************************************)
EXTENDS Conn, TLAPS

Acts == {"wait", "cancel", "shut", "closed", "readDone", "ifClosed", "done", "channels"}

\* A shut comes after its cancel, a closed after its shut; what comes of a signal
\* is done at once.
InOrder(s) ==
  \A i \in 1..Len(s) :
    /\ s[i] = "shut" => ctxDone \/ (i > 1 /\ s[i - 1] = "cancel")
    /\ s[i] = "closed" => (ctxDone /\ transport = "closed") \/ (i > 1 /\ s[i - 1] = "shut")
    /\ s[i] \in {"ifClosed", "done", "channels"} => i = 1

ListInv ==
  /\ todo \in [Threads -> Seq(Acts)]
  /\ \A g \in Threads : Len(todo[g]) <= 5 /\ InOrder(todo[g])

SignalsInv ==
  /\ closed => ctxDone /\ transport = "closed"
  /\ done => closed
  /\ messagesClosed => done
  /\ \A g \in Threads : /\ Do(g, "done") => closed
                        /\ Do(g, "channels") => done /\ ~ messagesClosed
                        /\ \A h \in Threads : Do(g, "channels") /\ Do(h, "channels") => g = h
  /\ panicked # "close of closed channel"

\* The types of what is not a list.
FlatOK ==
  /\ ctxDone \in BOOLEAN
  /\ transport \in {"open", "closed"}
  /\ header \in BOOLEAN
  /\ peer \in {"sending", "gone", "broken"}
  /\ readDone \in BOOLEAN /\ closed \in BOOLEAN /\ done \in BOOLEAN
  /\ messagesClosed \in BOOLEAN
  /\ buffered \in Buffers
  /\ queue \in 0..buffered
  /\ reads \in 0..MaxReads
  /\ at \in NewConnAt \cup {"failed", "select", "read", "check", "deliver", "ending"}
  /\ panicked \in {"no", "read error", "send on closed channel", "close of closed channel"}

ConnInv == FlatOK /\ ListInv /\ SignalsInv

-----------------------------------------------------------------------------
(* Lists.                                                                  *)

\* Dropping the first act, and replacing it by another.
LEMMA DropFirst ==
  ASSUME NEW s \in Seq(Acts), s # <<>>
  PROVE  LET t == <<>> \o Tail(s)
         IN  t \in Seq(Acts) /\ Len(t) = Len(s) - 1 /\ \A i \in 1..Len(t) : t[i] = s[i + 1]
OBVIOUS

LEMMA ReplaceFirst ==
  ASSUME NEW s \in Seq(Acts), s # <<>>, NEW x \in Acts
  PROVE  LET t == <<x>> \o Tail(s)
         IN  /\ t \in Seq(Acts) /\ Len(t) = Len(s) /\ t # <<>> /\ Head(t) = x /\ t[1] = x
             /\ \A i \in 2..Len(t) : t[i] = s[i]
OBVIOUS

\* The lists that goroutines start with.
LEMMA ListsAreThese ==
  /\ <<>> \in Seq(Acts) /\ Len(<<>>) = 0
  /\ Close \in Seq(Acts) /\ Len(Close) = 2 /\ Close[1] = "cancel" /\ Close[2] = "shut"
  /\ watchEnd \in Seq(Acts) /\ Len(watchEnd) = 5
  /\ watchEnd[1] = "wait" /\ watchEnd[2] = "cancel" /\ watchEnd[3] = "shut"
  /\ watchEnd[4] = "closed" /\ watchEnd[5] = "readDone"
  /\ ContextEnded \in Seq(Acts) /\ Len(ContextEnded) = 4
  /\ ContextEnded[1] = "cancel" /\ ContextEnded[2] = "shut" /\ ContextEnded[3] = "closed"
  /\ ContextEnded[4] = "readDone"
  /\ InputEnded \in Seq(Acts) /\ Len(InputEnded) = 4
  /\ InputEnded[1] = "readDone" /\ InputEnded[2] = "cancel" /\ InputEnded[3] = "shut"
  /\ InputEnded[4] = "closed"
BY DEF Close, watchEnd, ContextEnded, InputEnded, markConnectionAsClosed, markReadAsDone, Acts

-----------------------------------------------------------------------------
(* A goroutine that ends the connection goes on.                           *)

\* What never goes back.
Onward == (ctxDone => ctxDone') /\ (transport = "closed" => transport' = "closed")

\* The first act is done, and nothing comes of it.
LEMMA DropKeeps ==
  ASSUME ListInv, Onward, NEW g \in Threads, todo[g] # <<>>, Then(g, <<>>),
         Head(todo[g]) = "cancel" => ctxDone',
         Head(todo[g]) = "shut" => transport' = "closed"
  PROVE  /\ ListInv'
         /\ \A h \in Threads : h # g => todo'[h] = todo[h]
         /\ ~ Do(g, "done")' /\ ~ Do(g, "channels")'
<1> DEFINE s == todo[g]
           t == <<>> \o Tail(s)
<1>1. s \in Seq(Acts) /\ Len(s) <= 5 /\ InOrder(s)
  BY DEF ListInv
<1>2. t \in Seq(Acts) /\ Len(t) = Len(s) - 1 /\ \A i \in 1..Len(t) : t[i] = s[i + 1]
  BY <1>1, DropFirst
<1>3. /\ todo' \in [Threads -> Seq(Acts)]
      /\ todo'[g] = t
      /\ \A h \in Threads : h # g => todo'[h] = todo[h]
  <2>1. todo' = [todo EXCEPT ![g] = t]
    BY DEF Then
  <2> HIDE DEF t
  <2> QED
    BY <1>2, <2>1 DEF ListInv
<1>4. s[1] = Head(s) /\ Len(s) \in Nat /\ Len(s) >= 1
  BY <1>1
<1> HIDE DEF s, t
<1>5. \A i \in 1..Len(t) : /\ i + 1 \in 1..Len(s) /\ i + 1 > 1 /\ (i + 1) - 1 = i
                           /\ i > 1 => i - 1 \in 1..Len(t) /\ (i - 1) + 1 = i
  BY <1>2, <1>4
<1>6. ASSUME NEW i \in 1..Len(t)
      PROVE  /\ t[i] = "shut" => ctxDone' \/ (i > 1 /\ t[i - 1] = "cancel")
             /\ t[i] = "closed" => (ctxDone' /\ transport' = "closed") \/ (i > 1 /\ t[i - 1] = "shut")
             /\ t[i] \notin {"ifClosed", "done", "channels"}
  <2>1. t[i] = s[i + 1] /\ i + 1 \in 1..Len(s) /\ i + 1 > 1 /\ (i + 1) - 1 = i
    BY <1>2, <1>5
  <2>2. /\ t[i] = "shut" => ctxDone \/ s[i] = "cancel"
        /\ t[i] = "closed" => (ctxDone /\ transport = "closed") \/ s[i] = "shut"
        /\ t[i] \notin {"ifClosed", "done", "channels"}
    BY <1>1, <2>1 DEF InOrder
  <2>3. CASE i = 1
    <3>1. s[1] = "cancel" => ctxDone'
      BY <1>4 DEF s
    <3>2. s[1] = "shut" => transport' = "closed" /\ ctxDone
      <4>1. 1 \in 1..Len(s)
        BY <1>4
      <4> QED
        BY <1>1, <1>4, <4>1 DEF InOrder, s
    <3> QED
      BY <2>2, <2>3, <3>1, <3>2 DEF Onward
  <2>4. CASE i # 1
    <3>1. i > 1 /\ t[i - 1] = s[i]
      BY <1>2, <1>5, <2>4
    <3> QED
      BY <2>2, <3>1 DEF Onward
  <2> QED
    BY <2>3, <2>4
<1>8. \A h \in Threads : Len(todo'[h]) <= 5 /\ InOrder(todo[h])'
  <2> SUFFICES ASSUME NEW h \in Threads PROVE Len(todo'[h]) <= 5 /\ InOrder(todo[h])'
    OBVIOUS
  <2>1. CASE h = g
    <3>1. Len(t) <= 5
      BY <1>1, <1>2, <1>4
    <3>2. InOrder(todo[g])'
      BY <1>3, <1>6 DEF InOrder
    <3> QED
      BY <1>3, <2>1, <3>1, <3>2
  <2>2. CASE h # g
    BY <1>3, <2>2 DEF ListInv, InOrder, Onward
  <2> QED
    BY <2>1, <2>2
<1>9. ASSUME t # <<>> PROVE Head(t) \notin {"done", "channels"}
  <2>1. 1 \in 1..Len(t) /\ Head(t) = t[1]
    BY <1>2, <1>9
  <2> QED
    BY <1>6, <2>1
<1> QED
  BY <1>3, <1>8, <1>9 DEF ListInv, Do

\* Something comes of the first act, which takes its place.
LEMMA ReplaceKeeps ==
  ASSUME ListInv, Onward, NEW g \in Threads, todo[g] # <<>>,
         NEW x \in {"ifClosed", "done", "channels"}, Then(g, <<x>>),
         Head(todo[g]) \notin {"cancel", "shut"}
  PROVE  /\ ListInv'
         /\ \A h \in Threads : h # g => todo'[h] = todo[h]
         /\ \A what : Do(g, what)' <=> what = x
<1> DEFINE s == todo[g]
           t == <<x>> \o Tail(s)
<1>1. s \in Seq(Acts) /\ Len(s) <= 5 /\ InOrder(s)
  BY DEF ListInv
<1>2. /\ t \in Seq(Acts) /\ Len(t) = Len(s) /\ t # <<>> /\ Head(t) = x /\ t[1] = x
      /\ \A i \in 2..Len(t) : t[i] = s[i]
  BY <1>1, ReplaceFirst DEF Acts
<1>3. /\ todo' \in [Threads -> Seq(Acts)]
      /\ todo'[g] = t
      /\ \A h \in Threads : h # g => todo'[h] = todo[h]
  <2>1. todo' = [todo EXCEPT ![g] = t]
    BY DEF Then
  <2> HIDE DEF t
  <2> QED
    BY <1>2, <2>1 DEF ListInv
<1>4. s[1] = Head(s) /\ Len(s) \in Nat /\ s[1] \notin {"cancel", "shut"}
  BY <1>1
<1> HIDE DEF s, t
<1>6. ASSUME NEW i \in 1..Len(t)
      PROVE  /\ t[i] = "shut" => ctxDone' \/ (i > 1 /\ t[i - 1] = "cancel")
             /\ t[i] = "closed" => (ctxDone' /\ transport' = "closed") \/ (i > 1 /\ t[i - 1] = "shut")
             /\ t[i] \in {"ifClosed", "done", "channels"} => i = 1
  <2>1. CASE i = 1
    BY <1>2, <2>1
  <2>2. CASE i # 1
    <3>1. i \in 1..Len(s) /\ i \in 2..Len(t) /\ i > 1
      BY <1>2, <1>4, <2>2
    <3>2. /\ t[i] = "shut" => ctxDone \/ s[i - 1] = "cancel"
          /\ t[i] = "closed" => (ctxDone /\ transport = "closed") \/ s[i - 1] = "shut"
          /\ t[i] \notin {"ifClosed", "done", "channels"}
      BY <1>1, <1>2, <2>2, <3>1 DEF InOrder
    <3>3. i - 1 = 1 \/ t[i - 1] = s[i - 1]
      <4>1. i - 1 = 1 \/ i - 1 \in 2..Len(t)
        BY <1>2, <1>4, <3>1
      <4> QED
        BY <1>2, <4>1
    <3>4. s[i - 1] \in {"cancel", "shut"} => t[i - 1] = s[i - 1]
      BY <1>4, <3>3
    <3> QED
      BY <3>1, <3>2, <3>4 DEF Onward
  <2> QED
    BY <2>1, <2>2
<1>8. \A h \in Threads : Len(todo'[h]) <= 5 /\ InOrder(todo[h])'
  <2> SUFFICES ASSUME NEW h \in Threads PROVE Len(todo'[h]) <= 5 /\ InOrder(todo[h])'
    OBVIOUS
  <2>1. CASE h = g
    BY <1>1, <1>2, <1>3, <1>6, <2>1 DEF InOrder
  <2>2. CASE h # g
    BY <1>3, <2>2 DEF ListInv, InOrder, Onward
  <2> QED
    BY <2>1, <2>2
<1> QED
  BY <1>2, <1>3, <1>8 DEF ListInv, Do

-----------------------------------------------------------------------------
(* The steps.                                                              *)

\* FireDone is the one that lets a goroutine close the channels, and only the first
\* of them does.
LEMMA EndKeeps ==
  ASSUME ListInv, SignalsInv, FlatOK, NEW g \in Threads, EndStep(g)
  PROVE  ListInv' /\ SignalsInv'
<1>0. /\ todo[g] # <<>> => Head(todo[g]) = todo[g][1] /\ 1 \in 1..Len(todo[g])
      /\ todo[g] # <<>> /\ Head(todo[g]) = "closed" => ctxDone /\ transport = "closed"
  <2>1. todo[g] \in Seq(Acts) /\ InOrder(todo[g])
    BY DEF ListInv
  <2>2. todo[g] # <<>> => Head(todo[g]) = todo[g][1] /\ 1 \in 1..Len(todo[g])
    BY <2>1
  <2> QED
    BY <2>1, <2>2 DEF InOrder
<1> DEFINE Others == \A h \in Threads : h # g => todo'[h] = todo[h]
           Nothing == ListInv' /\ Others /\ ~ Do(g, "done")' /\ ~ Do(g, "channels")'
           One(x) == ListInv' /\ Others /\ \A what : Do(g, what)' <=> what = x
           Same == UNCHANGED <<closed, done, messagesClosed, panicked>> /\ Onward
<1>1. CASE Wait(g) \/ Cancel(g) \/ Shut(g)
  <2>1. Same /\ todo[g] # <<>> /\ Then(g, <<>>)
    BY <1>1 DEF Wait, Cancel, Shut, Do, ending, signals, Onward
  <2>2. /\ Head(todo[g]) = "cancel" => ctxDone'
        /\ Head(todo[g]) = "shut" => transport' = "closed"
    BY <1>1 DEF Wait, Cancel, Shut, Do
  <2>3. Nothing
    BY <2>1, <2>2, DropKeeps
  <2> QED
    BY <2>1, <2>3 DEF SignalsInv, Do, Onward
<1>2. CASE FireClosed(g)
  <2>1. /\ todo[g] # <<>> /\ Head(todo[g]) = "closed" /\ closed'
        /\ UNCHANGED <<ctxDone, transport, done, messagesClosed, panicked>>
    BY <1>2 DEF FireClosed, Do
  <2>2. Nothing \/ One("done")
    <3>1. CASE closed
      <4>1. Then(g, <<>>)
        BY <1>2, <3>1 DEF FireClosed
      <4> QED
        BY <2>1, <4>1, DropKeeps DEF Onward
    <3>2. CASE ~ closed
      <4>1. Then(g, <<"done">>)
        BY <1>2, <3>2 DEF FireClosed
      <4> QED
        BY <2>1, <4>1, ReplaceKeeps DEF Onward
    <3> QED
      BY <3>1, <3>2
  <2>3. ListInv' /\ Others /\ ~ Do(g, "channels")'
    BY <2>2
  <2> QED
    BY <1>0, <2>1, <2>3 DEF SignalsInv, Do
<1>3. CASE FireReadDone(g)
  <2>1. /\ todo[g] # <<>> /\ Head(todo[g]) = "readDone"
        /\ UNCHANGED <<ctxDone, transport, closed, done, messagesClosed, panicked>>
    BY <1>3 DEF FireReadDone, Do
  <2>2. Nothing \/ One("ifClosed")
    <3>1. CASE readDone
      <4>1. Then(g, <<>>)
        BY <1>3, <3>1 DEF FireReadDone
      <4> QED
        BY <2>1, <4>1, DropKeeps DEF Onward
    <3>2. CASE ~ readDone
      <4>1. Then(g, <<"ifClosed">>)
        BY <1>3, <3>2 DEF FireReadDone
      <4> QED
        BY <2>1, <4>1, ReplaceKeeps DEF Onward
    <3> QED
      BY <3>1, <3>2
  <2>3. Nothing
    BY <2>2
  <2> QED
    BY <2>1, <2>3 DEF SignalsInv, Do
<1>4. CASE IfClosed(g)
  <2>1. /\ todo[g] # <<>> /\ Head(todo[g]) = "ifClosed"
        /\ UNCHANGED <<ctxDone, transport, closed, done, messagesClosed, panicked>>
    BY <1>4 DEF IfClosed, Do, ending, signals
  <2>2. (closed /\ One("done")) \/ Nothing
    <3>1. CASE ~ closed
      <4>1. Then(g, <<>>)
        BY <1>4, <3>1 DEF IfClosed
      <4> QED
        BY <2>1, <4>1, DropKeeps DEF Onward
    <3>2. CASE closed
      <4>1. Then(g, <<"done">>)
        BY <1>4, <3>2 DEF IfClosed
      <4> QED
        BY <2>1, <3>2, <4>1, ReplaceKeeps DEF Onward
    <3> QED
      BY <3>1, <3>2
  <2>3. ListInv' /\ Others /\ ~ Do(g, "channels")' /\ (Do(g, "done")' => closed)
    BY <2>2
  <2> QED
    BY <2>1, <2>3 DEF SignalsInv, Do
<1>5. CASE FireDone(g)
  <2>1. /\ todo[g] # <<>> /\ Head(todo[g]) = "done" /\ done' /\ closed
        /\ UNCHANGED <<transport, closed, messagesClosed, panicked>> /\ Onward
    BY <1>5 DEF FireDone, Do, SignalsInv, Onward
  <2>2. CASE done
    <3>1. Then(g, <<>>)
      BY <1>5, <2>2 DEF FireDone
    <3>2. Nothing
      BY <2>1, <3>1, DropKeeps
    <3> QED
      BY <2>1, <2>2, <3>2 DEF SignalsInv, Do, Onward
  <2>3. CASE ~ done
    <3>1. Then(g, <<"channels">>)
      BY <1>5, <2>3 DEF FireDone
    <3>2. One("channels")
      BY <2>1, <3>1, ReplaceKeeps
    <3>3. ~ messagesClosed /\ \A h \in Threads : ~ Do(h, "channels")
      BY <2>3 DEF SignalsInv
    <3>4. ListInv' /\ Others /\ ~ Do(g, "done")'
      BY <3>2
    <3> QED
      BY <2>1, <3>3, <3>4 DEF SignalsInv, Do, Onward
  <2> QED
    BY <2>2, <2>3
<1>6. CASE CloseChannels(g)
  <2>1. Do(g, "channels") /\ done /\ ~ messagesClosed
    BY <1>6 DEF CloseChannels, SignalsInv
  <2>2. /\ UNCHANGED <<ctxDone, transport, closed, done, panicked>>
        /\ messagesClosed' /\ Then(g, <<>>)
    BY <1>6, <2>1 DEF CloseChannels, signals
  <2>3. Nothing
    BY <2>1, <2>2, DropKeeps DEF Onward, Do
  <2> QED
    BY <2>1, <2>2, <2>3 DEF SignalsInv, Do
<1> QED
  BY <1>1, <1>2, <1>3, <1>4, <1>5, <1>6 DEF EndStep

\* What a goroutine starts with may have to be done in this order.
LEMMA ListsInOrder ==
  /\ InOrder(<<>>) /\ InOrder(Close) /\ InOrder(watchEnd)
  /\ InOrder(ContextEnded) /\ InOrder(InputEnded)
<1>1. InOrder(<<>>)
  BY ListsAreThese DEF InOrder
<1>2. InOrder(Close)
  BY ListsAreThese DEF InOrder
<1>3. InOrder(watchEnd)
  BY ListsAreThese DEF InOrder
<1>4. InOrder(ContextEnded)
  BY ListsAreThese DEF InOrder
<1>5. InOrder(InputEnded)
  BY ListsAreThese DEF InOrder
<1> QED
  BY <1>1, <1>2, <1>3, <1>4, <1>5

\* handle leaves its loop with a list of its own.
LEMMA EndsInOrder ==
  ASSUME ListInv, NEW rest \in {<<>>, ContextEnded, InputEnded}, End(rest), UNCHANGED ending
  PROVE  /\ ListInv'
         /\ \A h \in Threads : h # "handle" => todo'[h] = todo[h]
         /\ ~ Do("handle", "done")' /\ ~ Do("handle", "channels")'
<1>1. /\ rest \in Seq(Acts) /\ Len(rest) <= 5 /\ InOrder(rest)
      /\ rest # <<>> => Head(rest) \in {"cancel", "readDone"}
  <2>1. CASE rest = <<>>
    BY <2>1, ListsAreThese, ListsInOrder
  <2>2. CASE rest = ContextEnded
    BY <2>2, ListsAreThese, ListsInOrder
  <2>3. CASE rest = InputEnded
    BY <2>3, ListsAreThese, ListsInOrder
  <2> QED
    BY <2>1, <2>2, <2>3
<1>2. "handle" \in Threads
  BY DEF Threads
<1>3. /\ todo' \in [Threads -> Seq(Acts)] /\ todo'["handle"] = rest
      /\ \A h \in Threads : h # "handle" => todo'[h] = todo[h]
  BY <1>1, <1>2 DEF End, ListInv
<1>4. \A h \in Threads : Len(todo'[h]) <= 5 /\ InOrder(todo[h])'
  <2> SUFFICES ASSUME NEW h \in Threads PROVE Len(todo'[h]) <= 5 /\ InOrder(todo[h])'
    OBVIOUS
  <2>1. ctxDone' = ctxDone /\ transport' = transport
    BY DEF ending
  <2>2. CASE h = "handle"
    BY <1>1, <1>3, <2>1, <2>2 DEF InOrder
  <2>3. CASE h # "handle"
    BY <1>3, <2>1, <2>3 DEF ListInv, InOrder
  <2> QED
    BY <2>2, <2>3
<1> QED
  BY <1>1, <1>3, <1>4 DEF ListInv, Do

LEMMA HandleKeeps ==
  ASSUME ListInv, SignalsInv, handle
  PROVE  ListInv' /\ SignalsInv'
<1>0. UNCHANGED ending /\ panicked' # "close of closed channel"
  BY DEF SignalsInv, handle, Select, ReadItem, ReadEnd, ReadFails, Check, Deliver, DeliverPanics
<1>1. UNCHANGED todo \/ \E rest \in {<<>>, ContextEnded, InputEnded} : End(rest)
  BY DEF handle, Select, ReadItem, ReadEnd, ReadFails, Check, Deliver, DeliverPanics
<1>2. CASE UNCHANGED todo
  BY <1>0, <1>2 DEF ListInv, InOrder, SignalsInv, Do, ending, signals
<1>3. CASE \E rest \in {<<>>, ContextEnded, InputEnded} : End(rest)
  <2>1. /\ ListInv'
        /\ \A h \in Threads : h # "handle" => todo'[h] = todo[h]
        /\ ~ Do("handle", "done")' /\ ~ Do("handle", "channels")'
    BY <1>0, <1>3, EndsInOrder
  <2> QED
    BY <1>0, <2>1 DEF SignalsInv, Do, ending, signals
<1> QED
  BY <1>1, <1>2, <1>3

LEMMA NewConnKeeps ==
  ASSUME ListInv, SignalsInv, NewConn
  PROVE  ListInv' /\ SignalsInv'
<1>0. UNCHANGED ending /\ UNCHANGED panicked
  BY DEF NewConn, WriteHeader, ReadHeader, ReadHeaderFails
<1>1. CASE ReadHeader
  <2>1. \A g \in Threads : todo'[g] \in {<<>>, Close, watchEnd}
    BY <1>1 DEF ReadHeader, Threads
  <2>2. todo' \in [Threads -> {<<>>, Close, watchEnd}]
    BY <1>1, <2>1 DEF ReadHeader
  <2>3. ASSUME NEW l \in {<<>>, Close, watchEnd}
        PROVE  /\ l \in Seq(Acts) /\ Len(l) <= 5 /\ InOrder(l)
               /\ l # <<>> => Head(l) \in {"cancel", "wait"}
    <3>1. CASE l = <<>>
      BY <3>1, ListsAreThese, ListsInOrder
    <3>2. CASE l = Close
      BY <3>2, ListsAreThese, ListsInOrder
    <3>3. CASE l = watchEnd
      BY <3>3, ListsAreThese, ListsInOrder
    <3> QED
      BY <3>1, <3>2, <3>3
  <2>4. todo' \in [Threads -> Seq(Acts)]
    BY <2>2, <2>3
  <2>5. \A g \in Threads : Len(todo'[g]) <= 5 /\ InOrder(todo[g])'
    BY <1>0, <2>1, <2>3 DEF InOrder, ending
  <2>6. \A g \in Threads : ~ Do(g, "done")' /\ ~ Do(g, "channels")'
    BY <2>1, <2>3 DEF Do
  <2> QED
    BY <1>0, <2>4, <2>5, <2>6 DEF ListInv, SignalsInv, ending, signals
<1>2. CASE UNCHANGED todo
  BY <1>0, <1>2 DEF ListInv, InOrder, SignalsInv, Do, ending, signals
<1> QED
  BY <1>1, <1>2 DEF NewConn, WriteHeader, ReadHeaderFails

\* Nobody else touches the lists or the signals.
LEMMA SurroundingsKeep ==
  ASSUME ListInv, SignalsInv,
         Receive \/ ParentCancels \/ PeerSendsHeader \/ PeerEnds \/ UNCHANGED vars
  PROVE  ListInv' /\ SignalsInv'
<1>1. /\ UNCHANGED <<transport, closed, done, messagesClosed, todo, panicked>>
      /\ ctxDone => ctxDone'
  BY DEF Receive, ParentCancels, PeerSendsHeader, PeerEnds, vars, ending, signals
<1> QED
  BY <1>1 DEF ListInv, InOrder, SignalsInv, Do

\* The channel of messages never holds more than its capacity.
NumbersOK == buffered \in Buffers /\ queue \in 0..buffered /\ reads \in 0..MaxReads

LEMMA NumbersKeep == NumbersOK /\ [Next]_vars => NumbersOK'
<1> SUFFICES ASSUME NumbersOK, [Next]_vars PROVE NumbersOK'
  OBVIOUS
<1>1. buffered' = buffered
  <2>1. ASSUME NEW g \in Threads, EndStep(g) PROVE buffered' = buffered
    BY <2>1 DEF EndStep, Wait, Cancel, Shut, FireClosed, FireReadDone, IfClosed, FireDone, CloseChannels,
                outside
  <2>2. NewConn \/ handle => buffered' = buffered
    BY DEF NewConn, WriteHeader, ReadHeader, ReadHeaderFails, handle, Select, ReadItem, ReadEnd,
           ReadFails, Check, Deliver, DeliverPanics, outside
  <2>3. Receive \/ ParentCancels \/ PeerSendsHeader \/ PeerEnds \/ UNCHANGED vars => buffered' = buffered
    BY DEF Receive, ParentCancels, PeerSendsHeader, PeerEnds, vars, outside
  <2> QED
    BY <2>1, <2>2, <2>3 DEF Next, Over
<1>2. queue' = queue \/ (queue < buffered /\ queue' = queue + 1) \/ (queue > 0 /\ queue' = queue - 1)
  <2>1. ASSUME NEW g \in Threads, EndStep(g) PROVE queue' = queue
    BY <2>1 DEF EndStep, Wait, Cancel, Shut, FireClosed, FireReadDone, IfClosed, FireDone, CloseChannels
  <2>2. handle => queue' = queue \/ (queue < buffered /\ queue' = queue + 1)
    BY DEF handle, Select, ReadItem, ReadEnd, ReadFails, Check, Deliver, DeliverPanics
  <2>3. Receive => queue' = queue \/ (queue > 0 /\ queue' = queue - 1)
    BY DEF Receive
  <2>4. NewConn \/ ParentCancels \/ PeerSendsHeader \/ PeerEnds \/ UNCHANGED vars => queue' = queue
    BY DEF NewConn, WriteHeader, ReadHeader, ReadHeaderFails, ParentCancels, PeerSendsHeader, PeerEnds, vars
  <2> QED
    BY <2>1, <2>2, <2>3, <2>4 DEF Next, Over
<1>3. reads' = reads \/ (reads < MaxReads /\ reads' = reads + 1)
  <2>1. ASSUME NEW g \in Threads, EndStep(g) PROVE reads' = reads
    BY <2>1 DEF EndStep, Wait, Cancel, Shut, FireClosed, FireReadDone, IfClosed, FireDone, CloseChannels
  <2>2. handle => reads' = reads \/ (reads < MaxReads /\ reads' = reads + 1)
    BY DEF handle, Select, ReadItem, ReadEnd, ReadFails, Check, Deliver, DeliverPanics
  <2>3. NewConn \/ Receive \/ ParentCancels \/ PeerSendsHeader \/ PeerEnds \/ UNCHANGED vars => reads' = reads
    BY DEF NewConn, WriteHeader, ReadHeader, ReadHeaderFails, Receive, ParentCancels, PeerSendsHeader,
           PeerEnds, vars
  <2> QED
    BY <2>1, <2>2, <2>3 DEF Next, Over
<1>4. /\ buffered \in Nat /\ MaxReads \in Nat /\ buffered \in Buffers
      /\ queue \in 0..buffered /\ reads \in 0..MaxReads
  BY ConnAssumption DEF NumbersOK
<1>5. queue' \in 0..buffered
  BY <1>2, <1>4
<1>6. reads' \in 0..MaxReads
  BY <1>3, <1>4
<1> QED
  BY <1>1, <1>4, <1>5, <1>6 DEF NumbersOK

LEMMA FlatKeeps == FlatOK /\ [Next]_vars => FlatOK'
<1> SUFFICES ASSUME FlatOK, [Next]_vars PROVE FlatOK'
  OBVIOUS
<1>1. NumbersOK'
  <2>1. NumbersOK
    BY DEF FlatOK, NumbersOK
  <2> QED
    BY <2>1, NumbersKeep
<1> DEFINE Rest ==
      /\ ctxDone \in BOOLEAN
      /\ transport \in {"open", "closed"}
      /\ header \in BOOLEAN
      /\ peer \in {"sending", "gone", "broken"}
      /\ readDone \in BOOLEAN /\ closed \in BOOLEAN /\ done \in BOOLEAN
      /\ messagesClosed \in BOOLEAN
      /\ at \in NewConnAt \cup {"failed", "select", "read", "check", "deliver", "ending"}
      /\ panicked \in {"no", "read error", "send on closed channel", "close of closed channel"}
<1>2. Rest
  BY DEF FlatOK
<1>3. ASSUME NEW g \in Threads, EndStep(g) PROVE Rest'
  <2>1. CASE Wait(g) \/ IfClosed(g)
    BY ZenonT(60), <1>2, <2>1 DEF Wait, IfClosed, ending, signals, outside
  <2>2. CASE Cancel(g) \/ Shut(g)
    BY <1>2, <2>2 DEF Cancel, Shut, signals, outside
  <2>3. CASE FireClosed(g) \/ FireReadDone(g)
    BY <1>2, <2>3 DEF FireClosed, FireReadDone, outside
  <2>4. CASE FireDone(g)
    <3>1. ctxDone' \in BOOLEAN /\ done' \in BOOLEAN
      BY <2>4 DEF FireDone
    <3> QED
      BY <1>2, <2>4, <3>1 DEF FireDone, outside
  <2>5. CASE CloseChannels(g)
    BY ZenonT(60), <1>2, <2>5 DEF CloseChannels, signals, outside
  <2> QED
    BY <1>3, <2>1, <2>2, <2>3, <2>4, <2>5 DEF EndStep
<1>4. ASSUME handle PROVE Rest'
  BY ZenonT(60), <1>2, <1>4 DEF handle, Select, ReadItem, ReadEnd, ReadFails, Check, Deliver, DeliverPanics, End, ending,
                    signals, outside
<1>5. ASSUME NewConn \/ Receive PROVE Rest'
  <2>1. CASE NewConn
    BY <1>2, <2>1 DEF NewConn, WriteHeader, ReadHeader, ReadHeaderFails, NewConnAt, ending, signals,
                      outside
  <2>2. CASE Receive
    BY ZenonT(60), <1>2, <2>2 DEF Receive, ending, signals, outside
  <2> QED
    BY <1>5, <2>1, <2>2
<1>6. ASSUME ParentCancels \/ PeerSendsHeader \/ PeerEnds \/ UNCHANGED vars PROVE Rest'
  BY ZenonT(60), <1>2, <1>6 DEF ParentCancels, PeerSendsHeader, PeerEnds, vars, ending, signals, outside
<1>7. Rest'
  BY <1>3, <1>4, <1>5, <1>6 DEF Next, Over
<1> QED
  BY <1>1, <1>7 DEF FlatOK, NumbersOK

LEMMA ConnInit == Init => ConnInv
<1> SUFFICES ASSUME Init PROVE ConnInv
  OBVIOUS
<1>1. FlatOK
  <2>1. buffered \in Nat /\ queue \in 0..buffered /\ reads \in 0..MaxReads
    BY ConnAssumption DEF Init
  <2> QED
    BY <2>1 DEF Init, FlatOK, NewConnAt
<1>2. ListInv
  BY ListsAreThese, ListsInOrder DEF Init, ListInv
<1>3. SignalsInv
  BY DEF Init, SignalsInv, Do
<1> QED
  BY <1>1, <1>2, <1>3 DEF ConnInv

LEMMA ConnNext == ConnInv /\ [Next]_vars => ConnInv'
<1> SUFFICES ASSUME ConnInv, [Next]_vars PROVE ConnInv'
  OBVIOUS
<1>1. FlatOK /\ ListInv /\ SignalsInv
  BY DEF ConnInv
<1>2. ListInv' /\ SignalsInv'
  BY <1>1, EndKeeps, HandleKeeps, NewConnKeeps, SurroundingsKeep DEF Next, Over
<1> QED
  BY <1>1, <1>2, FlatKeeps DEF ConnInv

LEMMA ConnInvariant == Spec => []ConnInv
BY ConnInit, ConnNext, PTL DEF Spec

\* Every variable keeps its type: the channel of messages holds no more than its
\* capacity, and no goroutine has more to do than the five steps it started with.
THEOREM ConnTypeCorrect == Spec => []TypeOK
<1>1. ConnInv => TypeOK
  BY DEF ConnInv, FlatOK, ListInv, TypeOK
<1> QED
  BY <1>1, ConnInvariant, PTL

\* However many goroutines call Close, and however they, watchEnd and handle
\* interleave: the channels of the application are closed once at most, and only
\* when the connection was closed, its transport shut and its context cancelled.
THEOREM ChannelsAreClosedLast == Spec => []ChannelsCloseLast
<1>1. ConnInv => ChannelsCloseLast
  BY DEF ConnInv, SignalsInv, ChannelsCloseLast
<1> QED
  BY <1>1, ConnInvariant, PTL

===============================================================================
