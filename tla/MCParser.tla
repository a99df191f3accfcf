------------------------------- MODULE MCParser -------------------------------
(* Small instances of Parser: peers that send three messages over two      *)
(* channels, with numbers around the limits of their encodings.            *)
EXTENDS Parser

CONSTANTS m1, m2, m3

\* What a channel count can be, around the limits of its encodings.
Counts == {1, 2, 16, 17, 255, 257, 4095, 4096}

\* The channels used: the first and the last of what the peer may use.
UsedChannels == {0} \cup {n - 1 : n \in Counts \cup {256}}

Packet(kind, c, m, size) ==
  [kind |-> kind, channel |-> c, of |-> m, size |-> size, data |-> 0, stream |-> FALSE]

\* One message with data and a stream, whose parts come in any order, and
\* another one with data after it.
LastChannel(c, s) ==
  LET parts == {<<"data", "chunk", "end">>, <<"chunk", "data", "end">>, <<"chunk", "end", "data">>}
      Size(kind) == CASE kind = "data" -> s.data [] kind = "chunk" -> s.chunk [] OTHER -> 0
  IN  {<<[Packet("message", c, m1, s.action) EXCEPT !.data = s.data, !.stream = TRUE]>>
         \o [i \in 1..3 |-> Packet(order[i], c, m1, Size(order[i]))]
         \o <<[Packet("message", c, m3, s.next) EXCEPT !.data = 1], Packet("data", c, m3, 1)>>
       : order \in parts}

FirstChannel(s) ==
  <<[Packet("message", 0, m2, s.next) EXCEPT !.data = 17], Packet("data", 0, m2, 17)>>

\* All of `two` among the packets of `many`, in the order of both.
Mixed(many, two) ==
  {SubSeq(many, 1, i) \o <<two[1]>> \o SubSeq(many, i + 1, j) \o <<two[2]>>
     \o SubSeq(many, j + 1, Len(many)) : <<i, j>> \in {p \in (0..6) \X (0..6) : p[1] <= p[2]}}

Options(channels, write, buffer, packets) ==
  [channels |-> channels, write |-> write, peerChannels |-> channels, peerWrite |-> write,
   buffer |-> buffer, packets |-> packets]

\* The last channel a peer may use.
HighestChannel(write, channels) == WriteChannels(write, channels) - 1

Small == [action |-> 5, next |-> 17, data |-> 20, chunk |-> 18]

\* Sizes around the limits of their encodings, with the buffers to read them.
Sizes ==
  {[action |-> n, next |-> 17, data |-> n, chunk |-> n, buffer |-> 4096] : n \in {255, 256}}
    \cup {[action |-> n, next |-> 237, data |-> 65536, chunk |-> 0, buffer |-> 65537] : n \in {16, 236}}
    \cup {[action |-> 65535, next |-> 1, data |-> 65535, chunk |-> 65536, buffer |-> 4096]}
    \cup {[action |-> 1, next |-> 1, data |-> 1, chunk |-> MaxUint24 + 1, buffer |-> 4096]}
    \cup {[action |-> 1, next |-> 1, data |-> n, chunk |-> 1, buffer |-> 4194304]
          : n \in {MaxUint24, MaxUint24 + 1}}

\* One order of them all; with one channel, the messages one after the other.
Packets(write, channels, s) ==
  LET c == HighestChannel(write, channels)
      two == FirstChannel(s)
      From(many, i, j) == SubSeq(many, i, j)
  IN  {IF c = 0 THEN From(many, 1, 4) \o two \o From(many, 5, 6)
       ELSE From(many, 1, 2) \o <<two[1]>> \o From(many, 3, 5) \o <<two[2]>> \o From(many, 6, 6)
       : many \in {CHOOSE some \in LastChannel(c, s) : some[2].kind = "chunk"}}

\* Every order with small sizes, every count of channels, every size.
SomeSetups ==
  {Options(4096, 2, 16, packets)
     : packets \in UNION {Mixed(many, FirstChannel(Small)) : many \in LastChannel(1, Small)}}
    \cup UNION {{Options(n, w, 4096, packets) : packets \in Packets(w, n, Small)}
                : n \in Counts, w \in Counts \cup {256}}
    \cup UNION {{Options(4096, 4096, s.buffer, packets) : packets \in Packets(4096, 4096, s)}
                : s \in Sizes}
    \cup {Options(4096, 4096, 4096, <<[Packet("message", 0, m1, 1) EXCEPT !.stream = TRUE],
                                      Packet("fastReply", 0, m1, 17), Packet("end", 0, m1, 0)>>)}

\* The count that is announced as 0.
Setups256 == {Options(256, 4096, 4096, packets) : packets \in Packets(4096, 256, Small)}
=============================================================================
