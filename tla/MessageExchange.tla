--------------------------- MODULE MessageExchange ---------------------------
(***************************************************************************)
(* What a user of the connection may rely on, without channels, locks and  *)
(* goroutines: the peer is given every message in parts of its own, the    *)
(* Message packet before anything else, the data once, the chunks of the   *)
(* stream before its end and nothing of the stream after it; and `send`    *)
(* reports success only when the message is complete at the peer.          *)
(*                                                                         *)
(* Drafts are message drafts as in MessageDraft; got is what ParserChannel *)
(* has given to each message.                                              *)
(***************************************************************************)
EXTENDS Sequences, SequencesExt

CONSTANTS Messages, Drafts

VARIABLES
  draft,     \* what each message consists of
  got,       \* the parts of each message the peer was given
  result     \* "none" while it is sent, then "nil" or "error"

Part(m, kind) == [of |-> m, kind |-> kind]

Has(m, kind) == Contains(got[m], Part(m, kind))

Init ==
  /\ draft \in [Messages -> Drafts]
  /\ got = [m \in Messages |-> <<>>]
  /\ result = [m \in Messages |-> "none"]

\* The part may come next at the peer.
Due(m, kind) ==
  CASE kind = "message" -> got[m] = <<>>
    [] kind = "data" -> draft[m].data /\ Has(m, "message") /\ ~ Has(m, "data")
    [] kind = "chunk" -> /\ draft[m].stream = "requested"
                         /\ Has(m, "message")
                         /\ ~ Has(m, "end")
    [] kind = "end" -> /\ draft[m].stream # "none"
                       /\ Has(m, "message")
                       /\ ~ Has(m, "end")

\* Nothing of the message is missing at the peer.
Complete(m) ==
  /\ Has(m, "message")
  /\ draft[m].data => Has(m, "data")
  /\ draft[m].stream # "none" => Has(m, "end")

Give(m, kind) ==
  /\ result[m] = "none"
  /\ Due(m, kind)
  /\ got' = [got EXCEPT ![m] = Append(@, Part(m, kind))]
  /\ UNCHANGED <<draft, result>>

Succeed(m) ==
  /\ result[m] = "none"
  /\ Complete(m)
  /\ result' = [result EXCEPT ![m] = "nil"]
  /\ UNCHANGED <<draft, got>>

Fail(m) ==
  /\ result[m] = "none"
  /\ result' = [result EXCEPT ![m] = "error"]
  /\ UNCHANGED <<draft, got>>

Next ==
  \E m \in Messages :
    \/ \E kind \in {"message", "data", "chunk", "end"} : Give(m, kind)
    \/ Succeed(m)
    \/ Fail(m)

Spec == Init /\ [][Next]_<<draft, got, result>>
=============================================================================
