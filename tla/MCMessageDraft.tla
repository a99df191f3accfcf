--------------------------- MODULE MCMessageDraft ---------------------------
(* Small instances of MessageDraft.                                        *)
EXTENDS MessageDraft

SomeRoles == {"main", "data"} \cup Users

\* A message with data and a stream has two goroutines of `send` that share
\* err; these drafts have at most one.
OnePartDrafts == {d \in AllDrafts : ~ d.data \/ d.stream = "none"}
=============================================================================
