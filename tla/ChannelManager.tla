--------------------------- MODULE ChannelManager ---------------------------
(***************************************************************************)
(* The channel manager of channel_manager.go: which of the multiplexed     *)
(* channels are reserved, and which one the wire is switched to.           *)
(*                                                                         *)
(* The writer calls everything here except Release with its channeledMu    *)
(* held, so one search (the loop variable i of Reserve and GetFree) exists *)
(* at a time; Release runs without a lock and can hit between two steps of *)
(* a search.                                                               *)
(*                                                                         *)
(* The field `released` is declared but never made, so it is a nil         *)
(* channel: the send in Release always takes its default branch, and the   *)
(* receive after an unsuccessful search never completes.  A search that    *)
(* has tried every channel therefore has no further step.                  *)
(***************************************************************************)
EXTENDS Integers

CONSTANT channelsCount        \* number of channels, 1..4096 in the code

\* validateChannelsCount, checked by NewChannelManager.
ASSUME ChannelsCountAssumption == channelsCount \in Nat \ {0}

ChannelID == 0..(channelsCount - 1)

VARIABLES
  current,    \* the channel the writer believes the wire is switched to
  locks,      \* 1 for a reserved channel, 0 for a free one
  scanned     \* loop variable of the running Reserve or GetFree

channelVars == <<current, locks, scanned>>

ChannelManagerInit ==
  /\ current = 0
  /\ locks = [c \in ChannelID |-> 0]
  /\ scanned = 0

\* Mutant: the remainder leaves out the last channel.
CandidateSkipsLast(i) == IF channelsCount = 1 THEN 0 ELSE (current + i) % (channelsCount - 1)

\* The channel tried in the i-th round of a search.
Candidate(i) == (current + i) % channelsCount

\* Mutant: one round more than there are channels.
SearchingTooFar == scanned <= channelsCount

\* A search still has a channel to try.
Searching == scanned < channelsCount

isTemporarilyFree(channel) == locks[channel] = 0

\* Mutant: the lock is stored without a comparison.
obtainLockBlindly(channel) == locks' = [locks EXCEPT ![channel] = 1]

\* The compare-and-swap of a Reserve that succeeds.
obtainLock(channel) ==
  /\ isTemporarilyFree(channel)
  /\ locks' = [locks EXCEPT ![channel] = 1]

\* A round of Reserve or GetFree that finds its channel reserved.
TryNext ==
  /\ Searching
  /\ ~ isTemporarilyFree(Candidate(scanned))
  /\ scanned' = scanned + 1
  /\ UNCHANGED <<current, locks>>

\* The round of Reserve that returns `channel`.
Reserve(channel) ==
  /\ Searching
  /\ channel = Candidate(scanned)
  /\ obtainLock(channel)
  /\ scanned' = 0
  /\ UNCHANGED current

\* The round of GetFree that returns `channel`, which stays unreserved.
GetFree(channel) ==
  /\ Searching
  /\ channel = Candidate(scanned)
  /\ isTemporarilyFree(channel)
  /\ scanned' = 0
  /\ UNCHANGED <<current, locks>>

\* Mutant: the channel is not remembered.
SetCurrentForgets(channel) == UNCHANGED <<current, locks, scanned>>

SetCurrent(channel) ==
  /\ current' = channel
  /\ UNCHANGED <<locks, scanned>>

Release(channel) ==
  /\ locks' = [locks EXCEPT ![channel] = 0]
  /\ UNCHANGED <<current, scanned>>
=============================================================================
