---------------------------- MODULE WriterProofs ----------------------------
(***************************************************************************)
(* What holds of the writer for every number of channels, callers and      *)
(* goroutines, whether its target may break or not.                        *)
(*                                                                         *)
(* Inv is inductive.  ExclusiveReservation needs to know which call of a   *)
(* caller is about to change its channel (CallInv, AloneInv);              *)
(* PacketOnRightChannel needs in addition that `current` is what the wire  *)
(* is switched to whenever nobody is in the middle of switching it         *)
(* (WireInv), that the mutexes exclude (LockInv), and that a channel found *)
(* free by Write stays free while Write holds channeledMu (FreeInv).       *)
(***************************************************************************)
EXTENDS Writer, TLAPS

\* Where a goroutine holds channeledMu.
InChanneled == {"search", "select", "switch", "packet", "payload"}

\* A goroutine that is to write, or to release, has a channel to do it at.
ChannelInv ==
  \A g \in Goroutines :
    pc[g] \in {"select", "switch", "packet", "payload", "release"} => ch[g] # NoChannel

\* The mutexes are held by the goroutines inside them.
LockInv ==
  \A g \in Goroutines :
    /\ channeledMu = g <=> pc[g] \in InChanneled
    /\ writeMu = g <=> pc[g] \in {"switch", "packet"}

\* What the place and the channel of a call say about each other, and how both
\* relate to the channel the caller owns.
CallInv ==
  \A g \in Goroutines :
    /\ pc[g] = "idle" <=> op[g] = "None"
    /\ pc[g] = "standalone" <=> op[g] = "Standalone"
    /\ pc[g] = "payload" => op[g] = "External"
    /\ pc[g] = "search" => ch[g] = NoChannel
    /\ pc[g] = "release" => op[g] \in {"WriteAndObtain", "WriteAndRelease"}
    /\ op[g] \in AtOwnChannel => ch[g] # NoChannel /\ channel[Owner(g)] = ch[g]
    /\ op[g] \in {"Obtain", "WriteAndObtain"} => channel[Owner(g)] = ch[g]
    /\ op[g] = "Obtain" => ch[g] = NoChannel

\* A call that changes the channel of its caller is the only call of the caller
\* that concerns the channel.
AloneInv ==
  \A g, h \in Goroutines :
    g # h /\ Owner(g) = Owner(h) /\ op[g] \in ChangesOwner =>
      op[h] \in {"None", "Write", "Standalone"}

\* The channel that Write has found stays free.
FreeInv ==
  \A g \in Goroutines : op[g] = "Write" /\ ch[g] # NoChannel =>
    pc[g] \in {"select", "switch", "packet"} /\ locks[ch[g]] = 0

\* The wire is on the channel the writer takes for the current one, unless a
\* switch packet is due; a frame is open exactly while its data is due.
WireInv ==
  /\ "channeled" \notin torn
  /\ \A g \in Goroutines : pc[g] \in {"switch", "packet", "payload"} => current = ch[g]
  /\ ~ broken =>
       /\ (\A g \in Goroutines : pc[g] # "switch") => wireChannel = current
       /\ \A g \in Goroutines : wireFrame = g <=> pc[g] = "payload"

Inv ==
  /\ WriterTypeOK
  /\ ChannelInv
  /\ LockInv
  /\ CallInv
  /\ AloneInv
  /\ ExclusiveReservation
  /\ FreeInv
  /\ WireInv

LEMMA OwnerIsCaller == \A g \in Goroutines : Owner(g) \in Callers
BY DEF Goroutines, Owner

LEMMA NoChannelIsNone == NoChannel \notin ChannelID
BY ChannelsCountAssumption DEF NoChannel, ChannelID

-----------------------------------------------------------------------------
(* Inv is inductive: one lemma per step of the methods.                    *)

\* Taking channeledMu.
LEMMA LockChanneledKeeps ==
  ASSUME Inv, NEW g \in Goroutines, LockChanneled(g)
  PROVE  Inv'
<1> USE OwnerIsCaller, NoChannelIsNone, WriterAssumption
<1>1. WriterTypeOK'
  BY DEF Inv, WriterTypeOK, ChannelInv, PCs, Ops, LockChanneled,
    channelVars, wireVars
<1>2. (ChannelInv /\ CallInv /\ AloneInv)'
  BY DEF Inv, WriterTypeOK, ChannelInv, CallInv, AloneInv, LockInv,
    InChanneled, AtOwnChannel, ChangesOwner, LockChanneled, channelVars,
    wireVars
<1>3. LockInv'
  BY DEF Inv, WriterTypeOK, LockInv, InChanneled, CallInv, ChannelInv,
    LockChanneled, channelVars, wireVars
<1>4. (ExclusiveReservation /\ FreeInv)'
  BY DEF Inv, WriterTypeOK, ExclusiveReservation, FreeInv, CallInv,
    ChannelInv, AloneInv, LockInv, InChanneled, AtOwnChannel, ChangesOwner,
    LockChanneled, channelVars, wireVars
<1>5. WireInv'
  BY DEF Inv, WriterTypeOK, WireInv, LockInv, InChanneled, CallInv,
    ChannelInv, LockChanneled, channelVars, wireVars
<1> QED
  BY <1>1, <1>2, <1>3, <1>4, <1>5 DEF Inv

\* A round of a search that finds its channel reserved.
LEMMA SearchNextKeeps ==
  ASSUME Inv, NEW g \in Goroutines, SearchNext(g)
  PROVE  Inv'
<1> USE OwnerIsCaller, NoChannelIsNone, WriterAssumption
<1>1. WriterTypeOK'
  BY ChannelsCountAssumption DEF Inv, WriterTypeOK, ChannelInv, PCs, Ops,
    SearchNext, TryNext, Searching, callVars, wireVars
<1>2. (ChannelInv /\ CallInv /\ AloneInv)'
  BY DEF Inv, WriterTypeOK, ChannelInv, CallInv, AloneInv, LockInv,
    InChanneled, AtOwnChannel, ChangesOwner, SearchNext, TryNext, Searching,
    callVars, wireVars
<1>3. LockInv'
  BY DEF Inv, WriterTypeOK, LockInv, InChanneled, CallInv, ChannelInv,
    SearchNext, TryNext, Searching, callVars, wireVars
<1>4. (ExclusiveReservation /\ FreeInv)'
  BY DEF Inv, WriterTypeOK, ExclusiveReservation, FreeInv, CallInv,
    ChannelInv, AloneInv, LockInv, InChanneled, AtOwnChannel, ChangesOwner,
    SearchNext, TryNext, Searching, callVars, wireVars
<1>5. WireInv'
  BY DEF Inv, WriterTypeOK, WireInv, LockInv, InChanneled, CallInv,
    ChannelInv, SearchNext, TryNext, Searching, callVars, wireVars
<1> QED
  BY <1>1, <1>2, <1>3, <1>4, <1>5 DEF Inv

\* GetFree returns: the channel was free, and who could reserve it needs channeledMu.
LEMMA SearchFreeKeeps ==
  ASSUME Inv, NEW g \in Goroutines, SearchFree(g)
  PROVE  Inv'
<1> USE OwnerIsCaller, NoChannelIsNone, WriterAssumption
<1>1. WriterTypeOK'
  BY ChannelsCountAssumption DEF Inv, WriterTypeOK, ChannelInv, PCs, Ops,
    SearchFree, GetFree, isTemporarilyFree, wireVars
<1>2. (ChannelInv /\ CallInv /\ AloneInv)'
  BY DEF Inv, WriterTypeOK, ChannelInv, CallInv, AloneInv, LockInv,
    InChanneled, AtOwnChannel, ChangesOwner, SearchFree, GetFree,
    isTemporarilyFree, wireVars
<1>3. LockInv'
  BY DEF Inv, WriterTypeOK, LockInv, InChanneled, CallInv, ChannelInv,
    SearchFree, GetFree, isTemporarilyFree, wireVars
<1>4. (ExclusiveReservation /\ FreeInv)'
  BY DEF Inv, WriterTypeOK, ExclusiveReservation, FreeInv, CallInv,
    ChannelInv, AloneInv, LockInv, InChanneled, AtOwnChannel, ChangesOwner,
    SearchFree, GetFree, isTemporarilyFree, wireVars
<1>5. WireInv'
  BY DEF Inv, WriterTypeOK, WireInv, LockInv, InChanneled, CallInv,
    ChannelInv, SearchFree, GetFree, isTemporarilyFree, wireVars
<1> QED
  BY <1>1, <1>2, <1>3, <1>4, <1>5 DEF Inv

\* Reserve returns: the channel was free, so no caller owned it.
LEMMA SearchReserveKeeps ==
  ASSUME Inv, NEW g \in Goroutines, SearchReserve(g)
  PROVE  Inv'
<1> USE OwnerIsCaller, NoChannelIsNone, WriterAssumption
<1>1. WriterTypeOK'
  <2>1. PICK c \in ChannelID :
          /\ Reserve(c)
          /\ channel' = [channel EXCEPT ![Owner(g)] = c]
          /\ IF op[g] = "Obtain"
             THEN Finish(g, FALSE)
             ELSE /\ pc' = [pc EXCEPT ![g] = "lock"]
                  /\ ch' = [ch EXCEPT ![g] = c]
                  /\ UNCHANGED <<op, err>>
    BY DEF SearchReserve
  <2>2. /\ pc' \in [Goroutines -> PCs]
        /\ op' \in [Goroutines -> Ops]
        /\ err' \in [Goroutines -> BOOLEAN]
    BY <2>1 DEF Finish, Inv, WriterTypeOK, PCs, Ops
  <2>3. ch' \in [Goroutines -> ChannelID \cup {NoChannel}]
    BY <2>1 DEF Finish, Inv, WriterTypeOK
  <2>4. channel' \in [Callers -> ChannelID \cup {NoChannel}]
    BY <2>1 DEF Inv, WriterTypeOK
  <2>5. locks' \in [ChannelID -> {0, 1}] /\ scanned' \in 0..channelsCount
    BY <2>1, ChannelsCountAssumption DEF Reserve, obtainLock, Inv, WriterTypeOK
  <2> QED
    BY <2>1, <2>2, <2>3, <2>4, <2>5
    DEF SearchReserve, Reserve, Inv, WriterTypeOK, wireVars
<1>2. (ChannelInv /\ CallInv /\ AloneInv)'
  BY DEF Inv, WriterTypeOK, ChannelInv, CallInv, AloneInv, LockInv,
    InChanneled, AtOwnChannel, ChangesOwner, SearchReserve, Reserve,
    obtainLock, isTemporarilyFree, Finish, wireVars
<1>3. LockInv'
  BY DEF Inv, WriterTypeOK, LockInv, InChanneled, CallInv, ChannelInv,
    SearchReserve, Reserve, obtainLock, isTemporarilyFree, Finish, wireVars
<1>4. (ExclusiveReservation /\ FreeInv)'
  BY DEF Inv, WriterTypeOK, ExclusiveReservation, FreeInv, CallInv,
    ChannelInv, AloneInv, LockInv, InChanneled, AtOwnChannel, ChangesOwner,
    SearchReserve, Reserve, obtainLock, isTemporarilyFree, Finish, wireVars
<1>5. WireInv'
  BY DEF Inv, WriterTypeOK, WireInv, LockInv, InChanneled, CallInv,
    ChannelInv, SearchReserve, Reserve, obtainLock, isTemporarilyFree,
    Finish, wireVars
<1> QED
  BY <1>1, <1>2, <1>3, <1>4, <1>5 DEF Inv

\* The switch to another channel is decided on.
LEMMA SelectKeeps ==
  ASSUME Inv, NEW g \in Goroutines, Select(g)
  PROVE  Inv'
<1> USE OwnerIsCaller, NoChannelIsNone, WriterAssumption
<1>1. WriterTypeOK'
  BY DEF Inv, WriterTypeOK, ChannelInv, PCs, Ops, Select, SetCurrent,
    wireVars
<1>2. (ChannelInv /\ CallInv /\ AloneInv)'
  BY DEF Inv, WriterTypeOK, ChannelInv, CallInv, AloneInv, LockInv,
    InChanneled, AtOwnChannel, ChangesOwner, Select, SetCurrent, wireVars
<1>3. LockInv'
  BY DEF Inv, WriterTypeOK, LockInv, InChanneled, CallInv, ChannelInv,
    Select, SetCurrent, wireVars
<1>4. (ExclusiveReservation /\ FreeInv)'
  BY DEF Inv, WriterTypeOK, ExclusiveReservation, FreeInv, CallInv,
    ChannelInv, AloneInv, LockInv, InChanneled, AtOwnChannel, ChangesOwner,
    Select, SetCurrent, wireVars
<1>5. WireInv'
  BY DEF Inv, WriterTypeOK, WireInv, LockInv, InChanneled, CallInv,
    ChannelInv, Select, SetCurrent, wireVars
<1> QED
  BY <1>1, <1>2, <1>3, <1>4, <1>5 DEF Inv

\* The switch packet is written.
LEMMA WriteSwitchKeeps ==
  ASSUME Inv, NEW g \in Goroutines, WriteSwitch(g)
  PROVE  Inv'
<1> USE OwnerIsCaller, NoChannelIsNone, WriterAssumption
<1>1. WriterTypeOK'
  BY DEF Inv, WriterTypeOK, ChannelInv, PCs, Ops, WriteSwitch, Land,
    channelVars
<1>2. (ChannelInv /\ CallInv /\ AloneInv)'
  BY DEF Inv, WriterTypeOK, ChannelInv, CallInv, AloneInv, LockInv,
    InChanneled, AtOwnChannel, ChangesOwner, WriteSwitch, Land, channelVars
<1>3. LockInv'
  BY DEF Inv, WriterTypeOK, LockInv, InChanneled, CallInv, ChannelInv,
    WriteSwitch, Land, channelVars
<1>4. (ExclusiveReservation /\ FreeInv)'
  BY DEF Inv, WriterTypeOK, ExclusiveReservation, FreeInv, CallInv,
    ChannelInv, AloneInv, LockInv, InChanneled, AtOwnChannel, ChangesOwner,
    WriteSwitch, Land, channelVars
<1>5. WireInv'
  BY DEF Inv, WriterTypeOK, WireInv, LockInv, InChanneled, CallInv,
    ChannelInv, WriteSwitch, Land, channelVars
<1> QED
  BY <1>1, <1>2, <1>3, <1>4, <1>5 DEF Inv

\* A packet or a frame header is written.
LEMMA WritePacketKeeps ==
  ASSUME Inv, NEW g \in Goroutines, WritePacket(g)
  PROVE  Inv'
<1> USE OwnerIsCaller, NoChannelIsNone, WriterAssumption
<1>1. WriterTypeOK'
  BY DEF Inv, WriterTypeOK, ChannelInv, PCs, Ops, WritePacket, Land,
    FinishWrite, Finish, channelVars
<1>2. (ChannelInv /\ CallInv /\ AloneInv)'
  BY DEF Inv, WriterTypeOK, ChannelInv, CallInv, AloneInv, LockInv,
    InChanneled, AtOwnChannel, ChangesOwner, WritePacket, Land, FinishWrite,
    Finish, channelVars
<1>3. LockInv'
  BY DEF Inv, WriterTypeOK, LockInv, InChanneled, CallInv, ChannelInv,
    WritePacket, Land, FinishWrite, Finish, channelVars
<1>4. (ExclusiveReservation /\ FreeInv)'
  BY DEF Inv, WriterTypeOK, ExclusiveReservation, FreeInv, CallInv,
    ChannelInv, AloneInv, LockInv, InChanneled, AtOwnChannel, ChangesOwner,
    WritePacket, Land, FinishWrite, Finish, channelVars
<1>5. WireInv'
  BY DEF Inv, WriterTypeOK, WireInv, LockInv, InChanneled, CallInv,
    ChannelInv, WritePacket, Land, FinishWrite, Finish, channelVars
<1> QED
  BY <1>1, <1>2, <1>3, <1>4, <1>5 DEF Inv

\* The data of a frame is written.
LEMMA WritePayloadKeeps ==
  ASSUME Inv, NEW g \in Goroutines, WritePayload(g)
  PROVE  Inv'
<1> USE OwnerIsCaller, NoChannelIsNone, WriterAssumption
<1>1. WriterTypeOK'
  BY DEF Inv, WriterTypeOK, ChannelInv, PCs, Ops, WritePayload, FinishWrite,
    Finish, channelVars
<1>2. (ChannelInv /\ CallInv /\ AloneInv)'
  BY DEF Inv, WriterTypeOK, ChannelInv, CallInv, AloneInv, LockInv,
    InChanneled, AtOwnChannel, ChangesOwner, WritePayload, FinishWrite,
    Finish, channelVars
<1>3. LockInv'
  BY DEF Inv, WriterTypeOK, LockInv, InChanneled, CallInv, ChannelInv,
    WritePayload, FinishWrite, Finish, channelVars
<1>4. (ExclusiveReservation /\ FreeInv)'
  BY DEF Inv, WriterTypeOK, ExclusiveReservation, FreeInv, CallInv,
    ChannelInv, AloneInv, LockInv, InChanneled, AtOwnChannel, ChangesOwner,
    WritePayload, FinishWrite, Finish, channelVars
<1>5. WireInv'
  BY DEF Inv, WriterTypeOK, WireInv, LockInv, InChanneled, CallInv,
    ChannelInv, WritePayload, FinishWrite, Finish, channelVars
<1> QED
  BY <1>1, <1>2, <1>3, <1>4, <1>5 DEF Inv

\* A Write of the target fails.
LEMMA WriteFailsKeeps ==
  ASSUME Inv, NEW g \in Goroutines, WriteFails(g)
  PROVE  Inv'
<1> USE OwnerIsCaller, NoChannelIsNone, WriterAssumption
<1>1. WriterTypeOK'
  BY DEF Inv, WriterTypeOK, ChannelInv, PCs, Ops, WriteFails, FinishWrite,
    Finish, channelVars, wireVars
<1>2. (ChannelInv /\ CallInv /\ AloneInv)'
  BY DEF Inv, WriterTypeOK, ChannelInv, CallInv, AloneInv, LockInv,
    InChanneled, AtOwnChannel, ChangesOwner, WriteFails, FinishWrite,
    Finish, channelVars, wireVars
<1>3. LockInv'
  BY DEF Inv, WriterTypeOK, LockInv, InChanneled, CallInv, ChannelInv,
    WriteFails, FinishWrite, Finish, channelVars, wireVars
<1>4. (ExclusiveReservation /\ FreeInv)'
  BY DEF Inv, WriterTypeOK, ExclusiveReservation, FreeInv, CallInv,
    ChannelInv, AloneInv, LockInv, InChanneled, AtOwnChannel, ChangesOwner,
    WriteFails, FinishWrite, Finish, channelVars, wireVars
<1>5. WireInv'
  BY DEF Inv, WriterTypeOK, WireInv, LockInv, InChanneled, CallInv,
    ChannelInv, WriteFails, FinishWrite, Finish, channelVars, wireVars
<1> QED
  BY <1>1, <1>2, <1>3, <1>4, <1>5 DEF Inv

\* A standalone packet is written.
LEMMA WriteStandaloneKeeps ==
  ASSUME Inv, NEW g \in Goroutines, WriteStandalone(g)
  PROVE  Inv'
<1> USE OwnerIsCaller, NoChannelIsNone, WriterAssumption
<1>1. WriterTypeOK'
  BY DEF Inv, WriterTypeOK, ChannelInv, PCs, Ops, WriteStandalone, Land,
    Finish, channelVars
<1>2. (ChannelInv /\ CallInv /\ AloneInv)'
  BY DEF Inv, WriterTypeOK, ChannelInv, CallInv, AloneInv, LockInv,
    InChanneled, AtOwnChannel, ChangesOwner, WriteStandalone, Land, Finish,
    channelVars
<1>3. LockInv'
  BY DEF Inv, WriterTypeOK, LockInv, InChanneled, CallInv, ChannelInv,
    WriteStandalone, Land, Finish, channelVars
<1>4. (ExclusiveReservation /\ FreeInv)'
  BY DEF Inv, WriterTypeOK, ExclusiveReservation, FreeInv, CallInv,
    ChannelInv, AloneInv, LockInv, InChanneled, AtOwnChannel, ChangesOwner,
    WriteStandalone, Land, Finish, channelVars
<1>5. WireInv'
  BY DEF Inv, WriterTypeOK, WireInv, LockInv, InChanneled, CallInv,
    ChannelInv, WriteStandalone, Land, Finish, channelVars
<1> QED
  BY <1>1, <1>2, <1>3, <1>4, <1>5 DEF Inv

\* A method releases the channel of its caller, who has no other call at it.
LEMMA ReleaseOwnKeeps ==
  ASSUME Inv, NEW g \in Goroutines, ReleaseOwn(g)
  PROVE  Inv'
<1> USE OwnerIsCaller, NoChannelIsNone, WriterAssumption
<1>1. WriterTypeOK'
  BY DEF Inv, WriterTypeOK, ChannelInv, PCs, Ops, ReleaseOwn, Release,
    Finish, wireVars
<1>2. (ChannelInv /\ CallInv /\ AloneInv)'
  BY DEF Inv, WriterTypeOK, ChannelInv, CallInv, AloneInv, LockInv,
    InChanneled, AtOwnChannel, ChangesOwner, ReleaseOwn, Release, Finish,
    wireVars
<1>3. LockInv'
  BY DEF Inv, WriterTypeOK, LockInv, InChanneled, CallInv, ChannelInv,
    ReleaseOwn, Release, Finish, wireVars
<1>4. (ExclusiveReservation /\ FreeInv)'
  BY DEF Inv, WriterTypeOK, ExclusiveReservation, FreeInv, CallInv,
    ChannelInv, AloneInv, LockInv, InChanneled, AtOwnChannel, ChangesOwner,
    ReleaseOwn, Release, Finish, wireVars
<1>5. WireInv'
  BY DEF Inv, WriterTypeOK, WireInv, LockInv, InChanneled, CallInv,
    ChannelInv, ReleaseOwn, Release, Finish, wireVars
<1> QED
  BY <1>1, <1>2, <1>3, <1>4, <1>5 DEF Inv

-----------------------------------------------------------------------------
(* Steps of the callers, and of the target.                                *)

\* A call that keeps the contract: at the channel its caller owns, or at none;
\* one that changes the channel while no other call concerns it, the others not
\* while one that changes it goes on.
LEMMA CallKeeps ==
  ASSUME Inv, NEW g \in Goroutines, NEW o \in Ops \ {"None"},
         NEW c \in ChannelID \cup {NoChannel}, Call(g, o, c),
         o \in AtOwnChannel => c # NoChannel /\ channel[Owner(g)] = c,
         o \notin AtOwnChannel => c = NoChannel,
         o \in {"Obtain", "WriteAndObtain"} => channel[Owner(g)] = NoChannel,
         o \in ChangesOwner => Quiet(Owner(g)),
         o \in AtOwnChannel =>
           \A h \in Goroutines : Owner(h) = Owner(g) => op[h] \notin ChangesOwner
  PROVE  Inv'
<1> USE OwnerIsCaller, NoChannelIsNone, WriterAssumption
<1>1. WriterTypeOK'
  BY DEF Inv, WriterTypeOK, PCs, Ops, Call, channelVars, wireVars
<1>2. ChannelInv'
  BY DEF Inv, WriterTypeOK, ChannelInv, Ops, Call, channelVars, wireVars
<1>3. LockInv'
  BY DEF Inv, WriterTypeOK, LockInv, InChanneled, Ops, Call, channelVars,
    wireVars
<1>4. CallInv'
  BY DEF Inv, WriterTypeOK, CallInv, AtOwnChannel, ChangesOwner, Quiet, Ops,
    Call, channelVars, wireVars
<1>5. AloneInv'
  BY DEF Inv, WriterTypeOK, AloneInv, CallInv, AtOwnChannel, ChangesOwner,
    Quiet, Ops, Call, channelVars, wireVars
<1>6. (ExclusiveReservation /\ FreeInv)'
  BY DEF Inv, WriterTypeOK, ExclusiveReservation, FreeInv, AtOwnChannel,
    Ops, Call, channelVars, wireVars
<1>7. WireInv'
  BY DEF Inv, WriterTypeOK, WireInv, Ops, Call, channelVars, wireVars
<1> QED
  BY <1>1, <1>2, <1>3, <1>4, <1>5, <1>6, <1>7 DEF Inv

\* The calls of WriterCall keep that contract.
LEMMA WriterCallKeeps ==
  ASSUME Inv, NEW g \in Goroutines, WriterCall(g)
  PROVE  Inv'
<1> USE OwnerIsCaller DEF Inv, WriterTypeOK, Ops, AtOwnChannel, ChangesOwner
<1>1. CASE CallObtain(g)
  BY <1>1, CallKeeps DEF CallObtain
<1>2. CASE CallWrite(g)
  BY <1>2, CallKeeps DEF CallWrite
<1>3. CASE CallStandalone(g)
  BY <1>3, CallKeeps DEF CallStandalone
<1>4. CASE CallAtChannel(g)
  BY <1>4, CallKeeps DEF CallAtChannel
<1>5. CASE CallWriteAndRelease(g)
  BY <1>5, CallKeeps DEF CallWriteAndRelease, Quiet
<1> QED
  BY <1>1, <1>2, <1>3, <1>4, <1>5 DEF WriterCall

\* A caller releases its channel while none of its calls is at it.
LEMMA ReleaseChannelKeeps ==
  ASSUME Inv, NEW t \in Callers, ReleaseChannel(t)
  PROVE  Inv'
<1> USE OwnerIsCaller, NoChannelIsNone, WriterAssumption
    DEF ReleaseChannel, Release, callVars, wireVars
<1>1. WriterTypeOK'
  BY DEF Inv, WriterTypeOK
<1>2. (ChannelInv /\ CallInv /\ AloneInv /\ LockInv)'
  BY DEF Inv, WriterTypeOK, ChannelInv, CallInv, AloneInv, LockInv, AtOwnChannel, Quiet
<1>3. (ExclusiveReservation /\ FreeInv)'
  BY DEF Inv, WriterTypeOK, ExclusiveReservation, FreeInv
<1>4. WireInv'
  BY DEF Inv, WireInv
<1> QED
  BY <1>1, <1>2, <1>3, <1>4 DEF Inv

\* The target breaks: the wire no longer matters.
LEMMA BreakKeeps ==
  ASSUME Inv, Break
  PROVE  Inv'
BY DEF Inv, WriterTypeOK, ChannelInv, LockInv, CallInv, AloneInv, ExclusiveReservation,
       FreeInv, WireInv, Break, channelVars, callVars

LEMMA StutterKeeps ==
  ASSUME Inv, UNCHANGED writerVars
  PROVE  Inv'
BY DEF Inv, WriterTypeOK, ChannelInv, LockInv, CallInv, AloneInv, ExclusiveReservation,
       FreeInv, WireInv, Quiet, writerVars, channelVars, callVars, wireVars

-----------------------------------------------------------------------------
(* The theorems.                                                           *)

LEMMA InvInit == WriterInit => Inv
<1> SUFFICES ASSUME WriterInit
             PROVE  Inv
  OBVIOUS
<1> USE OwnerIsCaller, NoChannelIsNone, WriterAssumption DEF WriterInit, ChannelManagerInit
<1>1. 0 \in ChannelID /\ scanned \in 0..channelsCount
  BY ChannelsCountAssumption DEF ChannelID
<1>2. WriterTypeOK
  BY <1>1 DEF WriterTypeOK, PCs, Ops
<1>3. ChannelInv /\ LockInv /\ CallInv /\ AloneInv
  BY DEF ChannelInv, LockInv, InChanneled, CallInv, AtOwnChannel, AloneInv, ChangesOwner
<1>4. ExclusiveReservation /\ FreeInv /\ WireInv
  BY DEF ExclusiveReservation, FreeInv, WireInv
<1> QED
  BY <1>2, <1>3, <1>4 DEF Inv

LEMMA InvNext == Inv /\ [WriterNext]_writerVars => Inv'
<1> SUFFICES ASSUME Inv, [WriterNext]_writerVars
             PROVE  Inv'
  OBVIOUS
<1>1. CASE \E g \in Goroutines : WriterCall(g)
  BY <1>1, WriterCallKeeps
<1>2. CASE \E g \in Goroutines : WriterStep(g)
  BY <1>2, LockChanneledKeeps, SearchNextKeeps, SearchReserveKeeps, SearchFreeKeeps,
     SelectKeeps, WriteSwitchKeeps, WritePacketKeeps, WritePayloadKeeps, WriteFailsKeeps,
     WriteStandaloneKeeps, ReleaseOwnKeeps DEF WriterStep
<1>3. CASE \E t \in Callers : ReleaseChannel(t)
  BY <1>3, ReleaseChannelKeeps
<1>4. CASE Break
  BY <1>4, BreakKeeps
<1>5. CASE UNCHANGED writerVars
  BY <1>5, StutterKeeps
<1> QED
  BY <1>1, <1>2, <1>3, <1>4, <1>5 DEF WriterNext

\* The strengthening of all the invariants below.
LEMMA WriterInvariant == WriterSpec => []Inv
<1>1. WriterInit => Inv
  BY InvInit
<1>2. Inv /\ [WriterNext]_writerVars => Inv'
  BY InvNext
<1> QED
  BY <1>1, <1>2, PTL DEF WriterSpec

\* Every variable of the writer and of its channel manager keeps its type; in
\* particular a search never looks beyond the last channel.
THEOREM WriterTypeCorrect == WriterSpec => []WriterTypeOK
<1>1. Inv => WriterTypeOK
  BY DEF Inv
<1> QED
  BY <1>1, WriterInvariant, PTL

\* A channel is reserved exactly while one caller owns it, however the searches
\* of Reserve and GetFree and the lock-free Release interleave.
THEOREM ReservationIsExclusive == WriterSpec => []ExclusiveReservation
<1>1. Inv => ExclusiveReservation
  BY DEF Inv
<1> QED
  BY <1>1, WriterInvariant, PTL

\* What PacketOnRightChannel says follows from Inv.
LEMMA OnRightChannel == Inv => PacketOnRightChannel
<1> SUFFICES ASSUME Inv, NEW g \in Goroutines, pc[g] \in {"packet", "payload"}, ~ broken
             PROVE  /\ wireChannel = ch[g]
                    /\ \A t \in Callers :
                         channel[t] = ch[g] => t = Owner(g) /\ op[g] # "Write"
  BY DEF PacketOnRightChannel
<1> USE OwnerIsCaller, NoChannelIsNone DEF Inv
<1>1. wireChannel = ch[g]
  <2>1. \A h \in Goroutines : pc[h] # "switch"
    BY DEF LockInv, InChanneled
  <2> QED
    BY <2>1 DEF WireInv
<1>2. ch[g] \in ChannelID
  BY DEF ChannelInv, WriterTypeOK
<1>3. ASSUME NEW t \in Callers, channel[t] = ch[g]
      PROVE  t = Owner(g) /\ op[g] # "Write"
  <2>1. op[g] # "Write"
    BY <1>2, <1>3 DEF FreeInv, ExclusiveReservation
  <2>2. channel[Owner(g)] = ch[g]
    BY <1>2, <2>1 DEF CallInv, WriterTypeOK, Ops, AtOwnChannel
  <2> QED
    BY <1>2, <1>3, <2>1, <2>2 DEF ExclusiveReservation
<1> QED
  BY <1>1, <1>3

\* A packet is written with its own channel selected on the wire, a channel no
\* other caller owns, and nobody at all if it is a Write.
THEOREM PacketsStayOnTheirChannel == WriterSpec => []PacketOnRightChannel
BY OnRightChannel, WriterInvariant, PTL

\* No packet that goes through channeledMu ends up inside another goroutine's
\* external frame.
THEOREM FramesAreNotTornByChannels == WriterSpec => []ChanneledFramesIntact
<1>1. Inv => ChanneledFramesIntact
  BY DEF Inv, WireInv, ChanneledFramesIntact
<1> QED
  BY <1>1, WriterInvariant, PTL
=============================================================================
