-------------------------- MODULE MessageBufferProofs --------------------------
(***************************************************************************)
(* What holds of the buffers of data and of streams for every size, every  *)
(* way to cut the bytes into pieces and reads, and every number of         *)
(* readers.                                                                *)
(*                                                                         *)
(* BufferInv is inductive.  EndInv is what `done` and EOF stand for:       *)
(* nothing is pushed after either, and EOF finds the buffer empty.         *)
(***************************************************************************)
EXTENDS MessageBuffer, TLAPS

PiecesOK == buf \in Seq(Seq(Nat)) /\ out \in Seq(Nat)

EndInv ==
  /\ done => wrote = Size
  /\ \A r \in Readers : at[r] = "eof" => wrote = Size /\ buf = <<>>

BufferInv == TypeOK /\ PiecesOK /\ NothingLost /\ EndInv

\* The same in names that do not mention the end of a sequence.
LEMMA PieceFacts ==
  ASSUME TypeOK, PiecesOK, buf # <<>>
  PROVE  /\ Len(buf) \in Nat /\ Len(buf) >= 1 /\ Head(buf) = buf[1]
         /\ \A k \in 1..Len(buf) : buf[k] \in Seq(Nat) /\ Len(buf[k]) \in Nat /\ Len(buf[k]) >= 1
         /\ bufOffset \in Nat /\ bufOffset < Len(buf[1])
<1>1. Len(buf) \in Nat /\ Len(buf) >= 1 /\ Head(buf) = buf[1] /\ DOMAIN buf = 1..Len(buf)
  BY DEF PiecesOK
<1>2. \A k \in 1..Len(buf) : buf[k] \in Seq(Nat)
  BY DEF PiecesOK
<1>3. \A k \in 1..Len(buf) : Len(buf[k]) \in 1..MaxPiece
  BY <1>1 DEF TypeOK
<1>4. MaxPiece \in Nat
  BY MessageBufferAssumption
<1>5. \A k \in 1..Len(buf) : Len(buf[k]) \in Nat /\ Len(buf[k]) >= 1
  BY <1>3, <1>4
<1>6. bufOffset \in 0..(Len(buf[1]) - 1)
  BY <1>1 DEF TypeOK
<1>7. bufOffset \in Nat /\ bufOffset < Len(buf[1])
  BY <1>1, <1>5, <1>6
<1> QED
  BY <1>1, <1>2, <1>5, <1>7

\* What is read goes on counting.
LEMMA CountsOn ==
  ASSUME NEW s \in Seq(Nat), NEW t \in Seq(Nat),
         \A i \in 1..Len(s) : s[i] = i,
         \A i \in 1..Len(t) : t[i] = Len(s) + i
  PROVE  /\ s \o t \in Seq(Nat) /\ Len(s \o t) = Len(s) + Len(t)
         /\ \A i \in 1..Len(s \o t) : (s \o t)[i] = i
<1>1. s \o t \in Seq(Nat) /\ Len(s \o t) = Len(s) + Len(t) /\ Len(s) \in Nat /\ Len(t) \in Nat
  OBVIOUS
<1>2. ASSUME NEW i \in 1..Len(s \o t) PROVE (s \o t)[i] = i
  <2>1. CASE i <= Len(s)
    <3>1. (s \o t)[i] = s[i] /\ i \in 1..Len(s)
      BY <1>1, <2>1
    <3> QED
      BY <3>1
  <2>2. CASE i > Len(s)
    <3>1. (s \o t)[i] = t[i - Len(s)] /\ i - Len(s) \in 1..Len(t)
      BY <1>1, <2>2
    <3>2. t[i - Len(s)] = Len(s) + (i - Len(s))
      BY <3>1
    <3> QED
      BY <1>1, <3>1, <3>2
  <2> QED
    BY <1>1, <2>1, <2>2
<1> QED
  BY <1>1, <1>2

\* The pieces and what was read, which all steps but push and ReadBytes leave alone.
BytesOK == PiecesOK /\ NothingLost /\ wrote \in 0..Size
           /\ (\A k \in 1..Len(buf) : Len(buf[k]) \in 1..MaxPiece)
           /\ IF buf = <<>> THEN bufOffset = 0 ELSE bufOffset \in 0..(Len(Head(buf)) - 1)

LEMMA BytesAreOK == TypeOK /\ PiecesOK /\ NothingLost <=> BytesOK /\ TypeOK
<1>1. ASSUME TypeOK, PiecesOK, NothingLost PROVE BytesOK
  <2>1. \A k \in 1..Len(buf) : Len(buf[k]) \in 1..MaxPiece
    <3>1. DOMAIN buf = 1..Len(buf)
      BY <1>1 DEF PiecesOK
    <3> QED
      BY <1>1, <3>1 DEF TypeOK
  <2> QED
    BY <1>1, <2>1 DEF BytesOK, TypeOK
<1> QED
  BY <1>1 DEF BytesOK

\* The bytes of a new piece follow on the last one in the buffer, or on what was read.
LEMMA PushKeepsBytes ==
  ASSUME TypeOK, PiecesOK, NothingLost, push
  PROVE  BytesOK'
<1>1. PICK n \in 1..MaxPiece : /\ wrote + n <= Size
                               /\ buf' = Append(buf, [i \in 1..n |-> wrote + i])
                               /\ wrote' = wrote + n
  BY DEF push
<1> DEFINE p == [i \in 1..n |-> wrote + i]
<1>2. UNCHANGED <<bufOffset, out>>
  BY DEF push
<1>3. /\ wrote \in Nat /\ wrote \in 0..Size /\ Size \in Nat /\ MaxPiece \in Nat
      /\ n \in Nat /\ n >= 1 /\ n <= MaxPiece
  BY MessageBufferAssumption, <1>1 DEF TypeOK
<1>4. p \in Seq(Nat) /\ Len(p) = n /\ \A i \in 1..n : p[i] = wrote + i
  BY <1>3
<1> HIDE DEF p
<1>5. buf \in Seq(Seq(Nat)) /\ Len(buf) \in Nat
  BY DEF PiecesOK
<1>6. /\ buf' \in Seq(Seq(Nat)) /\ Len(buf') = Len(buf) + 1 /\ buf' # <<>>
      /\ \A k \in 1..Len(buf) : buf'[k] = buf[k]
      /\ buf'[Len(buf) + 1] = p
  <2>1. buf' = Append(buf, p)
    BY <1>1 DEF p
  <2> QED
    BY SMTT(60), <1>4, <1>5, <2>1
<1>7. \A k \in 1..Len(buf') : k \in 1..Len(buf) \/ k = Len(buf) + 1
  BY <1>5, <1>6
<1>8. PiecesOK'
  BY <1>2, <1>6 DEF PiecesOK
<1>9. \A k \in 1..Len(buf') : Len(buf'[k]) \in 1..MaxPiece
  <2>1. \A k \in 1..Len(buf) : Len(buf[k]) \in 1..MaxPiece
    BY BytesAreOK DEF BytesOK
  <2> QED
    BY <1>1, <1>4, <1>6, <1>7, <2>1
<1>10. IF buf' = <<>> THEN bufOffset' = 0 ELSE bufOffset' \in 0..(Len(Head(buf')) - 1)
  <2>1. Head(buf') = buf'[1]
    BY <1>6
  <2>2. CASE buf = <<>>
    <3>1. bufOffset = 0 /\ Len(buf) = 0
      BY <2>2 DEF TypeOK
    <3>2. Len(Head(buf')) = n
      BY <1>4, <1>6, <2>1, <3>1
    <3> QED
      BY <1>2, <1>3, <1>6, <3>1, <3>2
  <2>3. CASE buf # <<>>
    <3>1. Head(buf') = Head(buf)
      BY <1>5, <1>6, <2>1, <2>3
    <3> QED
      BY <1>2, <1>6, <2>3, <3>1 DEF TypeOK
  <2> QED
    BY <2>2, <2>3
<1>11. wrote' \in 0..Size
  BY <1>1, <1>3
<1>12. NothingLost'
  <2>0. \A k \in 1..Len(buf) : \A i \in 1..Len(buf[k]) : buf[k][i] = buf[k][1] + (i - 1)
    BY DEF NothingLost, Consecutive
  <2>1. \A k \in 1..Len(buf') : \A i \in 1..Len(buf'[k]) : buf'[k][i] = buf'[k][1] + (i - 1)
    <3>1. \A i \in 1..n : p[i] = p[1] + (i - 1)
      BY <1>3, <1>4
    <3>2. ASSUME NEW k \in 1..Len(buf'), NEW i \in 1..Len(buf'[k])
          PROVE  buf'[k][i] = buf'[k][1] + (i - 1)
      <4>1. CASE k \in 1..Len(buf)
        <5>1. buf'[k] = buf[k]
          BY <1>6, <4>1
        <5> QED
          BY <2>0, <4>1, <5>1
      <4>2. CASE k = Len(buf) + 1
        <5>1. buf'[k] = p
          BY <1>6, <4>2
        <5> QED
          BY <1>4, <3>1, <5>1
      <4> QED
        BY <1>7, <4>1, <4>2
    <3> QED
      BY <3>2
  <2>2. p[1] = wrote + 1 /\ p[n] = wrote + n
    BY <1>3, <1>4
  <2>3. CASE buf = <<>>
    <3>1. Len(buf) = 0 /\ wrote = Len(out) /\ bufOffset = 0
      BY <2>3 DEF NothingLost, TypeOK
    <3>2. Len(buf') = 1 /\ Head(buf') = p /\ Last(Last(buf')) = p[n]
      BY <1>4, <1>6, <3>1 DEF Last
    <3>3. Consecutive'
      BY <2>1, <3>2 DEF Consecutive
    <3> QED
      BY <1>1, <1>2, <1>6, <2>2, <3>1, <3>2, <3>3 DEF NothingLost
  <2>4. CASE buf # <<>>
    <3>1. /\ Head(buf)[bufOffset + 1] = Len(out) + 1 /\ Last(Last(buf)) = wrote
          /\ \A k \in 1..(Len(buf) - 1) : buf[k + 1][1] = Last(buf[k]) + 1
      BY <2>4 DEF NothingLost, Consecutive
    <3>2. /\ Len(buf) >= 1 /\ Head(buf') = Head(buf)
          /\ Last(buf') = p /\ Last(p) = p[n] /\ Last(buf) = buf'[Len(buf)]
      BY <1>4, <1>5, <1>6, <2>4 DEF Last
    <3>3. ASSUME NEW k \in 1..(Len(buf') - 1) PROVE buf'[k + 1][1] = Last(buf'[k]) + 1
      <4>1. CASE k = Len(buf)
        BY <1>6, <2>2, <3>1, <3>2, <4>1
      <4>2. CASE k # Len(buf)
        <5>1. k \in 1..(Len(buf) - 1) /\ k \in 1..Len(buf) /\ k + 1 \in 1..Len(buf)
          BY <1>5, <1>6, <4>2
        <5> QED
          BY <1>6, <3>1, <5>1
      <4> QED
        BY <4>1, <4>2
    <3>4. Consecutive'
      BY <2>1, <3>3 DEF Consecutive
    <3> QED
      BY <1>1, <1>2, <1>6, <2>2, <3>1, <3>2, <3>4 DEF NothingLost
  <2> QED
    BY <2>3, <2>4
<1> QED
  BY <1>8, <1>9, <1>10, <1>11, <1>12 DEF BytesOK

\* A read takes the next bytes of the first piece, in order.
LEMMA ReadKeepsBytes ==
  ASSUME TypeOK, PiecesOK, NothingLost, NEW r \in Readers, ReadBytes(r)
  PROVE  BytesOK' /\ buf # <<>>
<1> DEFINE h == Head(buf)
           rest == SubSeq(h, bufOffset + 1, Len(h))
<1>1. PICK n \in 1..MaxRead :
        IF Len(rest) > n
        THEN out' = out \o SubSeq(rest, 1, n) /\ bufOffset' = bufOffset + n /\ buf' = buf
        ELSE out' = out \o rest /\ bufOffset' = 0 /\ buf' = Tail(buf)
  BY DEF ReadBytes
<1>2. wrote' = wrote /\ buf # <<>>
  BY DEF ReadBytes
<1>3. /\ Len(buf) \in Nat /\ Len(buf) >= 1 /\ h = buf[1]
      /\ \A k \in 1..Len(buf) : buf[k] \in Seq(Nat) /\ Len(buf[k]) \in Nat /\ Len(buf[k]) >= 1
      /\ bufOffset \in Nat /\ bufOffset < Len(buf[1])
  BY <1>2, PieceFacts
<1>4. /\ h \in Seq(Nat) /\ Len(h) \in Nat /\ bufOffset < Len(h)
      /\ buf \in Seq(Seq(Nat)) /\ out \in Seq(Nat) /\ Len(out) \in Nat
      /\ n \in Nat /\ n >= 1
      /\ wrote \in 0..Size
  BY <1>3, MessageBufferAssumption DEF PiecesOK, TypeOK
<1>5. /\ \A i \in 1..Len(out) : out[i] = i
      /\ h[bufOffset + 1] = Len(out) + 1
      /\ Last(Last(buf)) = wrote
      /\ Consecutive
      /\ \A i \in 1..Len(h) : h[i] = h[1] + (i - 1)
  BY SMTT(60), <1>2, <1>3 DEF NothingLost, Consecutive
<1> HIDE DEF h
<1>6. /\ rest \in Seq(Nat) /\ Len(rest) = Len(h) - bufOffset
      /\ \A i \in 1..Len(rest) : rest[i] = h[bufOffset + i]
  BY <1>3, <1>4
<1>7. h[1] \in Nat /\ h[1] + bufOffset = Len(out) + 1
  <2>1. h[1] \in Nat
    BY <1>3, <1>4
  <2>2. h[bufOffset + 1] = h[1] + ((bufOffset + 1) - 1)
    <3>1. bufOffset + 1 \in 1..Len(h)
      BY <1>3, <1>4
    <3> QED
      BY <1>5, <3>1
  <2> QED
    BY <1>3, <1>5, <2>1, <2>2
<1>8. \A i \in 1..Len(rest) : rest[i] = Len(out) + i
  <2> SUFFICES ASSUME NEW i \in 1..Len(rest) PROVE rest[i] = Len(out) + i
    OBVIOUS
  <2>1. bufOffset + i \in 1..Len(h) /\ i \in Nat
    BY <1>3, <1>4, <1>6
  <2>2. rest[i] = h[1] + ((bufOffset + i) - 1)
    BY <1>5, <1>6, <2>1
  <2>3. h[1] \in Nat /\ bufOffset \in Nat /\ Len(out) \in Nat /\ i \in Nat
    BY <1>3, <1>4, <1>7, <2>1
  <2> QED
    BY SMTT(60), <1>7, <2>2, <2>3
<1>9. Len(rest) \in Nat /\ Len(rest) >= 1
  BY <1>3, <1>4, <1>6
<1>10. \A k \in 1..Len(buf) : Len(buf[k]) \in 1..MaxPiece
  BY BytesAreOK DEF BytesOK
<1> HIDE DEF rest
<1>11. CASE Len(rest) > n
  <2> DEFINE m == SubSeq(rest, 1, n)
  <2>1. m \in Seq(Nat) /\ Len(m) = n /\ \A i \in 1..n : m[i] = Len(out) + i
    BY SMTT(60), <1>4, <1>6, <1>8, <1>9, <1>11
  <2>2. out' = out \o m /\ bufOffset' = bufOffset + n /\ buf' = buf
    BY <1>1, <1>11
  <2> HIDE DEF m
  <2>3. /\ out' \in Seq(Nat) /\ Len(out') = Len(out) + n
        /\ \A i \in 1..Len(out') : out'[i] = i
    <3>1. \A i \in 1..Len(m) : m[i] = Len(out) + i
      BY <2>1
    <3> QED
      BY <1>4, <1>5, <2>1, <2>2, <3>1, CountsOn
  <2>4. /\ bufOffset + n < Len(h) /\ bufOffset' \in 0..(Len(h) - 1)
        /\ bufOffset' + 1 \in 1..Len(h)
    <3>1. bufOffset \in Nat /\ Len(h) \in Nat /\ n \in Nat /\ Len(h) - bufOffset > n
      BY <1>3, <1>4, <1>6, <1>11
    <3> QED
      BY <2>2, <3>1
  <2>5. h[bufOffset' + 1] = Len(out') + 1
    <3>1. h[bufOffset' + 1] = h[1] + ((bufOffset' + 1) - 1)
      BY <1>5, <2>4
    <3>2. h[1] \in Nat /\ bufOffset \in Nat /\ Len(out) \in Nat /\ n \in Nat
      BY <1>3, <1>4, <1>7
    <3>3. bufOffset' = bufOffset + n /\ Len(out') = Len(out) + n
      BY <2>2, <2>3
    <3> QED
      BY <1>7, <3>1, <3>2, <3>3
  <2>6. PiecesOK'
    BY <1>4, <2>2, <2>3 DEF PiecesOK
  <2>7. NothingLost'
    BY <1>2, <1>5, <2>2, <2>3, <2>5 DEF NothingLost, Consecutive, h
  <2> QED
    BY <1>2, <1>4, <1>10, <2>2, <2>4, <2>6, <2>7 DEF BytesOK, h
<1>12. CASE ~ (Len(rest) > n)
  <2>1. out' = out \o rest /\ bufOffset' = 0 /\ buf' = Tail(buf)
    BY <1>1, <1>12
  <2>2. /\ out' \in Seq(Nat) /\ Len(out') = Len(out) + Len(rest)
        /\ \A i \in 1..Len(out') : out'[i] = i
    BY <1>4, <1>5, <1>6, <1>8, <2>1, CountsOn
  <2>3. h[Len(h)] = Len(out')
    <3>1. Len(h) \in 1..Len(h)
      BY <1>3, <1>4
    <3>2. h[Len(h)] = h[1] + (Len(h) - 1)
      BY <1>5, <3>1
    <3>3. h[1] \in Nat /\ bufOffset \in Nat /\ Len(out) \in Nat /\ Len(h) \in Nat
      BY <1>3, <1>4, <1>7
    <3>4. Len(out') = Len(out) + (Len(h) - bufOffset)
      BY <1>6, <2>2
    <3>5. h[1] + (Len(h) - 1) = Len(out) + (Len(h) - bufOffset)
      BY <1>7, <3>3
    <3> QED
      BY <3>2, <3>4, <3>5
  <2>4. /\ buf' \in Seq(Seq(Nat)) /\ Len(buf') = Len(buf) - 1
        /\ \A k \in 1..Len(buf') : buf'[k] = buf[k + 1] /\ k + 1 \in 1..Len(buf)
    BY <1>2, <1>3, <1>4, <2>1
  <2>5. PiecesOK'
    BY <2>2, <2>4 DEF PiecesOK
  <2>6. \A k \in 1..Len(buf') : Len(buf'[k]) \in 1..MaxPiece
    BY <1>10, <2>4
  <2>7. Consecutive'
    <3>1. \A k \in 1..Len(buf') : \A i \in 1..Len(buf'[k]) : buf'[k][i] = buf'[k][1] + (i - 1)
      <4> SUFFICES ASSUME NEW k \in 1..Len(buf'), NEW i \in 1..Len(buf'[k])
                   PROVE  buf'[k][i] = buf'[k][1] + (i - 1)
        OBVIOUS
      <4>1. buf'[k] = buf[k + 1] /\ k + 1 \in 1..Len(buf)
        BY <2>4
      <4> QED
        BY <1>5, <4>1 DEF Consecutive
    <3>2. ASSUME NEW k \in 1..(Len(buf') - 1) PROVE buf'[k + 1][1] = Last(buf'[k]) + 1
      <4>1. /\ k \in 1..Len(buf') /\ k + 1 \in 1..Len(buf') /\ k + 1 \in 1..(Len(buf) - 1)
        BY <1>3, <2>4
      <4>2. buf'[k] = buf[k + 1] /\ buf'[k + 1] = buf[(k + 1) + 1]
        BY <2>4, <4>1
      <4> QED
        BY <1>5, <4>1, <4>2 DEF Consecutive
    <3> QED
      BY <3>1, <3>2 DEF Consecutive
  <2>8. CASE Len(buf) = 1
    <3>1. buf' = <<>> /\ Last(Last(buf)) = h[Len(h)]
      BY <1>3, <2>4, <2>8 DEF Last
    <3>2. NothingLost'
      BY <1>2, <1>5, <2>2, <2>3, <2>7, <3>1 DEF NothingLost
    <3> QED
      BY <1>2, <1>4, <2>1, <2>5, <2>6, <3>1, <3>2 DEF BytesOK
  <2>9. CASE Len(buf) # 1
    <3>1. /\ Len(buf') >= 1 /\ buf' # <<>> /\ Head(buf') = buf'[1]
          /\ 1 \in 1..Len(buf') /\ Len(buf') \in 1..Len(buf')
          /\ 1 \in 1..(Len(buf) - 1) /\ 1 + 1 = 2
      BY <1>3, <2>4, <2>9
    <3>2. Head(buf') = buf[2] /\ Last(buf') = Last(buf)
      BY SMTT(60), <1>3, <2>4, <3>1 DEF Last
    <3>3. buf[2][1] = Last(h) + 1
      BY <1>3, <1>5, <3>1 DEF Consecutive
    <3>4. Head(buf')[bufOffset' + 1] = Len(out') + 1
      <4>1. Head(buf')[1] = h[Len(h)] + 1
        BY <3>2, <3>3 DEF Last
      <4>2. bufOffset' + 1 = 1
        BY <2>1
      <4> QED
        BY <2>3, <4>1, <4>2
    <3>5. NothingLost'
      BY <1>2, <1>5, <2>2, <2>7, <3>1, <3>2, <3>4 DEF NothingLost
    <3>6. bufOffset' \in 0..(Len(Head(buf')) - 1)
      <4>1. Len(buf[2]) \in Nat /\ Len(buf[2]) >= 1
        BY <1>3, <3>1
      <4>2. 0 \in 0..(Len(buf[2]) - 1)
        BY <4>1
      <4> QED
        BY <2>1, <3>2, <4>2
    <3> QED
      BY <1>2, <1>4, <2>5, <2>6, <3>1, <3>5, <3>6 DEF BytesOK
  <2> QED
    BY <2>8, <2>9
<1> QED
  BY <1>2, <1>11, <1>12

-----------------------------------------------------------------------------
(* The invariant.                                                          *)

\* What remains of the types.
RestOK ==
  /\ kind \in Kinds
  /\ done \in BOOLEAN
  /\ closed \in BOOLEAN
  /\ mu \in {Free, "unlocker"} \cup Readers
  /\ at \in [Readers -> {"read", "park", "parked", "eof"}]

LEMMA RestKeeps == RestOK /\ [Next]_vars => RestOK'
<1> SUFFICES ASSUME RestOK, [Next]_vars PROVE RestOK'
  OBVIOUS
<1>1. CASE push
  BY <1>1 DEF RestOK, push, closeCh, putOptional
<1>2. CASE setDone \/ closeStream \/ Unlock \/ UNCHANGED vars
  BY <1>2 DEF RestOK, setDone, closeStream, closeCh, Unlock, vars
<1>3. ASSUME NEW r \in Readers, ReaderStep(r) PROVE RestOK'
  BY <1>3 DEF RestOK, ReaderStep, ReadBytes, ReadEOF, ReadNothing, Park
<1> QED
  BY <1>1, <1>2, <1>3 DEF Next, ParserStep

LEMMA BytesKeep == BufferInv /\ [Next]_vars => BytesOK'
<1> SUFFICES ASSUME BufferInv, [Next]_vars PROVE BytesOK'
  OBVIOUS
<1>0. TypeOK /\ PiecesOK /\ NothingLost
  BY DEF BufferInv
<1>1. CASE UNCHANGED <<buf, bufOffset, wrote, out>>
  <2>1. BytesOK
    BY <1>0, BytesAreOK
  <2> QED
    BY <1>1, <2>1 DEF BytesOK, PiecesOK, NothingLost, Consecutive
<1>2. CASE push
  BY <1>0, <1>2, PushKeepsBytes
<1>3. ASSUME NEW r \in Readers, ReaderStep(r) PROVE BytesOK'
  <2>1. CASE ReadBytes(r)
    BY <1>0, <2>1, ReadKeepsBytes
  <2>2. CASE ~ ReadBytes(r)
    BY <1>1, <1>3, <2>2 DEF ReaderStep, ReadEOF, ReadNothing, Park
  <2> QED
    BY <2>1, <2>2
<1>4. CASE setDone \/ closeStream \/ Unlock \/ UNCHANGED vars
  BY <1>1, <1>4 DEF setDone, closeStream, Unlock, vars
<1> QED
  BY <1>2, <1>3, <1>4 DEF Next, ParserStep

LEMMA EndKeeps == BufferInv /\ [Next]_vars => EndInv'
<1> SUFFICES ASSUME BufferInv, [Next]_vars PROVE EndInv'
  OBVIOUS
<1>0. TypeOK /\ EndInv /\ RestOK
  BY DEF BufferInv, TypeOK, RestOK
<1>1. CASE push
  <2>1. wrote # Size /\ ~ done /\ ~ done'
    <3>1. PICK n \in 1..MaxPiece : wrote + n <= Size
      BY <1>1 DEF push
    <3>2. wrote \in Nat /\ Size \in Nat /\ n \in Nat /\ n >= 1
      BY <1>0, MessageBufferAssumption DEF TypeOK
    <3> QED
      BY <1>1, <3>1, <3>2 DEF push
  <2>2. \A r \in Readers : at[r] # "eof"
    BY <1>0, <2>1 DEF EndInv
  <2>3. \A r \in Readers : at'[r] # "eof"
    BY <1>0, <1>1, <2>2 DEF push, closeCh, putOptional, RestOK
  <2> QED
    BY <2>1, <2>3 DEF EndInv
<1>2. CASE setDone \/ closeStream \/ Unlock \/ UNCHANGED vars
  <2>1. UNCHANGED <<wrote, buf>> /\ (done' => done \/ wrote = Size)
    BY <1>2 DEF setDone, closeStream, Unlock, vars
  <2>2. \A r \in Readers : at'[r] = "eof" => at[r] = "eof"
    BY <1>0, <1>2 DEF setDone, closeStream, closeCh, Unlock, vars, RestOK
  <2> QED
    BY <1>0, <2>1, <2>2 DEF EndInv
<1>3. ASSUME NEW r \in Readers, ReaderStep(r) PROVE EndInv'
  <2>1. CASE ReadBytes(r)
    <3>1. UNCHANGED <<wrote, done, at>> /\ buf # <<>>
      BY <2>1 DEF ReadBytes
    <3> QED
      BY <1>0, <3>1 DEF EndInv
  <2>2. CASE ReadEOF(r)
    <3>1. UNCHANGED <<wrote, done, buf>> /\ buf = <<>> /\ wrote = Size
      BY <1>0, <2>2 DEF ReadEOF, Ended, EndInv
    <3> QED
      BY <1>0, <3>1 DEF EndInv
  <2>3. CASE ReadNothing(r) \/ Park(r)
    <3>1. UNCHANGED <<wrote, done, buf>>
      BY <2>3 DEF ReadNothing, Park
    <3>2. \A q \in Readers : at'[q] = "eof" => at[q] = "eof"
      BY <1>0, <2>3 DEF ReadNothing, Park, RestOK
    <3> QED
      BY <1>0, <3>1, <3>2 DEF EndInv
  <2> QED
    BY <1>3, <2>1, <2>2, <2>3 DEF ReaderStep
<1> QED
  BY <1>1, <1>2, <1>3 DEF Next, ParserStep

LEMMA BufferInit == Init => BufferInv
<1> SUFFICES ASSUME Init PROVE BufferInv
  OBVIOUS
<1>1. Size \in Nat
  BY MessageBufferAssumption
<1>2. buf = <<>> /\ out = <<>> /\ wrote = 0 /\ bufOffset = 0
  BY DEF Init
<1>3. TypeOK
  <2>1. wrote \in 0..Size /\ \A i \in DOMAIN buf : Len(buf[i]) \in 1..MaxPiece
    BY <1>1, <1>2
  <2> QED
    BY <1>2, <2>1 DEF Init, TypeOK
<1>4. PiecesOK /\ NothingLost
  BY <1>2 DEF PiecesOK, NothingLost, Consecutive
<1>5. EndInv
  BY DEF Init, EndInv
<1> QED
  BY <1>3, <1>4, <1>5 DEF BufferInv

LEMMA BufferNext == BufferInv /\ [Next]_vars => BufferInv'
<1> SUFFICES ASSUME BufferInv, [Next]_vars PROVE BufferInv'
  OBVIOUS
<1>1. BytesOK' /\ EndInv'
  BY BytesKeep, EndKeeps
<1>2. RestOK'
  <2>1. RestOK
    BY DEF BufferInv, TypeOK, RestOK
  <2> QED
    BY <2>1, RestKeeps
<1>3. TypeOK'
  <2>1. DOMAIN buf' = 1..Len(buf')
    BY <1>1 DEF BytesOK, PiecesOK
  <2> QED
    BY <1>1, <1>2, <2>1 DEF BytesOK, RestOK, TypeOK
<1> QED
  BY <1>1, <1>3 DEF BufferInv, BytesOK

LEMMA BufferInvariant == Spec => []BufferInv
BY BufferInit, BufferNext, PTL DEF Spec

\* Every variable keeps its type: no piece is empty, and the offset is always within
\* the first piece.
THEOREM BufferTypeCorrect == Spec => []TypeOK
<1>1. BufferInv => TypeOK
  BY DEF BufferInv
<1> QED
  BY <1>1, BufferInvariant, PTL

\* However the bytes are cut into pieces and reads, and whoever reads: what was read
\* and what is left is what was pushed, every byte once and in order.
THEOREM NothingIsLost == Spec => []NothingLost
<1>1. BufferInv => NothingLost
  BY DEF BufferInv
<1> QED
  BY <1>1, BufferInvariant, PTL

\* No reader is told EOF while a byte is still to be pushed or to be read.
THEOREM EOFComesLast == Spec => []EOFIsLast
<1>1. BufferInv => EOFIsLast
  <2> SUFFICES ASSUME BufferInv, NEW r \in Readers, at[r] = "eof" PROVE Len(out) = Size
    BY DEF EOFIsLast
  <2>1. wrote = Size /\ buf = <<>>
    BY DEF BufferInv, EndInv
  <2> QED
    BY <2>1 DEF BufferInv, NothingLost
<1> QED
  BY <1>1, BufferInvariant, PTL

===============================================================================
