--------------------------- MODULE GrpcFrameProofs ---------------------------
(***************************************************************************)
(* Proofs about the frames of grpc.rs, for messages of every length the    *)
(* header can say, and what becomes of longer ones.                        *)
(***************************************************************************)
EXTENDS GrpcFrame, SequenceTheorems, TLAPS

\* n as u32: what is left of n without its multiples of 2^32
AsU32(n) == n - (256 * 256 * 256 * 256) * ((n \div (256 * 256 * 256)) \div 256)

\* The four bytes of a length say it as far as a u32 holds it.
LEMMA LenRawSaysLength ==
  ASSUME NEW n \in Nat
  PROVE  /\ LenRaw(n) \in Seq(Byte) /\ Len(LenRaw(n)) = 4
         /\ AsU32(n) = (256 * 256 * 256) * LenRaw(n)[1] + (256 * 256) * LenRaw(n)[2]
                        + 256 * LenRaw(n)[3] + LenRaw(n)[4]
<1> DEFINE h == n \div (256 * 256 * 256)
<1>1. /\ h % 256 \in Byte
      /\ (n \div (256 * 256)) % 256 \in Byte
      /\ (n \div 256) % 256 \in Byte
      /\ n % 256 \in Byte
  BY DEF Byte
<1>2. n = 256 * (n \div 256) + (n % 256)
  OBVIOUS
<1>3. n \div 256 = 256 * (n \div (256 * 256)) + ((n \div 256) % 256)
  OBVIOUS
<1>4. n \div (256 * 256) = 256 * h + ((n \div (256 * 256)) % 256)
  OBVIOUS
<1>5. h = 256 * (h \div 256) + (h % 256)
  OBVIOUS
<1>6. AsU32(n) = (256 * 256 * 256) * (h % 256) + (256 * 256) * ((n \div (256 * 256)) % 256)
                   + 256 * ((n \div 256) % 256) + (n % 256)
  BY <1>2, <1>3, <1>4, <1>5 DEF AsU32
<1> QED
  BY <1>1, <1>6 DEF LenRaw

\* It is a number below 2^32; a length that fits is said in full, a longer one
\* is not.
LEMMA FittingLength ==
  ASSUME NEW m \in Seq(Byte)
  PROVE  /\ AsU32(Len(m)) \in Nat /\ AsU32(Len(m)) < 256 * 256 * 256 * 256
         /\ Fits(m) => AsU32(Len(m)) = Len(m)
         /\ ~ Fits(m) => AsU32(Len(m)) < Len(m)
<1> DEFINE n == Len(m)
           h == n \div (256 * 256 * 256)
<1>1. n \in Nat /\ h \in Nat /\ h \div 256 \in Nat
  OBVIOUS
<1>2. h = 256 * (h \div 256) + (h % 256) /\ h % 256 \in Nat /\ h % 256 < 256
  BY <1>1
<1>3. /\ n = (256 * 256 * 256) * h + (n % (256 * 256 * 256))
      /\ n % (256 * 256 * 256) \in Nat /\ n % (256 * 256 * 256) < 256 * 256 * 256
  BY <1>1
<1> HIDE DEF h
<1>4. AsU32(n) = n - (256 * 256 * 256 * 256) * (h \div 256)
  BY DEF AsU32, h
<1>5. Fits(m) <=> h \div 256 = 0
  <2>1. Fits(m) <=> h < 256
    BY DEF Fits, h
  <2> QED
    BY <1>1, <1>2, <2>1
<1> QED
  BY <1>1, <1>2, <1>3, <1>4, <1>5

\* Where the elements of two byte sequences are when one follows the other.
LEMMA ConcatLayout ==
  ASSUME NEW s \in Seq(Byte), NEW t \in Seq(Byte)
  PROVE  /\ s \o t \in Seq(Byte) /\ Len(s \o t) = Len(s) + Len(t)
         /\ \A i \in 1 .. Len(s) : (s \o t)[i] = s[i]
         /\ \A i \in 1 .. Len(t) : (s \o t)[i + Len(s)] = t[i]
<1>1. Len(s) \in Nat /\ Len(t) \in Nat
  OBVIOUS
<1>2. /\ s \o t \in Seq(Byte) /\ Len(s \o t) = Len(s) + Len(t)
      /\ \A i \in 1 .. Len(s) + Len(t) :
           (s \o t)[i] = IF i <= Len(s) THEN s[i] ELSE t[i - Len(s)]
  BY ConcatProperties
<1>3. ASSUME NEW i \in 1 .. Len(s) PROVE (s \o t)[i] = s[i]
  BY <1>1, <1>2
<1>4. ASSUME NEW i \in 1 .. Len(t) PROVE (s \o t)[i + Len(s)] = t[i]
  <2>1. i + Len(s) \in 1 .. Len(s) + Len(t) /\ ~ (i + Len(s) <= Len(s))
    BY <1>1
  <2>2. (i + Len(s)) - Len(s) = i
    BY <1>1
  <2> QED
    BY <1>2, <2>1, <2>2
<1> QED
  BY <1>2, <1>3, <1>4

\* The layout of what write_frame appends, with anything after it
LEMMA FrameLayout ==
  ASSUME NEW m \in Seq(Byte), NEW rest \in Seq(Byte)
  PROVE  LET b == WriteFrame(m) \o rest
         IN  /\ WriteFrame(m) \in Seq(Byte) /\ Len(WriteFrame(m)) = Len(m) + HeaderLen
             /\ b \in Seq(Byte) /\ Len(b) = Len(m) + HeaderLen + Len(rest)
             /\ b[1] = 0 /\ LenOf(b) = AsU32(Len(m))
             /\ \A i \in 1 .. Len(m) : b[i + HeaderLen] = m[i]
<1> DEFINE raw == LenRaw(Len(m))
           b == WriteFrame(m) \o rest
<1>1. Len(m) \in Nat
  OBVIOUS
<1>2. /\ raw \in Seq(Byte) /\ Len(raw) = 4
      /\ AsU32(Len(m)) = (256 * 256 * 256) * raw[1] + (256 * 256) * raw[2] + 256 * raw[3] + raw[4]
  BY <1>1, LenRawSaysLength
<1> HIDE DEF raw
<1> DEFINE flag == <<0>>
           head == flag \o raw
           w == head \o m
<1>3. flag \in Seq(Byte) /\ Len(flag) = 1 /\ flag[1] = 0
  BY DEF Byte
<1> HIDE DEF flag
<1>4. /\ head \in Seq(Byte) /\ Len(head) = 5 /\ head[1] = 0
      /\ head[2] = raw[1] /\ head[3] = raw[2] /\ head[4] = raw[3] /\ head[5] = raw[4]
  <2>1. /\ head \in Seq(Byte) /\ Len(head) = Len(flag) + Len(raw)
        /\ \A i \in 1 .. Len(flag) : head[i] = flag[i]
        /\ \A i \in 1 .. Len(raw) : head[i + Len(flag)] = raw[i]
    BY <1>2, <1>3, ConcatLayout
  <2> HIDE DEF head
  <2> QED
    BY <1>2, <1>3, <2>1
<1>5. WriteFrame(m) = w
  BY DEF WriteFrame, raw, flag
<1> HIDE DEF head
<1>6. /\ w \in Seq(Byte) /\ Len(w) = Len(m) + 5
      /\ \A i \in 1 .. 5 : w[i] = head[i]
      /\ \A i \in 1 .. Len(m) : w[i + 5] = m[i]
  <2>1. /\ w \in Seq(Byte) /\ Len(w) = Len(head) + Len(m)
        /\ \A i \in 1 .. Len(head) : w[i] = head[i]
        /\ \A i \in 1 .. Len(m) : w[i + Len(head)] = m[i]
    BY <1>4, ConcatLayout
  <2> HIDE DEF w
  <2> QED
    BY <1>1, <1>4, <2>1
<1> HIDE DEF w
<1>7. /\ b \in Seq(Byte) /\ Len(b) = Len(m) + 5 + Len(rest)
      /\ \A i \in 1 .. Len(m) + 5 : b[i] = w[i]
  <2>1. /\ w \o rest \in Seq(Byte) /\ Len(w \o rest) = Len(w) + Len(rest)
        /\ \A i \in 1 .. Len(w) : (w \o rest)[i] = w[i]
    BY <1>6, ConcatLayout
  <2>2. b = w \o rest
    BY <1>5
  <2> QED
    BY <1>6, <2>1, <2>2
<1> HIDE DEF b
<1>8. \A i \in 1 .. 5 : b[i] = head[i]
  BY <1>1, <1>6, <1>7
<1>9. b[1] = 0 /\ b[2] = raw[1] /\ b[3] = raw[2] /\ b[4] = raw[3] /\ b[5] = raw[4]
  BY <1>4, <1>8
<1>10. LenOf(b) = AsU32(Len(m))
  BY <1>2, <1>9 DEF LenOf
<1>11. \A i \in 1 .. Len(m) : b[i + 5] = m[i]
  BY <1>1, <1>6, <1>7
<1> QED
  BY <1>5, <1>6, <1>7, <1>9, <1>10, <1>11 DEF b, HeaderLen

\* The same of a message whose length fits
LEMMA WriteFrameLayout ==
  ASSUME NEW m \in Seq(Byte), Fits(m), NEW rest \in Seq(Byte)
  PROVE  LET b == WriteFrame(m) \o rest
         IN  /\ WriteFrame(m) \in Seq(Byte) /\ Len(WriteFrame(m)) = Len(m) + HeaderLen
             /\ b \in Seq(Byte) /\ Len(b) = Len(m) + HeaderLen + Len(rest)
             /\ b[1] = 0 /\ LenOf(b) = Len(m)
             /\ \A i \in 1 .. Len(m) : b[i + HeaderLen] = m[i]
<1>1. AsU32(Len(m)) = Len(m)
  BY FittingLength
<1> QED
  BY <1>1, FrameLayout, Zenon

\* parse_frame gives back what write_frame wrote, whatever follows it in the
\* buffer, and tells where it ends (grpc.rs, parse_frame and write_frame).
THEOREM ParseGivesBack ==
  ASSUME NEW m \in Seq(Byte), Fits(m), NEW rest \in Seq(Byte)
  PROVE  LET b == WriteFrame(m) \o rest
         IN  ~ BadFlag(b) /\ HasFrame(b) /\ FrameEnd(b) = Len(m) + HeaderLen
               /\ FrameOf(b) = m
<1> DEFINE b == WriteFrame(m) \o rest
<1>1. /\ b \in Seq(Byte) /\ Len(b) = Len(m) + HeaderLen + Len(rest)
      /\ b[1] = 0 /\ LenOf(b) = Len(m)
      /\ \A i \in 1 .. Len(m) : b[i + HeaderLen] = m[i]
  BY WriteFrameLayout
<1>2. Len(m) \in Nat /\ Len(rest) \in Nat
  OBVIOUS
<1> HIDE DEF b
<1>3. ~ BadFlag(b) /\ HasFrame(b) /\ FrameEnd(b) = Len(m) + HeaderLen
  BY <1>1, <1>2 DEF BadFlag, HasFrame, FrameEnd, HeaderLen
<1>4. FrameOf(b) = m
  <2>1. FrameOf(b) = SubSeq(b, 6, Len(m) + 5)
    BY <1>3 DEF FrameOf, HeaderLen
  <2>2. /\ SubSeq(b, 6, Len(m) + 5) \in Seq(Byte)
        /\ Len(SubSeq(b, 6, Len(m) + 5)) = Len(m)
        /\ \A i \in 1 .. Len(m) : SubSeq(b, 6, Len(m) + 5)[i] = b[i + 5]
    BY <1>1, <1>2 DEF HeaderLen
  <2>3. \A i \in 1 .. Len(m) : SubSeq(b, 6, Len(m) + 5)[i] = m[i]
    BY <1>1, <2>2 DEF HeaderLen
  <2> QED
    BY <2>1, <2>2, <2>3, SeqEqual
<1> QED
  BY <1>3, <1>4 DEF b

\* Of a message of 2^32 bytes or more parse_frame gives back only the beginning,
\* as long as its length cast to u32, and takes what follows for the next frame
\* (grpc.rs, write_frame: raw_message.len() as u32).
THEOREM LongMessagesAreCut ==
  ASSUME NEW m \in Seq(Byte), ~ Fits(m), NEW rest \in Seq(Byte)
  PROVE  LET b == WriteFrame(m) \o rest
         IN  /\ ~ BadFlag(b) /\ HasFrame(b)
             /\ FrameOf(b) = SubSeq(m, 1, AsU32(Len(m))) /\ FrameOf(b) # m
             /\ FrameEnd(b) < Len(WriteFrame(m))
<1> DEFINE b == WriteFrame(m) \o rest
           w == WriteFrame(m)
           n == AsU32(Len(m))
<1>1. /\ Len(w) = Len(m) + HeaderLen
      /\ b \in Seq(Byte) /\ Len(b) = Len(m) + HeaderLen + Len(rest)
      /\ b[1] = 0 /\ LenOf(b) = n
      /\ \A i \in 1 .. Len(m) : b[i + HeaderLen] = m[i]
  BY FrameLayout
<1>2. Len(m) \in Nat /\ Len(rest) \in Nat /\ n \in Nat /\ n < Len(m)
  BY FittingLength
<1> HIDE DEF b, w, n
<1>3. ~ BadFlag(b) /\ HasFrame(b) /\ FrameEnd(b) = n + HeaderLen /\ FrameEnd(b) < Len(w)
  BY <1>1, <1>2 DEF BadFlag, HasFrame, FrameEnd, HeaderLen
<1>4. FrameOf(b) = SubSeq(m, 1, n)
  <2>1. FrameOf(b) = SubSeq(b, 6, n + 5)
    BY <1>3 DEF FrameOf, HeaderLen
  <2>2. /\ SubSeq(b, 6, n + 5) \in Seq(Byte)
        /\ Len(SubSeq(b, 6, n + 5)) = n
        /\ \A i \in 1 .. n : SubSeq(b, 6, n + 5)[i] = b[i + 5]
    BY <1>1, <1>2 DEF HeaderLen
  <2>3. /\ SubSeq(m, 1, n) \in Seq(Byte) /\ Len(SubSeq(m, 1, n)) = n
        /\ \A i \in 1 .. n : SubSeq(m, 1, n)[i] = m[i]
    BY <1>2
  <2>4. \A i \in 1 .. n : SubSeq(b, 6, n + 5)[i] = SubSeq(m, 1, n)[i]
    BY <1>1, <1>2, <2>2, <2>3 DEF HeaderLen
  <2> QED
    BY <2>1, <2>2, <2>3, <2>4, SeqEqual
<1>5. FrameOf(b) # m
  <2>1. Len(SubSeq(m, 1, n)) = n
    BY <1>2
  <2> QED
    BY <1>2, <1>4, <2>1
<1> QED
  BY <1>3, <1>4, <1>5 DEF b, w, n

\* A buffer that lacks but one byte of the frame gives no frame yet: no
\* message is handled before it is complete (grpc.rs, parse_frame).
THEOREM NoFrameBeforeItsEnd ==
  ASSUME NEW m \in Seq(Byte), Fits(m), NEW n \in 0 .. Len(m) + HeaderLen - 1
  PROVE  ~ HasFrame(SubSeq(WriteFrame(m), 1, n))
<1> DEFINE w == WriteFrame(m)
           b == SubSeq(w, 1, n)
<1>1. <<>> \in Seq(Byte) /\ Len(<<>>) = 0
  OBVIOUS
<1>2. /\ w \in Seq(Byte) /\ Len(w) = Len(m) + 5 /\ w \o <<>> = w
      /\ LenOf(w \o <<>>) = Len(m)
  <2>1. w \in Seq(Byte) /\ Len(w) = Len(m) + 5 /\ LenOf(w \o <<>>) = Len(m)
    BY <1>1, WriteFrameLayout DEF HeaderLen
  <2> HIDE DEF w
  <2> QED
    BY <2>1, ConcatEmptySeq
<1>3. Len(m) \in Nat
  OBVIOUS
<1> HIDE DEF w
<1>4. Len(b) = n /\ \A i \in 1 .. n : b[i] = w[i]
  BY <1>2, <1>3 DEF HeaderLen
<1>5. ASSUME n >= 5 PROVE LenOf(b) = Len(m)
  BY <1>2, <1>4, <1>5 DEF LenOf
<1> HIDE DEF b
<1>6. ~ HasFrame(b)
  BY <1>3, <1>4, <1>5 DEF HasFrame, HeaderLen
<1> QED
  BY <1>6 DEF b, w

-----------------------------------------------------------------------------
WrittenInv == written \in Seq(Frames)

LEMMA WrittenAlways == Spec => []WrittenInv
<1>1. Init => WrittenInv
  BY DEF Init, WrittenInv
<1>2. WrittenInv /\ [Next]_vars => WrittenInv'
  BY DEF Next, vars, Write, Deliver, Process, WrittenInv
<1> QED
  BY <1>1, <1>2, PTL DEF Spec

\* What the client does with a whole response body: it is taken for a message
\* when it is one frame, and never when a byte is missing or a second frame
\* follows (grpc.rs, parse_frame_completely).
THEOREM OnlyWholeBodies == Spec => []CompleteOnlyWhole
<1>1. ASSUME WrittenInv, NEW i \in 1 .. Len(written)
      PROVE  LET b == WriteFrame(written[i])
             IN  /\ IsFrame(b)
                 /\ FrameOf(b) = written[i]
                 /\ \A n \in 0 .. Len(b) - 1 : ~ HasFrame(SubSeq(b, 1, n))
                 /\ \A j \in 1 .. Len(written) : ~ IsFrame(b \o WriteFrame(written[j]))
  <2> DEFINE m == written[i]
             b == WriteFrame(m)
  <2>1. m \in Seq(Byte) /\ Fits(m)
    BY <1>1, FramesAssumption, ElementOfSeq DEF WrittenInv
  <2> HIDE DEF m
  <2>2. <<>> \in Seq(Byte) /\ Len(<<>>) = 0
    OBVIOUS
  <2>3. b \in Seq(Byte) /\ Len(b) = Len(m) + HeaderLen
    BY <2>1, <2>2, WriteFrameLayout
  <2>4. b \o <<>> = b
    <3> HIDE DEF b
    <3> QED
      BY <2>3, ConcatEmptySeq
  <2>5. HasFrame(b) /\ FrameEnd(b) = Len(b) /\ FrameOf(b) = m
    BY <2>1, <2>2, <2>3, <2>4, ParseGivesBack
  <2>6. ASSUME NEW n \in 0 .. Len(b) - 1 PROVE ~ HasFrame(SubSeq(b, 1, n))
    <3>1. Len(b) - 1 = Len(m) + HeaderLen - 1
      <4>1. Len(m) \in Nat
        BY <2>1
      <4> HIDE DEF b
      <4> QED
        BY <2>3, <4>1 DEF HeaderLen
    <3>2. n \in 0 .. Len(m) + HeaderLen - 1
      <4> HIDE DEF b
      <4> QED
        BY <2>6, <3>1
    <3> QED
      BY <2>1, <3>2, NoFrameBeforeItsEnd
  <2>7. ASSUME NEW j \in 1 .. Len(written) PROVE ~ IsFrame(b \o WriteFrame(written[j]))
    <3> DEFINE l == written[j]
               rest == WriteFrame(l)
               both == b \o rest
    <3>1. l \in Seq(Byte) /\ Fits(l)
      BY <1>1, FramesAssumption, ElementOfSeq DEF WrittenInv
    <3> HIDE DEF l
    <3>2. rest \in Seq(Byte) /\ Len(rest) = Len(l) + 5
      BY <2>2, <3>1, WriteFrameLayout DEF HeaderLen
    <3> HIDE DEF rest
    <3>3. FrameEnd(both) = Len(m) + 5 /\ Len(both) = Len(m) + 5 + Len(rest)
      BY <2>1, <3>2, ParseGivesBack, WriteFrameLayout DEF HeaderLen
    <3> HIDE DEF both
    <3>4. Len(m) \in Nat /\ Len(l) \in Nat
      BY <2>1, <3>1
    <3>5. ~ IsFrame(both)
      BY <3>2, <3>3, <3>4 DEF IsFrame
    <3> QED
      BY <3>5 DEF both, rest, l
  <2> QED
    BY <2>5, <2>6, <2>7 DEF IsFrame, m
<1>2. WrittenInv => CompleteOnlyWhole
  BY <1>1 DEF CompleteOnlyWhole
<1> QED
  BY <1>2, WrittenAlways, PTL

-----------------------------------------------------------------------------
\* What is in the buffer and on the wire are the frames not parsed yet, end to
\* end: rest[i] is what follows the frame of written[i].
FramesLeft(rest) ==
  /\ rest \in [Len(parsed) .. Len(written) -> Seq(Byte)]
  /\ buf \o wire = rest[Len(parsed)]
  /\ rest[Len(written)] = <<>>
  /\ \A i \in Len(parsed) + 1 .. Len(written) :
       rest[i - 1] = WriteFrame(written[i]) \o rest[i]

FrameInv ==
  /\ written \in Seq(Frames) /\ parsed \in Seq(Frames)
  /\ buf \in Seq(Byte) /\ wire \in Seq(Byte)
  /\ panicked = FALSE
  /\ Len(parsed) <= Len(written)
  /\ \A i \in 1 .. Len(parsed) : parsed[i] = written[i]
  /\ \E rest : FramesLeft(rest)

\* A message may be written, and its frame is a sequence of bytes.
LEMMA FrameBytes ==
  ASSUME NEW m \in Frames
  PROVE  m \in Seq(Byte) /\ Fits(m) /\ WriteFrame(m) \in Seq(Byte)
<1>1. m \in Seq(Byte) /\ Fits(m) /\ <<>> \in Seq(Byte)
  BY FramesAssumption
<1> QED
  BY <1>1, WriteFrameLayout

LEMMA Regroup ==
  ASSUME NEW s \in Seq(Byte), NEW t \in Seq(Byte), NEW u \in Seq(Byte)
  PROVE  (s \o t) \o u = s \o (t \o u)
BY ConcatAssociative

LEMMA FrameInit == Init => FrameInv
<1> SUFFICES ASSUME Init PROVE FrameInv
  OBVIOUS
<1> DEFINE rest == [i \in 0 .. 0 |-> <<>>]
<1>1. /\ written = <<>> /\ parsed = <<>> /\ buf = <<>> /\ wire = <<>> /\ panicked = FALSE
      /\ Len(parsed) = 0 /\ Len(written) = 0
  BY DEF Init
<1>2. <<>> \in Seq(Byte) /\ <<>> \in Seq(Frames) /\ <<>> \o <<>> = <<>>
  OBVIOUS
<1>3. FramesLeft(rest)
  <2>1. rest \in [0 .. 0 -> Seq(Byte)] /\ rest[0] = <<>>
    BY <1>2
  <2> HIDE DEF rest
  <2> QED
    BY <1>1, <1>2, <2>1 DEF FramesLeft
<1> HIDE DEF rest
<1> QED
  BY <1>1, <1>2, <1>3 DEF FrameInv

\* A frame written comes after everything that is left.
LEMMA WriteStep ==
  ASSUME FrameInv, NEW m \in Frames, Write(m)
  PROVE  FrameInv'
<1> DEFINE k == Len(parsed)
           n == Len(written)
           w == WriteFrame(m)
<1>1. PICK rest : FramesLeft(rest)
  BY DEF FrameInv
<1> DEFINE longer == [i \in k .. n + 1 |-> IF i = n + 1 THEN <<>> ELSE rest[i] \o w]
<1>2. /\ k \in Nat /\ n \in Nat /\ k <= n
      /\ written' = Append(written, m) /\ written' \in Seq(Frames)
      /\ Len(written') = n + 1 /\ written'[n + 1] = m
      /\ \A i \in 1 .. n : written'[i] = written[i]
      /\ wire' = wire \o w /\ UNCHANGED <<buf, parsed, panicked>>
  BY DEF FrameInv, Write
<1>3. w \in Seq(Byte) /\ <<>> \in Seq(Byte) /\ w \o <<>> = w /\ <<>> \o w = w
  <2>1. w \in Seq(Byte)
    BY FrameBytes
  <2> HIDE DEF w
  <2> QED
    BY <2>1, ConcatEmptySeq
<1>4. /\ rest \in [k .. n -> Seq(Byte)] /\ buf \o wire = rest[k] /\ rest[n] = <<>>
      /\ \A i \in k + 1 .. n : rest[i - 1] = WriteFrame(written[i]) \o rest[i]
  BY <1>1 DEF FramesLeft
<1>5. /\ buf \in Seq(Byte) /\ wire \in Seq(Byte)
      /\ \A i \in 1 .. n : WriteFrame(written[i]) \in Seq(Byte)
  BY FrameBytes, ElementOfSeq DEF FrameInv
<1> HIDE DEF w, k, n
<1>6. longer \in [k .. n + 1 -> Seq(Byte)] /\ longer[n + 1] = <<>>
      /\ \A i \in k .. n : longer[i] = rest[i] \o w
  <2>1. \A i \in k .. n : rest[i] \o w \in Seq(Byte)
    BY <1>3, <1>4, ConcatProperties
  <2>2. \A i \in k .. n + 1 : i = n + 1 \/ i \in k .. n
    BY <1>2
  <2>3. \A i \in k .. n : i # n + 1 /\ i \in k .. n + 1
    BY <1>2
  <2>4. n + 1 \in k .. n + 1
    BY <1>2
  <2> QED
    BY <1>3, <2>1, <2>2, <2>3, <2>4
<1> HIDE DEF longer
<1>7. buf \o (wire \o w) = longer[k]
  <2>1. buf \o (wire \o w) = (buf \o wire) \o w
    BY <1>3, <1>5, Regroup
  <2>2. k \in k .. n
    BY <1>2
  <2> QED
    BY <1>4, <1>6, <2>1, <2>2
<1>8. ASSUME NEW i \in k + 1 .. n + 1
      PROVE  longer[i - 1] = WriteFrame(written'[i]) \o longer[i]
  <2>1. CASE i = n + 1
    <3>1. i - 1 = n /\ n \in k .. n
      BY <1>2, <2>1
    <3>2. longer[i - 1] = w
      BY <1>3, <1>4, <1>6, <3>1
    <3>3. WriteFrame(written'[i]) = w
      BY <1>2, <2>1 DEF w
    <3> QED
      BY <1>3, <1>6, <2>1, <3>2, <3>3
  <2>2. CASE i # n + 1
    <3>1. i \in k + 1 .. n /\ i \in 1 .. n /\ i \in k .. n /\ i - 1 \in k .. n
      BY <1>2, <2>2
    <3>2. longer[i - 1] = (WriteFrame(written[i]) \o rest[i]) \o w
      BY <1>4, <1>6, <3>1
    <3>3. longer[i] = rest[i] \o w
      BY <1>6, <3>1
    <3>4. (WriteFrame(written[i]) \o rest[i]) \o w = WriteFrame(written[i]) \o (rest[i] \o w)
      <4> DEFINE f == WriteFrame(written[i])
      <4>1. f \in Seq(Byte) /\ rest[i] \in Seq(Byte)
        BY <1>4, <1>5, <3>1
      <4> HIDE DEF f
      <4>2. (f \o rest[i]) \o w = f \o (rest[i] \o w)
        BY <1>3, <4>1, Regroup
      <4> QED
        BY <4>2 DEF f
    <3>5. written'[i] = written[i]
      BY <1>2, <3>1
    <3> QED
      BY <3>2, <3>3, <3>4, <3>5
  <2> QED
    BY <2>1, <2>2
<1>9. \E next : FramesLeft(next)'
  <2>1. PICK next : next = longer
    OBVIOUS
  <2>2. next \in [k .. n + 1 -> Seq(Byte)] /\ next[n + 1] = <<>> /\ buf \o (wire \o w) = next[k]
    BY <1>6, <1>7, <2>1
  <2>3. \A i \in k + 1 .. n + 1 : next[i - 1] = WriteFrame(written'[i]) \o next[i]
    BY <1>8, <2>1
  <2>4. FramesLeft(next)'
    BY <1>2, <2>2, <2>3 DEF FramesLeft, k
  <2> QED
    BY <2>4
<1>10. wire' \in Seq(Byte)
  BY <1>2, <1>3, <1>5, ConcatProperties
<1>11. ASSUME NEW i \in 1 .. k PROVE parsed[i] = written'[i]
  <2>1. i \in 1 .. n
    BY <1>2
  <2>2. parsed[i] = written[i]
    BY DEF FrameInv, k
  <2> QED
    BY <1>2, <2>1, <2>2
<1> QED
  BY <1>2, <1>9, <1>10, <1>11 DEF FrameInv, k

\* A byte stream cut in two and put together again
LEMMA CutAndJoined ==
  ASSUME NEW s \in Seq(Byte), NEW n \in 0 .. Len(s)
  PROVE  SubSeq(s, 1, n) \o SubSeq(s, n + 1, Len(s)) = s
<1>1. Len(s) \in Nat
  OBVIOUS
<1>2. 1 \in 1 .. Len(s) + 1 /\ n \in 1 - 1 .. Len(s) /\ Len(s) \in n .. Len(s)
  BY <1>1
<1>3. SubSeq(s, 1, n) \o SubSeq(s, n + 1, Len(s)) = SubSeq(s, 1, Len(s))
  BY <1>2, ConcatAdjacentSubSeq
<1> QED
  BY <1>3, SubSeqFull

\* A byte stream cut in two ways at the same place
LEMMA SameCut ==
  ASSUME NEW s \in Seq(Byte), NEW t \in Seq(Byte), NEW u \in Seq(Byte), NEW v \in Seq(Byte),
         s \o t = u \o v, Len(s) = Len(u)
  PROVE  s = u /\ t = v
<1>1. \A i \in 1 .. Len(s) : s[i] = u[i]
  BY ConcatLayout
<1>2. s = u
  BY <1>1, SeqEqual
<1>3. Len(s \o t) = Len(s) + Len(t) /\ Len(u \o v) = Len(u) + Len(v)
  BY ConcatLayout
<1>4. Len(t) = Len(v)
  <2>1. Len(s) \in Nat /\ Len(t) \in Nat /\ Len(v) \in Nat
    OBVIOUS
  <2> QED
    BY <1>3, <2>1
<1>5. ASSUME NEW i \in 1 .. Len(t) PROVE t[i] = v[i]
  <2>1. i \in 1 .. Len(v)
    BY <1>4
  <2>2. (s \o t)[i + Len(s)] = t[i]
    BY ConcatLayout
  <2>3. (u \o v)[i + Len(u)] = v[i]
    BY <2>1, ConcatLayout
  <2> QED
    BY <2>2, <2>3
<1> QED
  BY <1>2, <1>4, <1>5, SeqEqual

\* A buffer parses as the whole stream would: what the header says does not
\* depend on the bytes still on the wire.
LEMMA HeaderInBuffer ==
  ASSUME NEW b \in Seq(Byte), NEW t \in Seq(Byte), Len(b) >= HeaderLen
  PROVE  /\ BadFlag(b) <=> BadFlag(b \o t)
         /\ LenOf(b \o t) = LenOf(b)
<1> DEFINE all == b \o t
<1>1. /\ all \in Seq(Byte) /\ Len(all) = Len(b) + Len(t)
      /\ \A i \in 1 .. Len(b) : all[i] = b[i]
  BY ConcatLayout
<1> HIDE DEF all
<1>2. Len(b) \in Nat /\ Len(t) \in Nat
  OBVIOUS
<1>3. Len(all) >= 5 /\ \A i \in 1 .. 5 : all[i] = b[i]
  BY <1>1, <1>2 DEF HeaderLen
<1>4. BadFlag(b) <=> BadFlag(all)
  BY <1>3 DEF BadFlag, HeaderLen
<1>5. all[2] = b[2] /\ all[3] = b[3] /\ all[4] = b[4] /\ all[5] = b[5]
  BY <1>3
<1>6. LenOf(all) = LenOf(b)
  BY <1>5 DEF LenOf
<1> QED
  BY <1>4, <1>6 DEF all

\* A chunk leaves what is in the buffer and on the wire together as it was.
LEMMA DeliverStep ==
  ASSUME FrameInv, NEW n \in 1 .. Len(wire), Deliver(n)
  PROVE  FrameInv'
<1> DEFINE chunk == SubSeq(wire, 1, n)
           left == SubSeq(wire, n + 1, Len(wire))
<1>1. /\ buf \in Seq(Byte) /\ wire \in Seq(Byte)
      /\ buf' = buf \o chunk /\ wire' = left /\ UNCHANGED <<written, parsed, panicked>>
  BY DEF FrameInv, Deliver
<1>2. Len(wire) \in Nat /\ n \in 1 .. Len(wire)
  BY <1>1
<1>3. chunk \in Seq(Byte) /\ left \in Seq(Byte)
  BY <1>1, <1>2
<1>4. chunk \o left = wire
  <2>1. n \in 0 .. Len(wire)
    BY <1>2
  <2> QED
    BY <1>1, <2>1, CutAndJoined
<1> HIDE DEF chunk, left
<1>5. buf' \o wire' = buf \o wire
  BY <1>1, <1>3, <1>4, Regroup
<1>6. buf' \in Seq(Byte) /\ wire' \in Seq(Byte)
  BY <1>1, <1>3, ConcatProperties
<1>7. PICK rest : FramesLeft(rest)
  BY DEF FrameInv
<1>8. FramesLeft(rest)'
  BY <1>1, <1>5, <1>7 DEF FramesLeft
<1> QED
  BY <1>1, <1>6, <1>8 DEF FrameInv

\* If anything is left, the next frame is the next message's.
LEMMA NextFrame ==
  ASSUME FrameInv, NEW rest, FramesLeft(rest), buf \o wire # <<>>
  PROVE  /\ Len(parsed) < Len(written)
         /\ LET m == written[Len(parsed) + 1]
            IN  /\ m \in Frames
                /\ rest[Len(parsed) + 1] \in Seq(Byte)
                /\ buf \o wire = WriteFrame(m) \o rest[Len(parsed) + 1]
<1> DEFINE k == Len(parsed)
<1>1. k \in Nat /\ Len(written) \in Nat /\ k <= Len(written)
  BY DEF FrameInv
<1>2. k # Len(written)
  BY DEF FramesLeft
<1>3. k < Len(written) /\ k + 1 \in k + 1 .. Len(written) /\ k + 1 \in 1 .. Len(written)
      /\ k + 1 \in k .. Len(written) /\ (k + 1) - 1 = k
  BY <1>1, <1>2
<1>4. written[k + 1] \in Frames
  BY <1>3, ElementOfSeq DEF FrameInv
<1>5. rest[k + 1] \in Seq(Byte)
  BY <1>3 DEF FramesLeft
<1>6. rest[(k + 1) - 1] = WriteFrame(written[k + 1]) \o rest[k + 1]
  BY <1>3 DEF FramesLeft
<1>7. buf \o wire = rest[k]
  BY DEF FramesLeft
<1> QED
  BY <1>3, <1>4, <1>5, <1>6, <1>7

\* An iteration of process_buf takes exactly the next message off, and finds
\* its flag to be 0.
LEMMA ProcessStep ==
  ASSUME FrameInv, Process
  PROVE  FrameInv'
<1> DEFINE k == Len(parsed)
           m == written[k + 1]
           end == FrameEnd(buf)
<1>1. PICK rest : FramesLeft(rest)
  BY DEF FrameInv
<1>2. buf \in Seq(Byte) /\ wire \in Seq(Byte) /\ Len(buf) \in Nat /\ Len(wire) \in Nat
  BY DEF FrameInv
<1>3. Len(buf) >= HeaderLen
  BY DEF Process, BadFlag, HasFrame
<1>4. buf \o wire # <<>>
  <2>1. Len(buf \o wire) = Len(buf) + Len(wire)
    BY <1>2, ConcatLayout
  <2>2. Len(buf \o wire) # 0
    BY <1>2, <1>3, <2>1 DEF HeaderLen
  <2> QED
    BY <2>2
<1>5. k < Len(written) /\ m \in Frames /\ rest[k + 1] \in Seq(Byte)
      /\ buf \o wire = WriteFrame(m) \o rest[k + 1]
  BY <1>1, <1>4, NextFrame
<1> HIDE DEF m
<1>6. m \in Seq(Byte) /\ Fits(m) /\ WriteFrame(m) \in Seq(Byte)
      /\ Len(WriteFrame(m)) = Len(m) + HeaderLen
  BY <1>5, FrameBytes, WriteFrameLayout
<1>7. /\ ~ BadFlag(buf \o wire) /\ LenOf(buf \o wire) = Len(m)
      /\ FrameOf(buf \o wire) = m
  BY <1>5, <1>6, ParseGivesBack, WriteFrameLayout
<1>8. ~ BadFlag(buf) /\ LenOf(buf) = Len(m)
  BY <1>2, <1>3, <1>7, HeaderInBuffer
<1>9. /\ HasFrame(buf) /\ parsed' = Append(parsed, FrameOf(buf))
      /\ buf' = SubSeq(buf, end + 1, Len(buf)) /\ UNCHANGED <<written, wire, panicked>>
  BY <1>8 DEF Process
<1>10. Len(m) \in Nat /\ end = Len(m) + 5 /\ end \in 1 .. Len(buf)
  BY <1>2, <1>6, <1>8, <1>9 DEF FrameEnd, HasFrame, HeaderLen
<1> DEFINE first == SubSeq(buf, 1, end)
<1> HIDE DEF end
<1>11. first \in Seq(Byte) /\ Len(first) = end /\ buf' \in Seq(Byte)
       /\ \A i \in 1 .. end : first[i] = buf[i]
  BY <1>2, <1>9, <1>10
<1>12. first \o buf' = buf
  <2>1. end \in 0 .. Len(buf)
    BY <1>2, <1>10
  <2>2. first \o SubSeq(buf, end + 1, Len(buf)) = buf
    BY <1>2, <2>1, CutAndJoined
  <2> QED
    BY <1>9, <2>2
<1> HIDE DEF first
<1>13. first = WriteFrame(m) /\ buf' \o wire = rest[k + 1]
  <2>1. first \o (buf' \o wire) = WriteFrame(m) \o rest[k + 1]
    BY <1>2, <1>5, <1>11, <1>12, Regroup
  <2>2. buf' \o wire \in Seq(Byte)
    BY <1>2, <1>11, ConcatLayout
  <2>3. Len(first) = Len(WriteFrame(m))
    BY <1>6, <1>10, <1>11 DEF HeaderLen
  <2> DEFINE w == WriteFrame(m)
             tail == buf' \o wire
  <2>4. w \in Seq(Byte) /\ tail \in Seq(Byte)
    BY <1>6, <2>2
  <2> HIDE DEF w, tail
  <2>5. first \o tail = w \o rest[k + 1] /\ Len(first) = Len(w)
    BY <2>1, <2>3 DEF w, tail
  <2>6. first = w /\ tail = rest[k + 1]
    BY <1>5, <1>11, <2>4, <2>5, SameCut
  <2> QED
    BY <2>6 DEF w, tail
<1>14. FrameOf(buf) = m
  <2>1. FrameOf(buf) = SubSeq(buf, 6, Len(m) + 5)
    BY <1>10 DEF FrameOf, HeaderLen, end
  <2>2. /\ SubSeq(buf, 6, Len(m) + 5) \in Seq(Byte)
        /\ Len(SubSeq(buf, 6, Len(m) + 5)) = Len(m)
        /\ \A i \in 1 .. Len(m) : SubSeq(buf, 6, Len(m) + 5)[i] = buf[i + 5]
    BY <1>2, <1>10
  <2>3. ASSUME NEW i \in 1 .. Len(m) PROVE SubSeq(buf, 6, Len(m) + 5)[i] = m[i]
    <3>1. <<>> \in Seq(Byte) /\ first \o <<>> = first
      BY <1>11, ConcatEmptySeq
    <3>2. first[i + 5] = m[i]
      BY <1>6, <1>13, <3>1, WriteFrameLayout DEF HeaderLen
    <3>3. i + 5 \in 1 .. end
      BY <1>10
    <3> QED
      BY <1>11, <2>2, <3>2, <3>3
  <2> QED
    BY <1>6, <2>1, <2>2, <2>3, SeqEqual
<1>15. /\ parsed' \in Seq(Frames) /\ Len(parsed') = k + 1
       /\ \A i \in 1 .. k : parsed'[i] = parsed[i]
       /\ parsed'[k + 1] = m
  BY <1>5, <1>9, <1>14 DEF FrameInv
<1>16. k \in Nat /\ Len(written) \in Nat
  BY DEF FrameInv
<1> HIDE DEF k
<1>17. ASSUME NEW i \in 1 .. k + 1 PROVE parsed'[i] = written[i]
  <2>1. CASE i = k + 1
    BY <1>15, <2>1 DEF m
  <2>2. CASE i # k + 1
    <3>1. i \in 1 .. k
      BY <1>16, <2>2
    <3> QED
      BY <1>15, <3>1 DEF FrameInv, k
  <2> QED
    BY <2>1, <2>2
<1>18. PICK next : next = [i \in k + 1 .. Len(written) |-> rest[i]]
  OBVIOUS
<1>19. FramesLeft(next)'
  <2>1. /\ rest \in [k .. Len(written) -> Seq(Byte)] /\ rest[Len(written)] = <<>>
        /\ \A i \in k + 1 .. Len(written) : rest[i - 1] = WriteFrame(written[i]) \o rest[i]
    BY <1>1 DEF FramesLeft, k
  <2>2. /\ next \in [k + 1 .. Len(written) -> Seq(Byte)]
        /\ \A i \in k + 1 .. Len(written) : next[i] = rest[i]
    <3>1. \A i \in k + 1 .. Len(written) : i \in k .. Len(written)
      BY <1>16
    <3> QED
      BY <1>18, <2>1, <3>1
  <2>3. next[k + 1] = rest[k + 1] /\ next[Len(written)] = <<>>
    <3>1. k + 1 \in k + 1 .. Len(written) /\ Len(written) \in k + 1 .. Len(written)
      BY <1>5, <1>16
    <3> QED
      BY <2>1, <2>2, <3>1
  <2>4. ASSUME NEW i \in (k + 1) + 1 .. Len(written)
        PROVE  next[i - 1] = WriteFrame(written[i]) \o next[i]
    <3>1. i \in k + 1 .. Len(written) /\ i - 1 \in k + 1 .. Len(written)
      BY <1>16
    <3> QED
      BY <2>1, <2>2, <3>1
  <2>5. buf' \o wire' = next[k + 1]
    BY <1>9, <1>13, <2>3
  <2> QED
    BY <1>9, <1>15, <2>2, <2>3, <2>4, <2>5 DEF FramesLeft
<1>20. k + 1 <= Len(written)
  BY <1>5, <1>16
<1> QED
  BY <1>2, <1>9, <1>11, <1>15, <1>17, <1>19, <1>20 DEF FrameInv

LEMMA FrameAlways == Spec => []FrameInv
<1>1. FrameInv /\ [Next]_vars => FrameInv'
  <2> SUFFICES ASSUME FrameInv, [Next]_vars PROVE FrameInv'
    OBVIOUS
  <2>1. CASE UNCHANGED vars
    <3>1. PICK rest : FramesLeft(rest)
      BY DEF FrameInv
    <3>2. FramesLeft(rest)'
      BY <2>1, <3>1 DEF FramesLeft, vars
    <3> QED
      BY <2>1, <3>2 DEF FrameInv, vars
  <2> QED
    BY <2>1, WriteStep, DeliverStep, ProcessStep DEF Next
<1> QED
  BY <1>1, FrameInit, PTL DEF Spec

\* However the transport cuts the stream, the messages come out of
\* GrpcStream::process_buf as write_frame was given them, in their order and
\* all of them, and its assertion on the flag never fails.
THEOREM FramesAreParsed == Spec => []FramesSurvive
<1>1. ASSUME FrameInv, wire = <<>>, Settled
      PROVE  parsed = written /\ buf = <<>>
  <2>1. PICK rest : FramesLeft(rest)
    BY <1>1 DEF FrameInv
  <2>2. buf \in Seq(Byte) /\ buf \o wire = buf
    BY <1>1, ConcatEmptySeq DEF FrameInv
  <2>3. CASE buf = <<>>
    <3>1. Len(parsed) = Len(written)
      <4>1. SUFFICES ASSUME Len(parsed) < Len(written) PROVE FALSE
        BY <1>1 DEF FrameInv
      <4> DEFINE k == Len(parsed)
                 f == WriteFrame(written[k + 1])
      <4>2. k \in Nat /\ Len(written) \in Nat
        BY <1>1 DEF FrameInv
      <4>3. k + 1 \in k + 1 .. Len(written) /\ k + 1 \in 1 .. Len(written)
            /\ k + 1 \in k .. Len(written) /\ (k + 1) - 1 = k
        BY <4>1, <4>2
      <4>4. buf = f \o rest[k + 1] /\ rest[k + 1] \in Seq(Byte)
        BY <2>1, <2>2, <4>3 DEF FramesLeft
      <4>5. written[k + 1] \in Frames
        BY <1>1, <4>3, ElementOfSeq DEF FrameInv
      <4>6. HasFrame(buf)
        BY <4>4, <4>5, FrameBytes, ParseGivesBack
      <4> QED
        BY <1>1, <4>6 DEF Settled
    <3> QED
      BY <1>1, <2>3, <3>1, SeqEqual DEF FrameInv
  <2>4. CASE buf # <<>>
    <3> DEFINE m == written[Len(parsed) + 1]
    <3>1. m \in Frames /\ rest[Len(parsed) + 1] \in Seq(Byte)
          /\ buf = WriteFrame(m) \o rest[Len(parsed) + 1]
      BY <1>1, <2>1, <2>2, <2>4, NextFrame
    <3> HIDE DEF m
    <3>2. HasFrame(buf)
      BY <3>1, FrameBytes, ParseGivesBack
    <3> QED
      BY <1>1, <3>2 DEF Settled
  <2> QED
    BY <2>3, <2>4
<1>2. FrameInv => FramesSurvive
  BY <1>1 DEF FrameInv, FramesSurvive
<1> QED
  BY <1>2, FrameAlways, PTL

=============================================================================
