------------------------- MODULE IrChatCodec_proofs -------------------------
(***************************************************************************)
(* The stream decoder is bounded, accounts for every frame and decodes     *)
(* every frame that arrives undisturbed: for every payload limit, set of   *)
(* frames, durations of noise and number of disturbances.                  *)
(*                                                                         *)
(* DecoderBounded is not inductive: that a frame in progress is shorter    *)
(* than the length its header announced depends on that length being one   *)
(* of a header (Lengths) and on it being known once the header is there.   *)
(* CleanFrameDecoded is about the last sample of a frame; CleanInv says    *)
(* what the decoder holds after each of the samples before it.             *)
(***************************************************************************)
EXTENDS IrChatCodec, SequenceTheorems, TLAPS

States  == FrameStates \union {"SeekingLeader"}
Lengths == {HeaderBits + 8 * n + CrcBits : n \in Sizes}

DecoderInv ==
    /\ state \in States
    /\ bits \in Seq(BOOLEAN) /\ samples \in Nat
    /\ expected \in Lengths \union {0}
    /\ expected = 0 => Len(bits) < HeaderBits
    /\ expected # 0 => Len(bits) <= expected /\ (state # "TrailerMark" => Len(bits) < expected)
    /\ state \in {"SeekingLeader", "LeaderSpace"} => bits = <<>> /\ expected = 0
    /\ pending # None <=> state = "TrailerMark"

AccountInv ==
    /\ state \in States
    /\ stats \in [decoded : Nat, crc : Nat, malformed : Nat]
    /\ begun \in Nat /\ forgotten \in Nat
    /\ EveryFrameAccounted

-----------------------------------------------------------------------------
(* Facts about the operators.                                              *)

LEMMA LengthBound ==
    ASSUME NEW e \in Lengths
    PROVE  e \in Nat /\ e > HeaderBits /\ e <= HeaderBits + 8 * MaxPayload + CrcBits
BY CodecAssumption DEF Lengths, Sizes, HeaderBits, CrcBits

LEMMA BitIsBoolean ==
    ASSUME NEW s PROVE IsOne(s) \in BOOLEAN
BY DEF IsOne

LEMMA FrameIsSome ==
    ASSUME NEW a, NEW b PROVE [seq |-> a, text |-> b, samples |-> 0] # None
<1>1. "seq" \in DOMAIN [seq |-> a, text |-> b, samples |-> 0]
  OBVIOUS
<1>2. "seq" \notin DOMAIN None
  BY DEF None
<1>3. QED
  BY <1>1, <1>2

\* A header that is not rejected announces a length.
LEMMA HeaderGivesLength ==
    ASSUME NEW b, Len(b) = HeaderBits, ~BadHeader(b)
    PROVE  ExpectedAfter(b) \in Lengths
<1>1. \E n \in Sizes : SizeByte(b) = ByteOf(n)
  BY DEF BadHeader
<1> DEFINE n == CHOOSE k \in Sizes : SizeByte(b) = ByteOf(k)
<1>2. n \in Sizes
  BY <1>1
<1>3. ExpectedAfter(b) = HeaderBits + 8 * n + CrcBits
  BY DEF ExpectedAfter
<1>4. QED
  BY <1>2, <1>3 DEF Lengths

-----------------------------------------------------------------------------
(* The decoder's state.                                                    *)

LEMMA FreshKeepsDecoder ==
    ASSUME NEW st, NEW n \in {0, 1}, Fresh(st, n), st \in {"SeekingLeader", "LeaderSpace"}
    PROVE  DecoderInv'
BY DEF Fresh, DecoderInv, States, FrameStates, HeaderBits, None

LEMMA RestartKeepsDecoder ==
    ASSUME NEW s, RestartFrom(s) PROVE DecoderInv'
BY FreshKeepsDecoder DEF RestartFrom, BeginFrame, Reset

LEMMA ConsumeBitKeepsDecoder ==
    ASSUME DecoderInv, state = "BitSpace", NEW bit \in BOOLEAN, ConsumeBit(bit)
    PROVE  DecoderInv'
<1> DEFINE b == Append(bits, bit)
           e == ExpectedAfter(b)
           complete == e # 0 /\ Len(b) = e
<1>1. b \in Seq(BOOLEAN) /\ Len(b) = Len(bits) + 1 /\ Len(bits) \in Nat
  BY DEF DecoderInv
<1>2. CASE Reset
  BY <1>2, FreshKeepsDecoder DEF Reset
<1>3. CASE ~Reset
  <2>1. ~BadHeader(b)
    BY <1>3 DEF ConsumeBit
  <2>2. /\ e \in Lengths \union {0}
        /\ e = 0 => Len(b) < HeaderBits
        /\ e # 0 => Len(b) <= e
    <3>1. CASE Len(b) = HeaderBits
      <4>1. e \in Lengths
        BY <2>1, <3>1, HeaderGivesLength
      <4>2. QED
        BY <3>1, <4>1, LengthBound DEF HeaderBits
    <3>2. CASE Len(b) # HeaderBits
      <4>1. e = expected
        BY <3>2 DEF ExpectedAfter
      <4>2. expected \in Lengths => expected \in Nat
        BY LengthBound
      <4>3. QED
        BY <1>1, <3>2, <4>1, <4>2 DEF DecoderInv, HeaderBits
    <3>3. QED
      BY <3>1, <3>2
  <2>3. e \in Nat
    BY <2>2, LengthBound
  <2> HIDE DEF b, e
  <2>4. CASE ~complete
    <3>1. /\ Advance("BitMark") /\ bits' = b /\ expected' = e
          /\ pending' = pending
      BY <2>1, <2>4 DEF ConsumeBit, b, e
    <3>2. pending' = None /\ state' = "BitMark" /\ samples' \in Nat
      BY <3>1 DEF DecoderInv, Advance
    <3>3. QED
      BY <1>1, <2>2, <2>3, <2>4, <3>1, <3>2 DEF DecoderInv, States, FrameStates
  <2>5. CASE complete
    <3>1. /\ Advance("TrailerMark") /\ bits' = b /\ expected' = e
          /\ pending' = [seq |-> SubSeq(b, 25, 40), text |-> Text(b), samples |-> 0]
      BY <1>3, <2>1, <2>5 DEF ConsumeBit, b, e
    <3>2. pending' # None /\ state' = "TrailerMark" /\ samples' \in Nat
      BY <3>1, FrameIsSome DEF DecoderInv, Advance
    <3>3. QED
      BY <1>1, <2>2, <2>3, <3>1, <3>2 DEF DecoderInv, States, FrameStates
  <2>6. QED
    BY <2>4, <2>5
<1>4. QED
  BY <1>2, <1>3

LEMMA FeedKeepsDecoder ==
    ASSUME DecoderInv, NEW s, Feed(s) PROVE DecoderInv'
<1>1. CASE s.us = 0
  BY <1>1 DEF Feed, decoder, DecoderInv
<1>2. CASE RestartFrom(s) \/ Reset \/ BeginFrame
  BY <1>2, RestartKeepsDecoder, FreshKeepsDecoder DEF Reset, BeginFrame
<1> SUFFICES ASSUME s.us # 0, ~(RestartFrom(s) \/ Reset \/ BeginFrame) PROVE DecoderInv'
  BY <1>1, <1>2
<1>3. CASE state = "SeekingLeader" /\ Seek(s)
  BY <1>3 DEF Seek, DecoderInv
<1>4. CASE state = "LeaderSpace" /\ LeaderSpace(s)
  <2>1. /\ state' = "BitMark" /\ samples' = samples + 1
        /\ UNCHANGED <<bits, expected, pending>>
    BY <1>4 DEF LeaderSpace, RejectAndRestart, Advance
  <2>2. expected = 0 /\ pending = None
    BY <1>4 DEF DecoderInv
  <2>3. QED
    BY <2>1, <2>2 DEF DecoderInv, States, FrameStates
<1>5. CASE state = "BitMark" /\ BitMark(s)
  BY <1>5 DEF BitMark, RejectAndRestart, Advance, DecoderInv, States, FrameStates
<1>6. CASE state = "BitSpace" /\ BitSpace(s)
  BY <1>6, BitIsBoolean, ConsumeBitKeepsDecoder DEF BitSpace, RejectAndRestart
<1>7. CASE state = "TrailerMark" /\ TrailerMark(s)
  BY <1>7 DEF TrailerMark, RejectAndRestart
<1>8. QED
  BY <1>3, <1>4, <1>5, <1>6, <1>7 DEF Feed

LEMMA NextKeepsDecoder == DecoderInv /\ [Next]_vars => DecoderInv'
<1> SUFFICES ASSUME DecoderInv, [Next]_vars PROVE DecoderInv'
  OBVIOUS
<1>1. CASE UNCHANGED decoder
  BY <1>1 DEF decoder, DecoderInv
<1>2. CASE \E s : Feed(s)
  BY <1>2, FeedKeepsDecoder
<1>3. CASE Reset
  BY <1>3, FreshKeepsDecoder DEF Reset
<1>4. CASE Transmit
  BY <1>1, <1>4 DEF Transmit
<1>5. CASE Arrive
  BY <1>2, <1>5 DEF Arrive
<1>6. CASE Alter
  BY <1>1, <1>2, <1>6 DEF Alter
<1>7. CASE Add
  BY <1>2, <1>7 DEF Add
<1>8. CASE Cut
  BY <1>1, <1>8 DEF Cut
<1>9. CASE Forget
  BY <1>3, <1>9 DEF Forget
<1>10. CASE UNCHANGED vars
  BY <1>1, <1>10 DEF vars
<1>11. QED
  BY <1>4, <1>5, <1>6, <1>7, <1>8, <1>9, <1>10 DEF Next

\* Whatever arrives, what the decoder holds is bounded by the longest frame the
\* protocol allows, and it holds nothing between frames (_bytes,
\* _expected_bytes and _pending_frame of IrChatStreamDecoder).
THEOREM DecoderIsBounded == Spec => []DecoderBounded
<1>1. Init => DecoderInv
  BY DEF Init, DecoderInv, States, HeaderBits
<1>2. DecoderInv => DecoderBounded
  BY LengthBound, CodecAssumption DEF DecoderInv, DecoderBounded, States, HeaderBits, CrcBits
<1>3. QED
  BY <1>1, <1>2, NextKeepsDecoder, PTL DEF Spec

-----------------------------------------------------------------------------
(* The account of the frames.                                              *)

InFrame(st) == IF st = "SeekingLeader" THEN 0 ELSE 1

\* A frame that ends is counted once, and another may begin at once.
LEMMA CountAndFresh ==
    ASSUME AccountInv, state # "SeekingLeader", NEW c \in {"decoded", "crc", "malformed"}, Count(c),
           NEW st \in States, NEW n \in {0, 1}, n = InFrame(st), Fresh(st, n), forgotten' = forgotten
    PROVE  AccountInv'
<1> DEFINE ended == stats.decoded + stats.crc + stats.malformed
<1>1. /\ stats.decoded \in Nat /\ stats.crc \in Nat /\ stats.malformed \in Nat
      /\ begun \in Nat /\ forgotten \in Nat
      /\ begun = ended + forgotten + 1
  BY DEF AccountInv, EveryFrameAccounted
<1>2. /\ stats' \in [decoded : Nat, crc : Nat, malformed : Nat]
      /\ ended' = ended + 1
  <2>1. CASE c = "decoded"
    BY <1>1, <2>1 DEF Count, AccountInv
  <2>2. CASE c = "crc"
    BY <1>1, <2>2 DEF Count, AccountInv
  <2>3. CASE c = "malformed"
    BY <1>1, <2>3 DEF Count, AccountInv
  <2>4. QED
    BY <2>1, <2>2, <2>3
<1>3. state' = st /\ begun' = begun + n
  BY DEF Fresh
<1>4. EveryFrameAccounted'
  BY <1>1, <1>2, <1>3 DEF EveryFrameAccounted, InFrame
<1>5. QED
  BY <1>1, <1>2, <1>3, <1>4 DEF AccountInv

LEMMA RejectAccounted ==
    ASSUME AccountInv, state # "SeekingLeader", NEW s, RejectAndRestart(s), forgotten' = forgotten
    PROVE  AccountInv'
BY CountAndFresh DEF RejectAndRestart, RestartFrom, Reset, BeginFrame, InFrame, States, FrameStates

LEMMA EndAccounted ==
    ASSUME AccountInv, state # "SeekingLeader", NEW c \in {"decoded", "crc", "malformed"}, Count(c),
           Reset, forgotten' = forgotten
    PROVE  AccountInv'
BY CountAndFresh DEF Reset, InFrame, States

LEMMA AdvanceAccounted ==
    ASSUME AccountInv, state # "SeekingLeader", NEW st \in FrameStates, Advance(st),
           UNCHANGED <<stats, begun, forgotten>>
    PROVE  AccountInv'
BY DEF AccountInv, EveryFrameAccounted, Advance, States, FrameStates

LEMMA ConsumeBitAccounted ==
    ASSUME AccountInv, state = "BitSpace", NEW bit, ConsumeBit(bit), forgotten' = forgotten
    PROVE  AccountInv'
<1>1. CASE \E c \in {"crc", "malformed"} : Count(c) /\ Reset
  BY <1>1, EndAccounted
<1>2. CASE \E st \in {"BitMark", "TrailerMark"} : Advance(st) /\ UNCHANGED <<stats, begun>>
  BY <1>2, AdvanceAccounted DEF FrameStates
<1>3. QED
  BY <1>1, <1>2 DEF ConsumeBit

LEMMA FeedAccounted ==
    ASSUME AccountInv, NEW s, Feed(s) PROVE AccountInv'
<1>1. CASE s.us = 0
  BY <1>1 DEF Feed, decoder, AccountInv, EveryFrameAccounted
<1>2. forgotten' = forgotten
  BY DEF Feed
<1>3. CASE state = "SeekingLeader" /\ Seek(s)
  <2>1. stats' = stats
    BY <1>3 DEF Seek
  <2>2. CASE BeginFrame
    BY <1>2, <1>3, <2>1, <2>2 DEF BeginFrame, Fresh, AccountInv, EveryFrameAccounted, States, FrameStates
  <2>3. CASE UNCHANGED <<state, begun>>
    BY <1>2, <2>1, <2>3 DEF AccountInv, EveryFrameAccounted
  <2>4. QED
    BY <1>3, <2>2, <2>3 DEF Seek
<1>4. CASE state = "LeaderSpace" /\ LeaderSpace(s)
  BY <1>2, <1>4, RejectAccounted, AdvanceAccounted DEF LeaderSpace, FrameStates
<1>5. CASE state = "BitMark" /\ BitMark(s)
  BY <1>2, <1>5, RejectAccounted, AdvanceAccounted DEF BitMark, FrameStates
<1>6. CASE state = "BitSpace" /\ BitSpace(s)
  BY <1>2, <1>6, RejectAccounted, EndAccounted, ConsumeBitAccounted DEF BitSpace
<1>7. CASE state = "TrailerMark" /\ TrailerMark(s)
  BY <1>2, <1>7, RejectAccounted, EndAccounted DEF TrailerMark
<1>8. QED
  BY <1>1, <1>3, <1>4, <1>5, <1>6, <1>7 DEF Feed

LEMMA NextAccounted == AccountInv /\ [Next]_vars => AccountInv'
<1> SUFFICES ASSUME AccountInv, [Next]_vars PROVE AccountInv'
  OBVIOUS
<1>1. CASE UNCHANGED <<decoder, begun, forgotten>>
  BY <1>1 DEF decoder, AccountInv, EveryFrameAccounted
<1>2. CASE \E s : Feed(s)
  BY <1>2, FeedAccounted
<1>3. CASE Transmit
  BY <1>1, <1>3 DEF Transmit
<1>4. CASE Arrive
  BY <1>2, <1>4 DEF Arrive
<1>5. CASE Alter
  BY <1>1, <1>2, <1>5 DEF Alter
<1>6. CASE Add
  BY <1>2, <1>6 DEF Add
<1>7. CASE Cut
  BY <1>1, <1>7 DEF Cut
<1>8. CASE Forget
  BY <1>8 DEF Forget, Reset, Fresh, AccountInv, EveryFrameAccounted, States, FrameStates
<1>9. CASE UNCHANGED vars
  BY <1>1, <1>9 DEF vars
<1>10. QED
  BY <1>3, <1>4, <1>5, <1>6, <1>7, <1>8, <1>9 DEF Next

\* A frame begun is decoded, counted in one of the two error counters
\* (IrChatDecoderStats), forgotten by a reset of the backend, or in progress; never
\* two of these, however frames and disturbances follow each other.
THEOREM FramesAreAccounted == Spec => []EveryFrameAccounted
<1>1. Init => AccountInv
  BY DEF Init, AccountInv, States, EveryFrameAccounted
<1>2. AccountInv => EveryFrameAccounted
  BY DEF AccountInv
<1>3. QED
  BY <1>1, <1>2, NextAccounted, PTL DEF Spec

-----------------------------------------------------------------------------
(* The parts of a frame.                                                   *)

LEMMA Joined ==
    ASSUME NEW s \in Seq(BOOLEAN), NEW t \in Seq(BOOLEAN)
    PROVE  /\ s \o t \in Seq(BOOLEAN) /\ Len(s \o t) = Len(s) + Len(t)
           /\ SubSeq(s \o t, 1, Len(s)) = s
           /\ SubSeq(s \o t, Len(s) + 1, Len(s) + Len(t)) = t
           /\ \A i, j \in 1 .. Len(s) : SubSeq(s \o t, i, j) = SubSeq(s, i, j)
<1>1. s \o t \in Seq(BOOLEAN) /\ Len(s \o t) = Len(s) + Len(t) /\ Len(s) \in Nat /\ Len(t) \in Nat
  OBVIOUS
<1>2. ASSUME NEW i \in 1 .. Len(s), NEW j \in 1 .. Len(s) PROVE SubSeq(s \o t, i, j) = SubSeq(s, i, j)
  BY SubSeqOfConcat1
<1>3. SubSeq(s \o t, 1, Len(s)) = s
  <2>1. CASE Len(s) = 0
    <3>1. s = <<>>
      BY <2>1
    <3>2. QED
      BY <1>1, <2>1, <3>1, SubSeqEmpty
  <2>2. CASE Len(s) # 0
    <3>1. 1 \in 1 .. Len(s) /\ Len(s) \in 1 .. Len(s)
      BY <1>1, <2>2
    <3>2. QED
      BY <1>2, <3>1, SubSeqFull
  <2>3. QED
    BY <2>1, <2>2
<1>4. SubSeq(s \o t, Len(s) + 1, Len(s) + Len(t)) = t
  <2>1. CASE Len(t) = 0
    <3>1. t = <<>>
      BY <2>1
    <3>2. QED
      BY <1>1, <2>1, <3>1, SubSeqEmpty
  <2>2. CASE Len(t) # 0
    <3>1. /\ Len(s) + 1 \in Len(s) + 1 .. Len(s) + Len(t)
          /\ Len(s) + Len(t) \in Len(s) + 1 .. Len(s) + Len(t)
          /\ (Len(s) + 1) - Len(s) = 1 /\ (Len(s) + Len(t)) - Len(s) = Len(t)
      BY <1>1, <2>2
    <3>2. QED
      BY <3>1, SubSeqOfConcat2, SubSeqFull
  <2>3. QED
    BY <2>1, <2>2
<1>5. QED
  BY <1>1, <1>2, <1>3, <1>4

LEMMA Kept ==
    ASSUME NEW s \in Seq(BOOLEAN), NEW t \in Seq(BOOLEAN),
           NEW i \in 1 .. Len(s), NEW j \in 1 .. Len(s)
    PROVE  SubSeq(s \o t, i, j) = SubSeq(s, i, j)
BY Joined

LEMMA ByteType == ASSUME NEW n PROVE ByteOf(n) \in Seq(BOOLEAN) /\ Len(ByteOf(n)) = 8
BY DEF ByteOf

LEMMA CrcType == ASSUME NEW data PROVE Crc16(data) \in Seq(BOOLEAN) /\ Len(Crc16(data)) = CrcBits
BY DEF Crc16, CrcBits

LEMMA FrameType ==
    ASSUME NEW f \in Frames
    PROVE  /\ f.seq \in Seq(BOOLEAN) /\ Len(f.seq) = 16 /\ f.text \in Seq(BOOLEAN) /\ IsPrintable(f.text)
           /\ \E n \in Sizes : Len(f.text) = 8 * n /\ Len(f.text) \div 8 = n
<1>1. /\ f.seq \in Seq(BOOLEAN) /\ Len(f.seq) = 16 /\ f.text \in Seq(BOOLEAN) /\ Encodable(f)
      /\ MaxPayload \in Nat
  BY CodecAssumption
<1>2. PICK n \in 1 .. MaxPayload : Len(f.text) = 8 * n
  BY <1>1 DEF Encodable
<1>3. (8 * n) \div 8 = n
  BY <1>1
<1>4. QED
  BY <1>1, <1>2, <1>3 DEF Encodable, Sizes

\* The header, the text and the checksum of the bits of a frame.
LEMMA PartsOfFrame ==
    ASSUME NEW f \in Frames
    PROVE  LET b == FrameBits(f)
               n == HeaderBits + Len(f.text)
           IN  /\ b \in Seq(BOOLEAN) /\ n \in Nat /\ n > HeaderBits /\ Len(b) = n + CrcBits
               /\ SubSeq(b, 1, 8) = Magic1 /\ SubSeq(b, 9, 16) = Magic2 /\ SubSeq(b, 17, 24) = Version
               /\ SubSeq(b, 25, 40) = f.seq /\ SubSeq(b, 41, 48) = ByteOf(Len(f.text) \div 8)
               /\ SubSeq(b, HeaderBits + 1, n) = f.text
               /\ SubSeq(b, n + 1, Len(b)) = Crc16(SubSeq(b, 1, n))
<1> DEFINE size == ByteOf(Len(f.text) \div 8)
           d1 == Magic1 \o Magic2
           d2 == d1 \o Version
           d3 == d2 \o f.seq
           d4 == d3 \o size
           d5 == d4 \o f.text
           b  == d5 \o Crc16(d5)
           n  == HeaderBits + Len(f.text)
           m  == n + CrcBits
<1>1. /\ f.seq \in Seq(BOOLEAN) /\ Len(f.seq) = 16 /\ f.text \in Seq(BOOLEAN)
      /\ Len(f.text) \in Nat /\ Len(f.text) > 0
  <2>1. PICK k \in Sizes : Len(f.text) = 8 * k
    BY FrameType
  <2>2. k \in Nat /\ k > 0
    BY CodecAssumption DEF Sizes
  <2>3. Len(f.text) \in Nat /\ Len(f.text) > 0
    BY <2>1, <2>2
  <2>4. QED
    BY <2>3, FrameType
<1>2. b = FrameBits(f)
  BY DEF FrameBits, Data
<1>3. /\ Magic1 \in Seq(BOOLEAN) /\ Len(Magic1) = 8 /\ Magic2 \in Seq(BOOLEAN) /\ Len(Magic2) = 8
      /\ Version \in Seq(BOOLEAN) /\ Len(Version) = 8 /\ size \in Seq(BOOLEAN) /\ Len(size) = 8
  BY ByteType DEF Magic1, Magic2, Version
<1> HIDE DEF size
<1>4. d1 \in Seq(BOOLEAN) /\ Len(d1) = 16 /\ SubSeq(d1, 1, 8) = Magic1 /\ SubSeq(d1, 9, 16) = Magic2
  <2>1. /\ d1 \in Seq(BOOLEAN) /\ Len(d1) = Len(Magic1) + Len(Magic2)
        /\ SubSeq(d1, 1, Len(Magic1)) = Magic1
        /\ SubSeq(d1, Len(Magic1) + 1, Len(Magic1) + Len(Magic2)) = Magic2
    BY <1>3, Joined
  <2>2. Len(Magic1) = 8 /\ Len(Magic1) + 1 = 9 /\ Len(Magic1) + Len(Magic2) = 16
    BY <1>3
  <2> HIDE DEF d1
  <2>3. QED
    BY <2>1, <2>2, Zenon
<1>5. d2 \in Seq(BOOLEAN) /\ Len(d2) = 24 /\ SubSeq(d2, 17, 24) = Version
  <2> HIDE DEF d1
  <2>1. /\ d2 \in Seq(BOOLEAN) /\ Len(d2) = Len(d1) + Len(Version)
        /\ SubSeq(d2, 1, Len(d1)) = d1 /\ SubSeq(d2, Len(d1) + 1, Len(d1) + Len(Version)) = Version
    BY <1>3, <1>4, Joined
  <2>2. Len(d1) = 16 /\ Len(d1) + 1 = 17 /\ Len(d1) + Len(Version) = 24
    BY <1>3, <1>4
  <2> HIDE DEF d2
  <2>3. QED
    BY <2>1, <2>2, Zenon
<1>6. d3 \in Seq(BOOLEAN) /\ Len(d3) = 40 /\ SubSeq(d3, 25, 40) = f.seq
  <2> HIDE DEF d2
  <2>1. /\ d3 \in Seq(BOOLEAN) /\ Len(d3) = Len(d2) + Len(f.seq)
        /\ SubSeq(d3, 1, Len(d2)) = d2 /\ SubSeq(d3, Len(d2) + 1, Len(d2) + Len(f.seq)) = f.seq
    BY <1>1, <1>5, Joined
  <2>2. Len(d2) = 24 /\ Len(d2) + 1 = 25 /\ Len(d2) + Len(f.seq) = 40
    BY <1>1, <1>5
  <2> HIDE DEF d3
  <2>3. QED
    BY <2>1, <2>2, Zenon
<1>7. d4 \in Seq(BOOLEAN) /\ Len(d4) = 48 /\ SubSeq(d4, 41, 48) = size
  <2> HIDE DEF d3
  <2>1. /\ d4 \in Seq(BOOLEAN) /\ Len(d4) = Len(d3) + Len(size)
        /\ SubSeq(d4, 1, Len(d3)) = d3 /\ SubSeq(d4, Len(d3) + 1, Len(d3) + Len(size)) = size
    BY <1>3, <1>6, Joined
  <2>2. Len(d3) = 40 /\ Len(d3) + 1 = 41 /\ Len(d3) + Len(size) = 48
    BY <1>3, <1>6
  <2> HIDE DEF d4
  <2>3. QED
    BY <2>1, <2>2, Zenon
<1>8. d5 \in Seq(BOOLEAN) /\ Len(d5) = n /\ SubSeq(d5, HeaderBits + 1, n) = f.text /\ n \in Nat /\ n > 48
  <2>1. n \in Nat /\ n > 48 /\ Len(d4) + Len(f.text) = n /\ Len(d4) + 1 = HeaderBits + 1
    BY <1>1, <1>7 DEF HeaderBits
  <2> HIDE DEF d4, n
  <2>2. d4 \in Seq(BOOLEAN) /\ f.text \in Seq(BOOLEAN)
    BY <1>1, <1>7
  <2>3. /\ d5 \in Seq(BOOLEAN) /\ Len(d5) = Len(d4) + Len(f.text)
        /\ SubSeq(d5, Len(d4) + 1, Len(d4) + Len(f.text)) = f.text
    BY <2>2, Joined
  <2> HIDE DEF d5
  <2>4. QED
    BY <2>1, <2>3
<1>9. /\ b \in Seq(BOOLEAN) /\ Len(b) = m /\ SubSeq(b, 1, n) = d5 /\ SubSeq(b, n + 1, m) = Crc16(d5)
      /\ m \in Nat
  <2> HIDE DEF d5, n
  <2>1. m \in Nat /\ n + 1 \in Nat /\ CrcBits = m - n
    BY <1>8 DEF CrcBits
  <2>2. Crc16(d5) \in Seq(BOOLEAN) /\ Len(Crc16(d5)) = m - n
    BY <2>1, CrcType
  <2>3. Len(d5) + Len(Crc16(d5)) = m
    BY <1>8, CrcType DEF CrcBits
  <2> HIDE DEF m
  <2>4. /\ b \in Seq(BOOLEAN) /\ Len(b) = m /\ SubSeq(b, 1, Len(d5)) = d5
        /\ SubSeq(b, Len(d5) + 1, m) = Crc16(d5)
    BY <1>8, <2>2, <2>3, Joined
  <2>5. QED
    BY <1>8, <2>1, <2>4
<1>10. ASSUME NEW i \in 1 .. 48, NEW j \in 1 .. 48 PROVE SubSeq(b, i, j) = SubSeq(d4, i, j)
  <2> HIDE DEF d4
  <2>1. i \in 1 .. Len(d4) /\ j \in 1 .. Len(d4)
    BY <1>7
  <2>2. SubSeq(d5, i, j) = SubSeq(d4, i, j)
    BY <1>1, <1>7, <2>1, Kept
  <2> HIDE DEF d5
  <2>3. i \in 1 .. Len(d5) /\ j \in 1 .. Len(d5)
    BY <1>8
  <2>4. SubSeq(b, i, j) = SubSeq(d5, i, j)
    BY <1>8, <2>3, CrcType, Kept
  <2>5. QED
    BY <2>2, <2>4
<1>11. ASSUME NEW i \in 1 .. 40, NEW j \in 1 .. 40 PROVE SubSeq(b, i, j) = SubSeq(d3, i, j)
  <2>1. i \in 1 .. 48 /\ j \in 1 .. 48 /\ i \in 1 .. Len(d3) /\ j \in 1 .. Len(d3)
    <3>1. Len(d3) = 40
      BY <1>6
    <3> HIDE DEF d3
    <3>2. QED
      BY <3>1
  <2>2. SubSeq(b, i, j) = SubSeq(d4, i, j)
    BY <1>10, <2>1
  <2> HIDE DEF d3, b
  <2>3. SubSeq(d4, i, j) = SubSeq(d3, i, j)
    BY <1>3, <1>6, <2>1, Kept
  <2>4. QED
    BY <2>2, <2>3
<1>12. ASSUME NEW i \in 1 .. 24, NEW j \in 1 .. 24 PROVE SubSeq(b, i, j) = SubSeq(d2, i, j)
  <2>1. i \in 1 .. 40 /\ j \in 1 .. 40 /\ i \in 1 .. Len(d2) /\ j \in 1 .. Len(d2)
    <3>1. Len(d2) = 24
      BY <1>5
    <3> HIDE DEF d2
    <3>2. QED
      BY <3>1
  <2>2. SubSeq(b, i, j) = SubSeq(d3, i, j)
    BY <1>11, <2>1
  <2> HIDE DEF d2, b
  <2>3. SubSeq(d3, i, j) = SubSeq(d2, i, j)
    BY <1>1, <1>5, <2>1, Kept
  <2>4. QED
    BY <2>2, <2>3
<1>13. ASSUME NEW i \in 1 .. 16, NEW j \in 1 .. 16 PROVE SubSeq(b, i, j) = SubSeq(d1, i, j)
  <2>1. i \in 1 .. 24 /\ j \in 1 .. 24 /\ i \in 1 .. Len(d1) /\ j \in 1 .. Len(d1)
    <3>1. Len(d1) = 16
      BY <1>4
    <3> HIDE DEF d1
    <3>2. QED
      BY <3>1
  <2>2. SubSeq(b, i, j) = SubSeq(d2, i, j)
    BY <1>12, <2>1
  <2> HIDE DEF d1, b
  <2>3. SubSeq(d2, i, j) = SubSeq(d1, i, j)
    BY <1>3, <1>4, <2>1, Kept
  <2>4. QED
    BY <2>2, <2>3
<1> HIDE DEF d1, d2, d3, d4, d5, b
<1>14. /\ SubSeq(b, 1, 8) = Magic1 /\ SubSeq(b, 9, 16) = Magic2
  <2>1. 1 \in 1 .. 16 /\ 8 \in 1 .. 16 /\ 9 \in 1 .. 16 /\ 16 \in 1 .. 16
    OBVIOUS
  <2>2. QED
    BY <1>4, <1>13, <2>1, Zenon
<1>15. SubSeq(b, 17, 24) = Version
  <2>1. 17 \in 1 .. 24 /\ 24 \in 1 .. 24
    OBVIOUS
  <2>2. QED
    BY <1>5, <1>12, <2>1, Zenon
<1>16. SubSeq(b, 25, 40) = f.seq
  <2>1. 25 \in 1 .. 40 /\ 40 \in 1 .. 40
    OBVIOUS
  <2>2. QED
    BY <1>6, <1>11, <2>1, Zenon
<1>17. SubSeq(b, 41, 48) = size
  <2>1. 41 \in 1 .. 48 /\ 48 \in 1 .. 48
    OBVIOUS
  <2>2. QED
    BY <1>7, <1>10, <2>1, Zenon
<1>18. SubSeq(b, HeaderBits + 1, n) = f.text
  <2>1. HeaderBits + 1 \in 1 .. Len(d5) /\ n \in 1 .. Len(d5)
    BY <1>8 DEF HeaderBits
  <2> HIDE DEF n
  <2>2. SubSeq(b, HeaderBits + 1, n) = SubSeq(d5, HeaderBits + 1, n)
    BY <1>8, <2>1, CrcType, Kept DEF b
  <2>3. QED
    BY <1>8, <2>2
<1>19. SubSeq(b, n + 1, Len(b)) = Crc16(SubSeq(b, 1, n)) /\ n > HeaderBits
  BY <1>8, <1>9 DEF HeaderBits
<1>20. QED
  BY <1>2, <1>8, <1>9, <1>14, <1>15, <1>16, <1>17, <1>18, <1>19 DEF size, n, m

LEMMA HalvesAgree ==
    ASSUME NEW x \in Nat, NEW y \in Nat, x \div 2 = y \div 2, (x % 2 = 1) = (y % 2 = 1) PROVE x = y
OBVIOUS

\* A byte says which of the sizes it is.
LEMMA ByteInjective ==
    ASSUME NEW m \in 0 .. 255, NEW n \in 0 .. 255, ByteOf(m) = ByteOf(n) PROVE m = n
<1>1. \A k \in 1 .. 8 : ((m \div 2 ^ (8 - k)) % 2 = 1) = ((n \div 2 ^ (8 - k)) % 2 = 1)
  <2> TAKE k \in 1 .. 8
  <2>1. ByteOf(m)[k] = ByteOf(n)[k]
    OBVIOUS
  <2>2. QED
    BY <2>1 DEF ByteOf
<1>2. 2 ^ 7 = 128 /\ 2 ^ 6 = 64 /\ 2 ^ 5 = 32 /\ 2 ^ 4 = 16 /\ 2 ^ 3 = 8 /\ 2 ^ 2 = 4 /\ 2 ^ 1 = 2 /\ 2 ^ 0 = 1
  OBVIOUS
<1>3. /\ ((m \div 128) % 2 = 1) = ((n \div 128) % 2 = 1)
      /\ ((m \div 64) % 2 = 1) = ((n \div 64) % 2 = 1)
      /\ ((m \div 32) % 2 = 1) = ((n \div 32) % 2 = 1)
      /\ ((m \div 16) % 2 = 1) = ((n \div 16) % 2 = 1)
      /\ ((m \div 8) % 2 = 1) = ((n \div 8) % 2 = 1)
      /\ ((m \div 4) % 2 = 1) = ((n \div 4) % 2 = 1)
      /\ ((m \div 2) % 2 = 1) = ((n \div 2) % 2 = 1)
      /\ ((m \div 1) % 2 = 1) = ((n \div 1) % 2 = 1)
  <2>1. /\ 8 - 1 = 7 /\ 8 - 2 = 6 /\ 8 - 3 = 5 /\ 8 - 4 = 4 /\ 8 - 5 = 3 /\ 8 - 6 = 2 /\ 8 - 7 = 1 /\ 8 - 8 = 0
        /\ {1, 2, 3, 4, 5, 6, 7, 8} \subseteq 1 .. 8
    OBVIOUS
  <2>2. QED
    BY <1>1, <1>2, <2>1
<1>4. m \div 128 = n \div 128
  <2>1. m \div 128 \in {0, 1} /\ n \div 128 \in {0, 1}
    OBVIOUS
  <2>2. ((m \div 128) % 2 = 1) = ((n \div 128) % 2 = 1) /\ 0 % 2 = 0 /\ 1 % 2 = 1
    BY <1>3
  <2>3. QED
    BY <2>1, <2>2
<1>5. m \div 64 = n \div 64
  <2>1. /\ m \div 64 \in Nat /\ n \div 64 \in Nat
        /\ (m \div 64) \div 2 = m \div 128 /\ (n \div 64) \div 2 = n \div 128
    OBVIOUS
  <2>2. QED
    BY <1>3, <1>4, <2>1, HalvesAgree
<1>6. m \div 32 = n \div 32
  <2>1. /\ m \div 32 \in Nat /\ n \div 32 \in Nat
        /\ (m \div 32) \div 2 = m \div 64 /\ (n \div 32) \div 2 = n \div 64
    OBVIOUS
  <2>2. QED
    BY <1>3, <1>5, <2>1, HalvesAgree
<1>7. m \div 16 = n \div 16
  <2>1. /\ m \div 16 \in Nat /\ n \div 16 \in Nat
        /\ (m \div 16) \div 2 = m \div 32 /\ (n \div 16) \div 2 = n \div 32
    OBVIOUS
  <2>2. QED
    BY <1>3, <1>6, <2>1, HalvesAgree
<1>8. m \div 8 = n \div 8
  <2>1. /\ m \div 8 \in Nat /\ n \div 8 \in Nat
        /\ (m \div 8) \div 2 = m \div 16 /\ (n \div 8) \div 2 = n \div 16
    OBVIOUS
  <2>2. QED
    BY <1>3, <1>7, <2>1, HalvesAgree
<1>9. m \div 4 = n \div 4
  <2>1. /\ m \div 4 \in Nat /\ n \div 4 \in Nat
        /\ (m \div 4) \div 2 = m \div 8 /\ (n \div 4) \div 2 = n \div 8
    OBVIOUS
  <2>2. QED
    BY <1>3, <1>8, <2>1, HalvesAgree
<1>10. m \div 2 = n \div 2
  <2>1. /\ m \div 2 \in Nat /\ n \div 2 \in Nat
        /\ (m \div 2) \div 2 = m \div 4 /\ (n \div 2) \div 2 = n \div 4
    OBVIOUS
  <2>2. QED
    BY <1>3, <1>9, <2>1, HalvesAgree
<1>11. m \div 1 = n \div 1
  <2>1. /\ m \div 1 \in Nat /\ n \div 1 \in Nat
        /\ (m \div 1) \div 2 = m \div 2 /\ (n \div 1) \div 2 = n \div 2
    OBVIOUS
  <2>2. QED
    BY <1>3, <1>10, <2>1, HalvesAgree
<1>12. QED
  BY <1>11

-----------------------------------------------------------------------------
(* A frame that nothing disturbs.                                          *)

\* What the decoder has of the bits b of f: after the leader's mark, after n bits
\* and their spaces, and after the mark of the next one.
Announced(b, n) == IF n >= HeaderBits THEN Len(b) ELSE 0
Header(b, n)    == bits = SubSeq(b, 1, n) /\ expected = Announced(b, n)

AfterLeader ==
    state = "LeaderSpace" /\ samples = 1 /\ bits = <<>> /\ expected = 0 /\ pending = None

AfterSpace(f, b, n) ==
    /\ samples = 2 * n + 2 /\ Header(b, n)
    /\ IF n = Len(b)
       THEN state = "TrailerMark" /\ pending = [seq |-> f.seq, text |-> f.text, samples |-> 0]
       ELSE state = "BitMark" /\ pending = None

AfterMark(b, n) == samples = 2 * n + 3 /\ Header(b, n) /\ state = "BitSpace" /\ pending = None

\* What it has after p samples.
Following(f, b, p) ==
    \/ p = 1 /\ AfterLeader
    \/ \E n \in 0 .. Len(b) : p = 2 * n + 2 /\ AfterSpace(f, b, n)
    \/ \E n \in 0 .. Len(b) - 1 : p = 2 * n + 3 /\ AfterMark(b, n)

CleanInv ==
    /\ clean \in BOOLEAN /\ sent \in Seq(Frames)
    /\ pos \in Nat /\ (pos # 0 => sent # <<>> /\ pos <= Last)
    /\ clean /\ pos > 1 => Following(frame, BitsOf[frame], pos - 1)

\* The receiver's measures stay within the decoder's limits.
LEMMA MeasuredIs ==
    ASSUME NEW s
    PROVE  /\ s \in Measured(Pulse(LeaderMarkUs)) =>
                 s.us # 0 /\ IsLeaderMark(s) /\ ~IsLeaderSpace(s) /\ ~IsBitMark(s) /\ s.pulse
           /\ s \in Measured(Space(LeaderSpaceUs)) => s.us # 0 /\ IsLeaderSpace(s)
           /\ s \in Measured(Pulse(BitMarkUs)) => s.us # 0 /\ IsBitMark(s) /\ s.pulse
           /\ s \in Measured(Space(ZeroSpaceUs)) => s.us # 0 /\ IsZero(s) /\ ~IsOne(s) /\ ~s.pulse
           /\ s \in Measured(Space(OneSpaceUs)) => s.us # 0 /\ IsOne(s) /\ ~s.pulse
<1>1. ASSUME s \in Measured(Pulse(LeaderMarkUs))
      PROVE  s.pulse /\ s.us \in {7380, 10440}
  BY <1>1 DEF Measured, Pulse, LeaderMarkUs
<1>2. ASSUME s \in Measured(Space(LeaderSpaceUs))
      PROVE  ~s.pulse /\ s.us \in {3690, 5220}
  BY <1>2 DEF Measured, Space, LeaderSpaceUs
<1>3. ASSUME s \in Measured(Pulse(BitMarkUs))
      PROVE  s.pulse /\ s.us \in {459, 649}
  BY <1>3 DEF Measured, Pulse, BitMarkUs
<1>4. ASSUME s \in Measured(Space(ZeroSpaceUs))
      PROVE  ~s.pulse /\ s.us \in {459, 649}
  BY <1>4 DEF Measured, Space, ZeroSpaceUs
<1>5. ASSUME s \in Measured(Space(OneSpaceUs))
      PROVE  ~s.pulse /\ s.us \in {1385, 1960}
  BY <1>5 DEF Measured, Space, OneSpaceUs
<1>6. QED
  BY <1>1, <1>2, <1>3, <1>4, <1>5 DEF IsLeaderMark, IsLeaderSpace, IsBitMark, IsZero, IsOne, InRange

\* Whatever the decoder was in the middle of, a leader's mark begins a frame.
LEMMA LeaderBegins ==
    ASSUME state \in States, NEW s \in Measured(Pulse(LeaderMarkUs)), Feed(s)
    PROVE  AfterLeader'
<1>1. s.us # 0 /\ IsLeaderMark(s) /\ ~IsLeaderSpace(s) /\ ~IsBitMark(s) /\ s.pulse
  BY MeasuredIs
<1>2. BeginFrame
  BY <1>1 DEF Feed, Seek, LeaderSpace, BitMark, BitSpace, TrailerMark, Completes, RejectAndRestart, RestartFrom
<1>3. QED
  BY <1>2 DEF BeginFrame, Fresh, AfterLeader

LEMMA LeaderEnds ==
    ASSUME AfterLeader, NEW f, NEW b \in Seq(BOOLEAN), Len(b) > HeaderBits,
           NEW s \in Measured(Space(LeaderSpaceUs)), Feed(s)
    PROVE  AfterSpace(f, b, 0)'
<1>1. s.us # 0 /\ IsLeaderSpace(s)
  BY MeasuredIs
<1>2. /\ state' = "BitMark" /\ samples' = 2 /\ bits' = <<>> /\ expected' = 0 /\ pending' = None
  BY <1>1 DEF AfterLeader, Feed, LeaderSpace, Advance
<1>3. SubSeq(b, 1, 0) = <<>>
  BY SubSeqEmpty
<1>4. ~(0 >= HeaderBits) /\ Len(b) # 0
  BY DEF HeaderBits
<1>5. QED
  BY <1>2, <1>3, <1>4 DEF AfterSpace, Header, Announced

LEMMA MarkTaken ==
    ASSUME NEW f, NEW b \in Seq(BOOLEAN), NEW n \in 0 .. Len(b) - 1, AfterSpace(f, b, n),
           NEW s \in Measured(Pulse(BitMarkUs)), Feed(s)
    PROVE  AfterMark(b, n)'
<1>1. s.us # 0 /\ IsBitMark(s) /\ s.pulse
  BY MeasuredIs
<1>2. state = "BitMark" /\ pending = None /\ samples = 2 * n + 2
  BY DEF AfterSpace
<1>3. BitMark(s)
  BY <1>1, <1>2 DEF Feed
<1>4. state' = "BitSpace" /\ samples' = 2 * n + 3 /\ UNCHANGED <<bits, expected, pending>>
  BY <1>1, <1>2, <1>3 DEF BitMark, Advance
<1>5. QED
  BY <1>2, <1>4 DEF AfterSpace, AfterMark, Header

LEMMA PrefixPart ==
    ASSUME NEW b \in Seq(BOOLEAN), NEW k \in 1 .. Len(b), NEW i \in 1 .. k, NEW j \in 1 .. k
    PROVE  SubSeq(SubSeq(b, 1, k), i, j) = SubSeq(b, i, j)
<1>1. 1 \in 1 .. Len(b) /\ k - 1 + 1 = k /\ 1 + i - 1 = i /\ 1 + j - 1 = j
  OBVIOUS
<1>2. SubSeq(SubSeq(b, 1, k), i, j) = SubSeq(b, 1 + i - 1, 1 + j - 1)
  BY <1>1, SubSeqOfSubSeq
<1>3. QED
  BY <1>1, <1>2

LEMMA PrefixGrows ==
    ASSUME NEW b \in Seq(BOOLEAN), NEW n \in 0 .. Len(b) - 1
    PROVE  /\ Append(SubSeq(b, 1, n), b[n + 1]) = SubSeq(b, 1, n + 1)
           /\ Len(SubSeq(b, 1, n + 1)) = n + 1
<1>1. n + 1 \in 1 .. Len(b) /\ (n + 1) - 1 = n
  OBVIOUS
<1>2. SubSeq(b, 1, n + 1) = SubSeq(b, 1, n) \o <<b[n + 1]>>
  BY <1>1, SubSeqRecursiveSecond
<1>3. SubSeq(b, 1, n) \in Seq(BOOLEAN) /\ Len(SubSeq(b, 1, n)) = n /\ b[n + 1] \in BOOLEAN
  BY <1>1
<1>4. QED
  BY <1>2, <1>3, AppendIsConcat

\* A prefix of a frame is not rejected, and tells its length once the header is
\* there.
LEMMA PrefixAccepted ==
    ASSUME NEW f \in Frames, NEW b, b = FrameBits(f), NEW k \in 1 .. Len(b),
           expected = Announced(b, k - 1)
    PROVE  ~BadHeader(SubSeq(b, 1, k)) /\ ExpectedAfter(SubSeq(b, 1, k)) = Announced(b, k)
<1> DEFINE p == SubSeq(b, 1, k)
           n == HeaderBits + Len(f.text)
<1>1. /\ b \in Seq(BOOLEAN) /\ n \in Nat /\ n > HeaderBits /\ Len(b) = n + CrcBits
      /\ SubSeq(b, 1, 8) = Magic1 /\ SubSeq(b, 9, 16) = Magic2 /\ SubSeq(b, 17, 24) = Version
      /\ SubSeq(b, 41, 48) = ByteOf(Len(f.text) \div 8)
  BY PartsOfFrame
<1>2. Len(p) = k
  BY <1>1
<1>3. \A i, j \in 1 .. k : SubSeq(p, i, j) = SubSeq(b, i, j)
  BY <1>1, PrefixPart
<1>4. PICK size \in Sizes : Len(f.text) = 8 * size /\ Len(f.text) \div 8 = size
  BY FrameType
<1>5. size \in 0 .. 255 /\ \A m \in Sizes : m \in 0 .. 255
  BY CodecAssumption DEF Sizes
<1> HIDE DEF p, n
<1>6. /\ 8 * 1 - 7 = 1 /\ 8 * 1 = 8 /\ 8 * 2 - 7 = 9 /\ 8 * 2 = 16
      /\ 8 * 3 - 7 = 17 /\ 8 * 3 = 24 /\ 8 * 6 - 7 = 41 /\ 8 * 6 = 48
  OBVIOUS
<1>7. k # HeaderBits => ExpectedAfter(p) = Announced(b, k)
  <2>1. k # HeaderBits => (k >= HeaderBits <=> k - 1 >= HeaderBits)
    BY DEF HeaderBits
  <2>2. k # HeaderBits => ExpectedAfter(p) = expected
    BY <1>2 DEF ExpectedAfter
  <2>3. QED
    BY <2>1, <2>2 DEF Announced
<1>8. CASE k = 8
  <2>1. 1 \in 1 .. k /\ 8 \in 1 .. k
    BY <1>8
  <2>2. SubSeq(p, 1, 8) = Magic1
    BY <1>1, <1>3, <2>1, Zenon
  <2>3. ByteAt(p, 1) = Magic1
    BY <1>6, <2>2, Zenon DEF ByteAt
  <2>4. ~BadHeader(p)
    BY <1>2, <1>8, <2>3 DEF BadHeader, HeaderBits
  <2>5. QED
    BY <1>7, <1>8, <2>4 DEF p, HeaderBits
<1>9. CASE k = 16
  <2>1. 9 \in 1 .. k /\ 16 \in 1 .. k
    BY <1>9
  <2>2. SubSeq(p, 9, 16) = Magic2
    BY <1>1, <1>3, <2>1, Zenon
  <2>3. ByteAt(p, 2) = Magic2
    BY <1>6, <2>2, Zenon DEF ByteAt
  <2>4. ~BadHeader(p)
    BY <1>2, <1>9, <2>3 DEF BadHeader, HeaderBits
  <2>5. QED
    BY <1>7, <1>9, <2>4 DEF p, HeaderBits
<1>10. CASE k = 24
  <2>1. 17 \in 1 .. k /\ 24 \in 1 .. k
    BY <1>10
  <2>2. SubSeq(p, 17, 24) = Version
    BY <1>1, <1>3, <2>1, Zenon
  <2>3. ByteAt(p, 3) = Version
    BY <1>6, <2>2, Zenon DEF ByteAt
  <2>4. ~BadHeader(p)
    BY <1>2, <1>10, <2>3 DEF BadHeader, HeaderBits
  <2>5. QED
    BY <1>7, <1>10, <2>4 DEF p, HeaderBits
<1>11. CASE k = HeaderBits
  <2>1. 41 \in 1 .. k /\ 48 \in 1 .. k
    BY <1>11 DEF HeaderBits
  <2>2. SubSeq(p, 41, 48) = ByteOf(size)
    BY <1>1, <1>3, <1>4, <2>1, Zenon
  <2>3. SizeByte(p) = ByteOf(size)
    BY <1>6, <2>2, Zenon DEF ByteAt, SizeByte
  <2>4. ~BadHeader(p)
    BY <1>2, <1>4, <1>11, <2>3 DEF BadHeader, HeaderBits
  <2>5. (CHOOSE m \in Sizes : SizeByte(p) = ByteOf(m)) = size
    <3>1. \A m \in Sizes : SizeByte(p) = ByteOf(m) => m = size
      BY <1>5, <2>3, ByteInjective
    <3>2. QED
      BY <1>4, <2>3, <3>1
  <2>6. ExpectedAfter(p) = HeaderBits + 8 * size + CrcBits
    BY <1>2, <1>11, <2>5 DEF ExpectedAfter
  <2>7. QED
    BY <1>1, <1>4, <1>11, <2>4, <2>6 DEF n, HeaderBits, p, Announced
<1>12. CASE k \notin {8, 16, 24, HeaderBits}
  <2>1. ~BadHeader(p)
    BY <1>2, <1>12 DEF BadHeader, HeaderBits
  <2>2. QED
    BY <1>7, <1>12, <2>1 DEF p
<1>13. QED
  BY <1>8, <1>9, <1>10, <1>11, <1>12 DEF p

LEMMA BitTaken ==
    ASSUME NEW f \in Frames, NEW b, b = FrameBits(f), NEW n \in 0 .. Len(b) - 1, AfterMark(b, n),
           NEW s \in Measured(Space(IF b[n + 1] THEN OneSpaceUs ELSE ZeroSpaceUs)), Feed(s)
    PROVE  AfterSpace(f, b, n + 1)'
<1> DEFINE m == HeaderBits + Len(f.text)
           p == SubSeq(b, 1, n + 1)
<1>1. /\ b \in Seq(BOOLEAN) /\ m \in Nat /\ m > HeaderBits /\ Len(b) = m + CrcBits
      /\ SubSeq(b, 25, 40) = f.seq /\ SubSeq(b, HeaderBits + 1, m) = f.text
      /\ SubSeq(b, m + 1, Len(b)) = Crc16(SubSeq(b, 1, m))
  BY PartsOfFrame
<1>2. b[n + 1] \in BOOLEAN /\ n + 1 \in 1 .. Len(b) /\ (n + 1) - 1 = n
  <2> HIDE DEF m, p
  <2>1. b \in Seq(BOOLEAN) /\ Len(b) \in Nat
    BY <1>1
  <2>2. n + 1 \in 1 .. Len(b) /\ (n + 1) - 1 = n
    BY <2>1
  <2>3. b[n + 1] \in BOOLEAN
    BY <2>1, <2>2
  <2>4. QED
    BY <2>2, <2>3
<1>3. s.us # 0 /\ ~s.pulse /\ IsOne(s) = b[n + 1] /\ (IsZero(s) \/ IsOne(s))
  <2>1. CASE b[n + 1]
    BY <1>2, <2>1, MeasuredIs, BitIsBoolean
  <2>2. CASE ~b[n + 1]
    BY <1>2, <2>2, MeasuredIs, BitIsBoolean
  <2>3. QED
    BY <2>1, <2>2
<1>4. /\ state = "BitSpace" /\ samples = 2 * n + 3 /\ bits = SubSeq(b, 1, n) /\ pending = None
      /\ expected = Announced(b, n)
  BY DEF AfterMark, Header
<1>5. ConsumeBit(b[n + 1])
  BY <1>3, <1>4 DEF Feed, BitSpace
<1>6. Append(bits, b[n + 1]) = p /\ Len(p) = n + 1
  BY <1>1, <1>4, PrefixGrows
<1> DEFINE e == Announced(b, n + 1)
<1>7. ~BadHeader(p) /\ ExpectedAfter(p) = e
  <2> DEFINE k == n + 1
  <2>1. k \in 1 .. Len(b) /\ expected = Announced(b, k - 1)
    BY <1>2, <1>4
  <2>2. p = SubSeq(b, 1, k) /\ e = Announced(b, k)
    OBVIOUS
  <2> HIDE DEF k, p, e
  <2>3. ~BadHeader(SubSeq(b, 1, k)) /\ ExpectedAfter(SubSeq(b, 1, k)) = Announced(b, k)
    BY <2>1, PrefixAccepted
  <2>4. QED
    BY <2>2, <2>3
<1>8. Len(b) > HeaderBits /\ Len(b) \in Nat
  <2> HIDE DEF m, p, e
  <2>1. m \in Nat /\ m > HeaderBits /\ Len(b) = m + CrcBits
    BY <1>1
  <2>2. QED
    BY <2>1 DEF CrcBits, HeaderBits
<1>9. (e # 0 /\ Len(p) = e) <=> n + 1 = Len(b)
  BY <1>6, <1>8 DEF HeaderBits, Announced
<1>10. CASE n + 1 # Len(b)
  <2>1. ~(e # 0 /\ Len(p) = e)
    BY <1>9, <1>10
  <2> HIDE DEF p, e
  <2>2. Advance("BitMark") /\ bits' = p /\ expected' = e /\ pending' = pending
    BY <1>5, <1>6, <1>7, <2>1 DEF ConsumeBit
  <2>3. samples' = 2 * (n + 1) + 2 /\ state' = "BitMark" /\ pending' = None
    BY <1>4, <2>2 DEF Advance
  <2>4. QED
    BY <1>10, <2>2, <2>3 DEF AfterSpace, Header, p, e
<1>11. CASE n + 1 = Len(b)
  <2>1. e # 0 /\ Len(p) = e
    BY <1>9, <1>11
  <2>2. p = b
    BY <1>1, <1>11, SubSeqFull
  <2> HIDE DEF p, e, m
  <2>3. Len(b) - CrcBits = m
    BY <1>1 DEF CrcBits
  <2>4. CrcMatches(b) /\ Text(b) = f.text
    BY <1>1, <2>3 DEF CrcMatches, Text
  <2>5. IsPrintable(f.text)
    BY FrameType
  <2>6. /\ Advance("TrailerMark") /\ bits' = b /\ expected' = e
        /\ pending' = [seq |-> SubSeq(b, 25, 40), text |-> Text(b), samples |-> 0]
    BY <1>5, <1>6, <1>7, <2>1, <2>2, <2>4, <2>5 DEF ConsumeBit
  <2>7. pending' = [seq |-> f.seq, text |-> f.text, samples |-> 0]
    BY <1>1, <2>4, <2>6, Zenon
  <2>8. samples' = 2 * (n + 1) + 2 /\ state' = "TrailerMark"
    BY <1>4, <2>6 DEF Advance
  <2>9. bits' = SubSeq(b, 1, n + 1)
    BY <2>2, <2>6 DEF p
  <2>10. QED
    BY <1>11, <2>6, <2>7, <2>8, <2>9 DEF AfterSpace, Header, e
<1>12. QED
  BY <1>10, <1>11

LEMMA FrameCompletes ==
    ASSUME NEW f, NEW b, AfterSpace(f, b, Len(b)), Len(b) \in Nat,
           NEW s \in Measured(Pulse(BitMarkUs)), Feed(s)
    PROVE  out' = [seq |-> f.seq, text |-> f.text, samples |-> 2 * Len(b) + 3]
<1>1. s.us # 0 /\ IsBitMark(s)
  BY MeasuredIs
<1>2. /\ state = "TrailerMark" /\ pending = [seq |-> f.seq, text |-> f.text, samples |-> 0]
      /\ samples = 2 * Len(b) + 2
  BY DEF AfterSpace
<1>3. out' = [pending EXCEPT !.samples = samples + 1]
  BY <1>1, <1>2 DEF Feed, Completes
<1>4. QED
  BY <1>2, <1>3
\* The samples of the waveform, by what they are of the frame.
LEMMA WaveIs ==
    ASSUME NEW b, NEW n \in Nat
    PROVE  /\ WaveAt(b, 1) = Pulse(LeaderMarkUs)
           /\ WaveAt(b, 2) = Space(LeaderSpaceUs)
           /\ WaveAt(b, 2 * n + 3) = Pulse(BitMarkUs)
           /\ WaveAt(b, 2 * n + 4) = Space(IF b[n + 1] THEN OneSpaceUs ELSE ZeroSpaceUs)
<1>1. WaveAt(b, 1) = Pulse(LeaderMarkUs) /\ WaveAt(b, 2) = Space(LeaderSpaceUs)
  BY DEF WaveAt
<1>2. WaveAt(b, 2 * n + 3) = Pulse(BitMarkUs)
  <2> DEFINE k == 2 * n + 3
  <2>1. k # 1 /\ k # 2 /\ k % 2 = 1
    OBVIOUS
  <2> HIDE DEF k
  <2>2. QED
    BY <2>1 DEF WaveAt
<1>3. WaveAt(b, 2 * n + 4) = Space(IF b[n + 1] THEN OneSpaceUs ELSE ZeroSpaceUs)
  <2> DEFINE k == 2 * n + 4
  <2>1. k # 1 /\ k # 2 /\ k % 2 # 1 /\ (k - 2) \div 2 = n + 1
    OBVIOUS
  <2> HIDE DEF k
  <2>2. QED
    BY <2>1 DEF WaveAt
<1>4. QED
  BY <1>1, <1>2, <1>3

\* Which sample of the frame comes next.
LEMMA SamplesOfFrame ==
    ASSUME NEW l \in Nat, NEW p \in 1 .. 2 * l + 3
    PROVE  \/ p = 1 \/ p = 2
           \/ \E n \in 0 .. l : p = 2 * n + 3
           \/ \E n \in 0 .. l - 1 : p = 2 * n + 4
<1>1. CASE p % 2 = 1 /\ p # 1
  <2> DEFINE n == (p - 3) \div 2
  <2>1. n \in 0 .. l /\ p = 2 * n + 3
    BY <1>1
  <2>2. QED
    BY <2>1
<1>2. CASE p % 2 # 1 /\ p # 2
  <2> DEFINE n == (p - 4) \div 2
  <2>1. n \in 0 .. l - 1 /\ p = 2 * n + 4
    BY <1>2
  <2>2. QED
    BY <2>1
<1>3. QED
  BY <1>1, <1>2

\* Every sample of a frame finds the decoder where the ones before it left it,
\* and the last one completes the frame.
LEMMA SampleTaken ==
    ASSUME NEW f \in Frames, NEW b, b = FrameBits(f), state \in States,
           NEW p \in 1 .. 2 * Len(b) + 3, p > 1 => Following(f, b, p - 1),
           NEW s \in Measured(WaveAt(b, p)), Feed(s)
    PROVE  IF p = 2 * Len(b) + 3 THEN out' = [seq |-> f.seq, text |-> f.text, samples |-> p]
                                 ELSE Following(f, b, p)'
<1>1. b \in Seq(BOOLEAN) /\ Len(b) \in Nat /\ Len(b) > HeaderBits
  <2> DEFINE m == HeaderBits + Len(f.text)
  <2>1. b \in Seq(BOOLEAN) /\ m \in Nat /\ m > HeaderBits /\ Len(b) = m + CrcBits
    BY PartsOfFrame
  <2> HIDE DEF m
  <2>2. QED
    BY <2>1 DEF CrcBits, HeaderBits
<1>2. CASE p = 1
  <2>1. s \in Measured(Pulse(LeaderMarkUs)) /\ p # 2 * Len(b) + 3
    <3>1. 0 \in Nat /\ WaveAt(b, 1) = Pulse(LeaderMarkUs)
      BY WaveIs
    <3>2. s \in Measured(Pulse(LeaderMarkUs))
      BY <1>2, <3>1
    <3>3. QED
      BY <1>1, <1>2, <3>2
  <2>2. AfterLeader'
    BY <2>1, LeaderBegins
  <2>3. QED
    BY <1>2, <2>1, <2>2 DEF Following
<1>3. CASE p = 2
  <2>1. s \in Measured(Space(LeaderSpaceUs)) /\ p # 2 * Len(b) + 3
    <3>1. 0 \in Nat /\ WaveAt(b, 2) = Space(LeaderSpaceUs)
      BY WaveIs
    <3>2. s \in Measured(Space(LeaderSpaceUs))
      BY <1>3, <3>1
    <3>3. QED
      BY <1>1, <1>3, <3>2
  <2>2. Following(f, b, 1)
    BY <1>3
  <2>3. (\A n \in 0 .. Len(b) : 1 # 2 * n + 2) /\ (\A n \in 0 .. Len(b) - 1 : 1 # 2 * n + 3)
    BY <1>1
  <2>4. AfterLeader
    BY <2>2, <2>3 DEF Following
  <2>5. AfterSpace(f, b, 0)'
    BY <1>1, <2>1, <2>4, LeaderEnds
  <2>6. 0 \in 0 .. Len(b) /\ p = 2 * 0 + 2
    BY <1>1, <1>3
  <2>7. QED
    BY <2>1, <2>5, <2>6 DEF Following
<1>4. ASSUME NEW n \in 0 .. Len(b), p = 2 * n + 3
      PROVE  IF p = 2 * Len(b) + 3 THEN out' = [seq |-> f.seq, text |-> f.text, samples |-> p]
                                   ELSE Following(f, b, p)'
  <2>1. s \in Measured(Pulse(BitMarkUs))
    BY <1>1, <1>4, WaveIs
  <2>2. Following(f, b, 2 * n + 2)
    <3>1. p > 1 /\ p - 1 = 2 * n + 2
      BY <1>1, <1>4
    <3>2. QED
      BY <3>1
  <2>3. /\ 2 * n + 2 # 1
        /\ \A k \in 0 .. Len(b) : 2 * n + 2 = 2 * k + 2 => k = n
        /\ \A k \in 0 .. Len(b) - 1 : 2 * n + 2 # 2 * k + 3
    BY <1>1
  <2>4. AfterSpace(f, b, n)
    BY <2>2, <2>3 DEF Following
  <2>5. CASE n = Len(b)
    BY <1>1, <1>4, <2>1, <2>4, <2>5, FrameCompletes
  <2>6. CASE n # Len(b)
    <3>1. n \in 0 .. Len(b) - 1 /\ p # 2 * Len(b) + 3
      BY <1>1, <1>4, <2>6
    <3>2. AfterMark(b, n)'
      BY <1>1, <2>1, <2>4, <3>1, MarkTaken
    <3>3. QED
      BY <1>4, <3>1, <3>2 DEF Following
  <2>7. QED
    BY <2>5, <2>6
<1>5. ASSUME NEW n \in 0 .. Len(b) - 1, p = 2 * n + 4
      PROVE  p # 2 * Len(b) + 3 /\ Following(f, b, p)'
  <2>1. s \in Measured(Space(IF b[n + 1] THEN OneSpaceUs ELSE ZeroSpaceUs))
    BY <1>1, <1>5, WaveIs
  <2>2. Following(f, b, 2 * n + 3)
    <3>1. p > 1 /\ p - 1 = 2 * n + 3
      BY <1>1, <1>5
    <3>2. QED
      BY <3>1
  <2>3. /\ 2 * n + 3 # 1
        /\ \A k \in 0 .. Len(b) : 2 * n + 3 # 2 * k + 2
        /\ \A k \in 0 .. Len(b) - 1 : 2 * n + 3 = 2 * k + 3 => k = n
    BY <1>1
  <2>4. AfterMark(b, n)
    BY <2>2, <2>3 DEF Following
  <2>5. AfterSpace(f, b, n + 1)'
    BY <2>1, <2>4, BitTaken
  <2>6. n + 1 \in 0 .. Len(b) /\ p = 2 * (n + 1) + 2 /\ p # 2 * Len(b) + 3
    BY <1>1, <1>5
  <2>7. QED
    BY <2>5, <2>6 DEF Following
<1>6. QED
  BY <1>1, <1>2, <1>3, <1>4, <1>5, SamplesOfFrame

LEMMA FrameOnAir ==
    ASSUME CleanInv, pos # 0
    PROVE  /\ frame \in Frames /\ BitsOf[frame] = FrameBits(frame)
           /\ Len(BitsOf[frame]) \in Nat /\ Last = 2 * Len(BitsOf[frame]) + 3
           /\ pos \in 1 .. Last
<1>1. sent \in Seq(Frames) /\ sent # <<>> /\ pos \in Nat /\ pos <= Last
  BY DEF CleanInv
<1>2. frame \in Frames
  BY <1>1 DEF frame
<1>3. BitsOf[frame] = FrameBits(frame)
  BY <1>2 DEF BitsOf
<1>4. Len(BitsOf[frame]) \in Nat
  <2> DEFINE f == frame
             b == FrameBits(f)
  <2>1. b \in Seq(BOOLEAN)
    BY <1>2, PartsOfFrame
  <2> HIDE DEF b
  <2>2. Len(b) \in Nat
    BY <2>1
  <2>3. QED
    BY <1>3, <2>2 DEF b
<1>5. Last = 2 * Len(BitsOf[frame]) + 3
  BY DEF Last, WaveLength
<1>6. QED
  BY <1>1, <1>2, <1>3, <1>4, <1>5

\* One more sample of an undisturbed frame.
LEMMA ArriveTaken ==
    ASSUME CleanInv, state \in States, Arrive
    PROVE  /\ CleanInv'
           /\ clean /\ pos = Last => out' = [seq |-> frame.seq, text |-> frame.text, samples |-> Last]
<1>1. pos # 0 /\ UNCHANGED <<sent, clean>> /\ pos' = IF pos = Last THEN 0 ELSE pos + 1
  BY DEF Arrive, Next1
<1>2. /\ frame \in Frames /\ BitsOf[frame] = FrameBits(frame)
      /\ Len(BitsOf[frame]) \in Nat /\ Last = 2 * Len(BitsOf[frame]) + 3
      /\ pos \in 1 .. Last
  BY <1>1, FrameOnAir
<1>3. PICK s \in Measured(WaveAt(BitsOf[frame], pos)) : Feed(s)
  BY DEF Arrive
<1>4. PICK f, b, p : f \in Frames /\ f = frame /\ b = BitsOf[frame] /\ p = pos
  BY <1>2
<1>5. b = FrameBits(f) /\ Last = 2 * Len(b) + 3 /\ p \in 1 .. 2 * Len(b) + 3 /\ Len(b) \in Nat
  BY <1>2, <1>4
<1>6. frame' = f /\ (BitsOf[frame])' = b /\ Last' = Last
  BY <1>1, <1>4 DEF frame, BitsOf, Last
<1>7. ASSUME clean
      PROVE  IF p = 2 * Len(b) + 3 THEN out' = [seq |-> f.seq, text |-> f.text, samples |-> p]
                                   ELSE Following(f, b, p)'
  <2>1. p > 1 => Following(f, b, p - 1)
    BY <1>4, <1>7 DEF CleanInv
  <2>2. s \in Measured(WaveAt(b, p))
    BY <1>3, <1>4
  <2>3. Feed(s) /\ f \in Frames /\ b = FrameBits(f) /\ p \in 1 .. 2 * Len(b) + 3
    BY <1>3, <1>4, <1>5
  <2>4. QED
    BY <2>1, <2>2, <2>3, SampleTaken
<1>8. ASSUME clean', pos' > 1 PROVE Following(frame, BitsOf[frame], pos - 1)'
  <2>1. clean /\ p # 2 * Len(b) + 3 /\ pos' = p + 1 /\ pos' - 1 = p
    BY <1>1, <1>4, <1>5, <1>8
  <2>2. Following(f, b, p)'
    BY <1>7, <2>1
  <2>3. QED
    BY <1>6, <2>1, <2>2
<1>9. CleanInv'
  <2>1. clean' \in BOOLEAN /\ sent' \in Seq(Frames)
    BY <1>1 DEF CleanInv
  <2>2. pos' \in Nat /\ (pos' # 0 => sent' # <<>> /\ pos' <= Last')
    BY <1>1, <1>2, <1>6 DEF CleanInv
  <2>3. QED
    BY <1>8, <2>1, <2>2 DEF CleanInv
<1>10. ASSUME clean, pos = Last
       PROVE  out' = [seq |-> frame.seq, text |-> frame.text, samples |-> Last]
  <2>1. p = 2 * Len(b) + 3 /\ p = Last
    BY <1>4, <1>5, <1>10
  <2>2. out' = [seq |-> f.seq, text |-> f.text, samples |-> p]
    BY <1>7, <1>10, <2>1
  <2>3. QED
    BY <1>4, <2>1, <2>2
<1>11. QED
  BY <1>9, <1>10

\* What is heard between the samples of a frame, or in the place of one, makes it
\* unclean, unless the frame has not begun or the decoder ignores it.
LEMMA OthersKeepClean ==
    ASSUME CleanInv, Transmit \/ Alter \/ Add \/ Cut \/ Forget \/ UNCHANGED vars
    PROVE  CleanInv'
<1>1. CASE Transmit
  <2>1. PICK f \in Frames : sent' = Append(sent, f)
    BY <1>1 DEF Transmit
  <2>2. sent \in Seq(Frames) /\ pos' = 1 /\ clean' = TRUE
    BY <1>1 DEF CleanInv, Transmit
  <2>3. sent' \in Seq(Frames) /\ sent' # <<>> /\ frame' = f
    BY <2>1, <2>2 DEF frame
  <2>4. 1 <= Last'
    <3>1. (BitsOf[frame])' = FrameBits(f)
      BY <2>3 DEF BitsOf
    <3> DEFINE b == FrameBits(f)
    <3>2. b \in Seq(BOOLEAN)
      BY PartsOfFrame
    <3>3. Last' = 2 * Len(b) + 3
      BY <3>1 DEF Last, WaveLength
    <3> HIDE DEF b
    <3>4. Len(b) \in Nat
      BY <3>2
    <3>5. QED
      BY <3>3, <3>4
  <2>5. QED
    BY <2>2, <2>3, <2>4 DEF CleanInv
<1>2. CASE Alter
  <2>1. pos # 0 /\ sent' = sent /\ clean' = FALSE /\ pos' = IF pos = Last THEN 0 ELSE pos + 1
    BY <1>2 DEF Alter, Disturb, Next1
  <2>2. Last \in Nat /\ pos \in 1 .. Last
    BY <2>1, FrameOnAir
  <2>3. Last' = Last
    BY <2>1 DEF Last, frame, BitsOf
  <2>4. pos' \in Nat /\ (pos' # 0 => sent' # <<>> /\ pos' <= Last')
    BY <2>1, <2>2, <2>3 DEF CleanInv
  <2>5. QED
    BY <2>1, <2>4 DEF CleanInv
<1>3. CASE Cut
  BY <1>3 DEF Cut, Disturb, CleanInv
<1>4. ASSUME UNCHANGED <<sent, pos>>, clean' \in BOOLEAN, clean' => clean,
             clean' /\ pos > 1 => UNCHANGED <<state, bits, expected, samples, pending>>
      PROVE  CleanInv'
  <2>1. frame' = frame /\ (BitsOf[frame])' = BitsOf[frame] /\ Last' = Last
    BY <1>4 DEF frame, BitsOf, Last
  <2>2. sent' \in Seq(Frames) /\ pos' \in Nat /\ (pos' # 0 => sent' # <<>> /\ pos' <= Last')
    BY <1>4, <2>1 DEF CleanInv
  <2>3. ASSUME clean', pos' > 1 PROVE Following(frame, BitsOf[frame], pos - 1)'
    <3>1. Following(frame, BitsOf[frame], pos - 1) /\ UNCHANGED <<state, bits, expected, samples, pending>>
      BY <1>4, <2>3 DEF CleanInv
    <3>2. QED
      BY <1>4, <2>1, <3>1 DEF Following, AfterLeader, AfterSpace, AfterMark, Header
  <2>4. QED
    BY <1>4, <2>2, <2>3 DEF CleanInv
<1>5. CASE Add
  <2>1. PICK s \in Noise : Feed(s) /\ clean' = (clean /\ (pos = 1 \/ s.us = 0))
    BY <1>5 DEF Add
  <2>2. UNCHANGED <<sent, pos>> /\ clean \in BOOLEAN /\ pos \in Nat
    BY <1>5 DEF Add, Disturb, CleanInv
  <2>3. ASSUME clean', pos > 1 PROVE UNCHANGED <<state, bits, expected, samples, pending>>
    <3>0. pos = 1 \/ s.us = 0
      BY <2>1, <2>3, Zenon
    <3>1. s.us = 0
      BY <2>2, <2>3, <3>0
    <3>2. QED
      BY <2>1, <3>1 DEF Feed, decoder
  <2>4. clean' \in BOOLEAN /\ (clean' => clean)
    BY <2>1, <2>2
  <2>5. QED
    BY <1>4, <2>2, <2>3, <2>4
<1>6. CASE Forget
  <2>1. UNCHANGED <<sent, pos>> /\ clean' = (clean /\ pos = 1) /\ clean \in BOOLEAN /\ pos \in Nat
    BY <1>6 DEF Forget, Disturb, CleanInv
  <2>2. clean' \in BOOLEAN /\ (clean' => clean) /\ (clean' => pos = 1)
    BY <2>1, Zenon
  <2>3. pos = 1 => ~(pos > 1)
    OBVIOUS
  <2>4. QED
    BY <1>4, <2>1, <2>2, <2>3
<1>7. CASE UNCHANGED vars
  <2>1. UNCHANGED <<sent, pos, clean, state, bits, expected, samples, pending>> /\ clean \in BOOLEAN
    BY <1>7 DEF vars, air, decoder, CleanInv
  <2>2. QED
    BY <1>4, <2>1
<1>8. QED
  BY <1>1, <1>2, <1>3, <1>5, <1>6, <1>7

\* A frame that arrives undisturbed is decoded at its last sample, with its number
\* and its text (IrChatStreamDecoder::feed), whatever the decoder was in the middle
\* of when it began: a leader's mark begins a frame in every state, a prefix of a
\* frame's bits is never rejected, and the checksum of a frame is its own.
THEOREM CleanFramesAreDecoded == Spec => CleanFrameDecoded
<1> DEFINE Decodes == Arrive /\ clean /\ pos = Last =>
                          out' = [seq |-> frame.seq, text |-> frame.text, samples |-> Last]
<1>1. Init => DecoderInv /\ CleanInv
  <2>1. Init => DecoderInv
    BY DEF Init, DecoderInv, States, HeaderBits
  <2>2. Init => CleanInv
    <3>1. SUFFICES ASSUME sent = <<>>, pos = 0, clean = FALSE PROVE CleanInv
      BY DEF Init
    <3>2. clean \in BOOLEAN /\ ~clean
      BY <3>1, Zenon
    <3>3. sent \in Seq(Frames) /\ pos \in Nat /\ ~(pos # 0)
      BY <3>1
    <3>4. QED
      BY <3>2, <3>3, Zenon DEF CleanInv
  <2>3. QED
    BY <2>1, <2>2
<1>2. DecoderInv /\ CleanInv /\ [Next]_vars => DecoderInv' /\ CleanInv'
  <2> SUFFICES ASSUME DecoderInv, CleanInv, [Next]_vars PROVE DecoderInv' /\ CleanInv'
    OBVIOUS
  <2>1. DecoderInv'
    BY NextKeepsDecoder
  <2>2. CASE Arrive
    BY <2>1, <2>2, ArriveTaken DEF DecoderInv
  <2>3. CASE Transmit \/ Alter \/ Add \/ Cut \/ Forget \/ UNCHANGED vars
    BY <2>1, <2>3, OthersKeepClean
  <2>4. QED
    BY <2>2, <2>3 DEF Next
<1>3. DecoderInv /\ CleanInv /\ [Next]_vars => [Decodes]_vars
  <2> SUFFICES ASSUME DecoderInv, CleanInv, Arrive, clean, pos = Last
               PROVE  out' = [seq |-> frame.seq, text |-> frame.text, samples |-> Last]
    OBVIOUS
  <2>1. QED
    BY ArriveTaken DEF DecoderInv
<1>4. QED
  BY <1>1, <1>2, <1>3, PTL DEF Spec, CleanFrameDecoded
=============================================================================
