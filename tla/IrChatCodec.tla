---------------------------- MODULE IrChatCodec ----------------------------
(***************************************************************************)
(* The codec of the infrared frames (src/radio/ir_chat_codec.cpp): the     *)
(* encoder as an operator, the stream decoder as a state machine that is   *)
(* fed one pulse or space at a time.  A byte is eight booleans, the most   *)
(* significant first, and the bytes received so far are one sequence of    *)
(* bits: _bytes, _current_byte and _bits_in_current_byte together.         *)
(* The air between the two loses, alters and adds samples, and cuts a      *)
(* transmission short.                                                     *)
(***************************************************************************)
EXTENDS Integers, Sequences, FiniteSets

CONSTANTS
    MaxPayload,      \* kMaxPayloadSize, 7 in the program
    Frames,          \* the frames that may be transmitted
    NoiseUs,         \* the durations a disturbance may have
    MaxSends,        \* bound: transmissions
    MaxFaults        \* bound: disturbances

None == [none |-> TRUE]

-----------------------------------------------------------------------------
(* Bytes, the checksum and the encoder.                                    *)

ByteOf(n) == [k \in 1 .. 8 |-> (n \div 2 ^ (8 - k)) % 2 = 1]
WordOf(n) == ByteOf(n \div 256) \o ByteOf(n % 256)

Magic1  == ByteOf(73)    \* 'I'
Magic2  == ByteOf(82)    \* 'R'
Version == ByteOf(1)

HeaderBits == 48
CrcBits    == 16

\* The register of the checksum is the set of its bits that are set, 1 the most
\* significant.  The polynomial is 0x1021.
Poly == {4, 11, 16}
ShiftCrc(crc, bit) ==
    LET feedback == (1 \in crc) # bit
    IN  {k \in 1 .. CrcBits : (k + 1 \in crc) # (feedback /\ k \in Poly)}

\* irChatCrc16: the code adds a byte at a time and shifts eight times.
Crc16(data) ==
    LET crc[n \in 0 .. Len(data)] ==
            IF n = 0 THEN 1 .. CrcBits ELSE ShiftCrc(crc[n - 1], data[n])
    IN  [k \in 1 .. CrcBits |-> k \in crc[Len(data)]]

\* 0x20 .. 0x7e.
Printable(b) == ~b[1] /\ (b[2] \/ b[3]) /\ \E k \in 2 .. 8 : ~b[k]

\* A frame is its sequence number and its text, both as bits.
ByteAt(bits, n)    == SubSeq(bits, 8 * n - 7, 8 * n)
IsPrintable(text)  == \A n \in 1 .. Len(text) \div 8 : Printable(ByteAt(text, n))

Data(f)      == Magic1 \o Magic2 \o Version \o f.seq \o ByteOf(Len(f.text) \div 8) \o f.text
FrameBits(f) == Data(f) \o Crc16(Data(f))

Pulse(us) == [pulse |-> TRUE,  us |-> us]
Space(us) == [pulse |-> FALSE, us |-> us]

LeaderMarkUs  == 9000
LeaderSpaceUs == 4500
BitMarkUs     == 560
ZeroSpaceUs   == 560
OneSpaceUs    == 1690

\* encodeIrChatFrame takes 1 .. MaxPayload printable bytes.
Encodable(f) == Len(f.text) \in {8 * n : n \in 1 .. MaxPayload} /\ IsPrintable(f.text)

\* Sample k of the waveform of a frame of bits b:
\* a leader, a mark and a space for every bit, a last mark.
WaveLength(b) == 2 * Len(b) + 3
WaveAt(b, k) ==
    IF k = 1 THEN Pulse(LeaderMarkUs)
    ELSE IF k = 2 THEN Space(LeaderSpaceUs)
    ELSE IF k % 2 = 1 THEN Pulse(BitMarkUs)
    ELSE Space(IF b[(k - 2) \div 2] THEN OneSpaceUs ELSE ZeroSpaceUs)

-----------------------------------------------------------------------------
(* The decoder.                                                            *)

VARIABLES
    state,      \* _state
    bits,       \* the bits received of the frame in progress
    expected,   \* _expected_bytes, in bits; 0 until the header is complete
    samples,    \* _frame_samples
    pending,    \* _pending_frame
    stats,      \* _stats without the count of noise
    out,        \* the result of the last call, until the next frame begins
    begun,      \* history: frames begun
    forgotten   \* history: frames in progress when the backend reset the decoder

decoder == <<state, bits, expected, samples, pending, stats>>

InRange(us, low, high) == low <= us /\ us <= high
IsLeaderMark(s)  == s.pulse /\ InRange(s.us, 6300, 11700)
IsLeaderSpace(s) == ~s.pulse /\ InRange(s.us, 3150, 5850)
IsBitMark(s)     == s.pulse /\ InRange(s.us, 300, 850)
IsZero(s)        == ~s.pulse /\ InRange(s.us, 300, 950)
IsOne(s)         == ~s.pulse /\ InRange(s.us, 1100, 2400)

\* Mutation: reset leaves the length expected of the frame before.
FreshKeepingExpected(st, n) ==
    /\ state' = st /\ samples' = n
    /\ bits' = <<>> /\ expected' = expected /\ pending' = None
    /\ begun' = begun + n

\* reset and beginFrame.
Fresh(st, n) ==
    /\ state' = st /\ samples' = n
    /\ bits' = <<>> /\ expected' = 0 /\ pending' = None
    /\ begun' = begun + n
Reset      == Fresh("SeekingLeader", 0)
BeginFrame == Fresh("LeaderSpace", 1)

Count(counter) == stats' = [stats EXCEPT ![counter] = @ + 1]

\* Mutation: a leader in the middle of a frame ends it and begins none.
RestartFromNothing(s) == Reset

\* restartFrom, after a rejection.
RestartFrom(s) == IF IsLeaderMark(s) THEN BeginFrame ELSE Reset

RejectAndRestart(s) == Count("malformed") /\ RestartFrom(s)

Advance(st) == state' = st /\ samples' = samples + 1

Seek(s) ==
    /\ IF IsLeaderMark(s) THEN BeginFrame ELSE UNCHANGED <<state, bits, expected, samples, pending, begun>>
    /\ UNCHANGED stats

LeaderSpace(s) ==
    IF IsLeaderSpace(s)
    THEN Advance("BitMark") /\ UNCHANGED <<bits, expected, pending, stats, begun>>
    ELSE RejectAndRestart(s)

BitMark(s) ==
    IF IsBitMark(s)
    THEN Advance("BitSpace") /\ UNCHANGED <<bits, expected, pending, stats, begun>>
    ELSE RejectAndRestart(s)

\* The sizes a header may announce.
Sizes == 1 .. MaxPayload
SizeByte(b) == ByteAt(b, 6)

BadHeader(b) ==
    \/ Len(b) = 8  /\ ByteAt(b, 1) # Magic1
    \/ Len(b) = 16 /\ ByteAt(b, 2) # Magic2
    \/ Len(b) = 24 /\ ByteAt(b, 3) # Version
    \/ Len(b) = HeaderBits /\ \A n \in Sizes : SizeByte(b) # ByteOf(n)

ExpectedAfter(b) ==
    IF Len(b) = HeaderBits
    THEN HeaderBits + 8 * (CHOOSE n \in Sizes : SizeByte(b) = ByteOf(n)) + CrcBits
    ELSE expected

\* Mutation: the checksum is not compared.
CrcMatchesAlways(b) == TRUE

CrcMatches(b) ==
    LET n == Len(b) - CrcBits
    IN  Crc16(SubSeq(b, 1, n)) = SubSeq(b, n + 1, Len(b))

Text(b) == SubSeq(b, HeaderBits + 1, Len(b) - CrcBits)

\* consumeBit: the header is checked as its bytes complete, the rest when the
\* frame is.
ConsumeBit(bit) ==
    LET b == Append(bits, bit)
        e == ExpectedAfter(b)
        complete == e # 0 /\ Len(b) = e
    IN
    IF BadHeader(b) THEN Count("malformed") /\ Reset
    ELSE IF ~complete
    THEN /\ Advance("BitMark") /\ bits' = b /\ expected' = e
         /\ UNCHANGED <<pending, stats, begun>>
    ELSE IF ~CrcMatches(b) THEN Count("crc") /\ Reset
    ELSE IF ~IsPrintable(Text(b)) THEN Count("malformed") /\ Reset
    ELSE /\ Advance("TrailerMark") /\ bits' = b /\ expected' = e
         /\ pending' = [seq |-> SubSeq(b, 25, 40), text |-> Text(b), samples |-> 0]
         /\ UNCHANGED <<stats, begun>>

\* Mutation: a space that is no bit ends the frame without counting it.
BitSpaceUncounted(s) ==
    IF s.pulse THEN RejectAndRestart(s)
    ELSE IF IsZero(s) \/ IsOne(s) THEN ConsumeBit(IsOne(s))
    ELSE Reset /\ UNCHANGED stats

BitSpace(s) ==
    IF s.pulse THEN RejectAndRestart(s)
    ELSE IF IsZero(s) \/ IsOne(s) THEN ConsumeBit(IsOne(s))
    ELSE Count("malformed") /\ Reset

Completes(s) == state = "TrailerMark" /\ IsBitMark(s)

TrailerMark(s) ==
    IF Completes(s) THEN Count("decoded") /\ Reset ELSE RejectAndRestart(s)

Feed(s) ==
    /\ out' = IF s.us # 0 /\ Completes(s) THEN [pending EXCEPT !.samples = samples + 1] ELSE None
    /\ IF s.us = 0 THEN UNCHANGED <<decoder, begun>>
       ELSE \/ state = "SeekingLeader" /\ Seek(s)
            \/ state = "LeaderSpace" /\ LeaderSpace(s)
            \/ state = "BitMark" /\ BitMark(s)
            \/ state = "BitSpace" /\ BitSpace(s)
            \/ state = "TrailerMark" /\ TrailerMark(s)
    /\ UNCHANGED forgotten
-----------------------------------------------------------------------------
(* The air.                                                                *)

VARIABLES
    sent,     \* the frames transmitted, the last one on the air
    pos,      \* the next sample of it, 0 when the air is silent
    clean,    \* history: nothing has disturbed this frame
    faults    \* disturbances so far

air  == <<sent, pos, clean, faults>>
vars == <<decoder, out, begun, forgotten, air>>

ASSUME CodecAssumption ==
    /\ MaxPayload \in 1 .. 255
    /\ \A f \in Frames : /\ f.seq \in Seq(BOOLEAN) /\ Len(f.seq) = 16
                         /\ f.text \in Seq(BOOLEAN) /\ Encodable(f)

BitsOf == [f \in Frames |-> FrameBits(f)]
frame  == sent[Len(sent)]
Last   == WaveLength(BitsOf[frame])

Init ==
    /\ state = "SeekingLeader" /\ bits = <<>> /\ expected = 0 /\ samples = 0 /\ pending = None
    /\ stats = [decoded |-> 0, crc |-> 0, malformed |-> 0]
    /\ out = None /\ begun = 0 /\ forgotten = 0
    /\ sent = <<>> /\ pos = 0 /\ clean = FALSE /\ faults = 0

Transmit ==
    /\ pos = 0 /\ Len(sent) < MaxSends
    /\ \E f \in Frames : sent' = Append(sent, f)
    /\ pos' = 1 /\ clean' = TRUE
    /\ out' = None
    /\ UNCHANGED <<decoder, begun, forgotten, faults>>

Next1 == pos' = IF pos = Last THEN 0 ELSE pos + 1

\* The receiver measures a duration too short or too long.
Measured(s) == {[s EXCEPT !.us = (@ * percent) \div 100] : percent \in {82, 116}}

Arrive ==
    /\ pos # 0
    /\ \E s \in Measured(WaveAt(BitsOf[frame], pos)) : Feed(s)
    /\ Next1 /\ UNCHANGED <<sent, clean, faults>>

Disturb == faults < MaxFaults /\ faults' = faults + 1 /\ UNCHANGED sent

Noise == [pulse : BOOLEAN, us : NoiseUs]

\* A sample is altered, or lost.
Alter ==
    /\ pos # 0 /\ Disturb
    /\ (\E s \in Noise : Feed(s)) \/ UNCHANGED <<decoder, out, begun, forgotten>>
    /\ Next1 /\ clean' = FALSE

\* A sample of another source; one of no duration does no harm.
Add ==
    /\ Disturb
    /\ \E s \in Noise : Feed(s) /\ clean' = (clean /\ (pos = 1 \/ s.us = 0))
    /\ UNCHANGED pos

\* The rest of the frame does not arrive.
Cut ==
    /\ pos > 1 /\ Disturb
    /\ pos' = 0 /\ clean' = FALSE
    /\ UNCHANGED <<decoder, out, begun, forgotten>>

\* The backend resets the decoder: at a timeout, an overflow, a change of mode.
Forget ==
    /\ state # "SeekingLeader" /\ Disturb
    /\ Reset /\ forgotten' = forgotten + 1
    /\ out' = None /\ clean' = (clean /\ pos = 1)
    /\ UNCHANGED <<stats, pos>>

Next == Transmit \/ Arrive \/ Alter \/ Add \/ Cut \/ Forget

Spec == Init /\ [][Next]_vars

-----------------------------------------------------------------------------
(* Properties.                                                             *)

FrameStates == {"LeaderSpace", "BitMark", "BitSpace", "TrailerMark"}

\* What the decoder holds is bounded by the longest frame, and nothing is held
\* between frames.
DecoderBounded ==
    /\ state \in FrameStates \union {"SeekingLeader"}
    /\ bits \in Seq(BOOLEAN) /\ samples \in Nat
    /\ Len(bits) <= HeaderBits + 8 * MaxPayload + CrcBits
    /\ expected # 0 => Len(bits) <= expected
    /\ state = "SeekingLeader" => bits = <<>> /\ expected = 0 /\ pending = None
    /\ pending # None <=> state = "TrailerMark"

\* A frame that arrives undisturbed is decoded at its last sample, whatever the
\* decoder was in the middle of when the frame began: no remnant of an earlier
\* frame, no noise and no reset can cost a whole frame.
CleanFrameDecoded ==
    [][Arrive /\ clean /\ pos = Last =>
           out' = [seq |-> frame.seq, text |-> frame.text, samples |-> Last]]_vars

\* No disturbance up to the bound makes a frame out of nothing, alters one or
\* repeats one: what is decoded was transmitted, and not more often than it was.
\* (A frame whose last mark is lost is completed by the next short pulse, if one
\* comes before a leader: it is decoded late, in the next frame's place.)
OnlySentDecoded ==
    /\ out # None => \E k \in DOMAIN sent : out.seq = sent[k].seq /\ out.text = sent[k].text
    /\ stats.decoded <= Len(sent)

\* Each frame begun ends in exactly one way: it is decoded, counted in one of
\* the two error counters, forgotten by a reset, or still in progress.
EveryFrameAccounted ==
    begun = stats.decoded + stats.crc + stats.malformed + forgotten
              + (IF state = "SeekingLeader" THEN 0 ELSE 1)
=============================================================================
